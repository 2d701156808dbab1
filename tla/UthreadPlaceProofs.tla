-------------------------- MODULE UthreadPlaceProofs --------------------------
(***************************************************************************)
(* TypeInv, and so SyncTypeOK, is an invariant of SyncSpec for any number  *)
(* of threads, LWPs, priorities, mutexes and condition variables, and for  *)
(* clients that call any entry point; PlaceInv, and so ThreadInOnePlace,   *)
(* is one when the clients are Disciplined.                                *)
(***************************************************************************)
EXTENDS UthreadInv, SequenceTheorems, TLAPS

AllLabels == Labels \cup SyncLabels

-----------------------------------------------------------------------------
(* Sequences of labels.                                                    *)

\* The sequences that end up below a new frame.
LEMMA ConcatLiterals ==
    ASSUME NEW a, NEW b
    PROVE  <<a>> \o <<>> = <<a>> /\ <<a>> \o <<b>> = <<a, b>>
<1> DEFINE S == {a, b}
<1>1. <<a>> \o <<b>> \in Seq(S) /\ <<a, b>> \in Seq(S) /\ <<a>> \in Seq(S)
  OBVIOUS
<1>2. Len(<<a>> \o <<b>>) = Len(<<a, b>>)
  OBVIOUS
<1>3. \A i \in 1..Len(<<a>> \o <<b>>) : (<<a>> \o <<b>>)[i] = <<a, b>>[i]
  OBVIOUS
<1>4. <<a>> \o <<b>> = <<a, b>>
  BY <1>1, <1>2, <1>3, SeqEqual
<1> QED BY <1>1, <1>4, ConcatEmptySeq

LEMMA ConsProperties ==
    ASSUME NEW S, NEW f \in S, NEW r \in Seq(S)
    PROVE  /\ <<f>> \o r \in Seq(S) /\ <<f>> \o r # <<>>
           /\ Head(<<f>> \o r) = f /\ Tail(<<f>> \o r) = r
<1>1. <<f>> \o r \in Seq(S) /\ Len(<<f>> \o r) = 1 + Len(r) /\ <<f>> \o r # <<>>
  OBVIOUS
<1>2. Head(<<f>> \o r) = f
  BY <1>1
<1>3. Tail(<<f>> \o r) \in Seq(S) /\ Len(Tail(<<f>> \o r)) = Len(r)
  BY <1>1
<1>4. \A i \in 1..Len(r) : Tail(<<f>> \o r)[i] = r[i]
  BY <1>1
<1>5. Tail(<<f>> \o r) = r
  BY <1>3, <1>4, SeqEqual
<1> QED BY <1>1, <1>2, <1>5

LEMMA ConsTwoProperties ==
    ASSUME NEW S, NEW f \in S, NEW g \in S, NEW r \in Seq(S)
    PROVE  /\ <<f, g>> \o r \in Seq(S) /\ <<f, g>> \o r # <<>>
           /\ Head(<<f, g>> \o r) = f /\ Tail(<<f, g>> \o r) = <<g>> \o r
<1>1. <<f, g>> \o r \in Seq(S) /\ Len(<<f, g>> \o r) = 2 + Len(r) /\ <<f, g>> \o r # <<>>
  OBVIOUS
<1>2. <<g>> \o r \in Seq(S) /\ Len(<<g>> \o r) = 1 + Len(r)
  OBVIOUS
<1>3. Head(<<f, g>> \o r) = f
  BY <1>1
<1>4. Tail(<<f, g>> \o r) \in Seq(S) /\ Len(Tail(<<f, g>> \o r)) = Len(<<g>> \o r)
  BY <1>1, <1>2
<1>5. \A i \in 1..Len(<<g>> \o r) : Tail(<<f, g>> \o r)[i] = (<<g>> \o r)[i]
  BY <1>1, <1>2
<1>6. Tail(<<f, g>> \o r) = <<g>> \o r
  BY <1>2, <1>4, <1>5, SeqEqual
<1> QED BY <1>1, <1>3, <1>6

LEMMA PopProperties ==
    ASSUME NEW S, NEW s \in Seq(S), s # <<>>
    PROVE  Tail(s) \in Seq(S) /\ <<>> \o Tail(s) = Tail(s) /\ Head(s) \in S
<1>1. Tail(s) \in Seq(S) /\ Head(s) \in S
  OBVIOUS
<1> QED BY <1>1, ConcatEmptySeq

\* The stacks found below a frame, taken apart.
LEMMA Literals ==
    /\ <<"nopreempt_off">> # <<>> /\ Head(<<"nopreempt_off">>) = "nopreempt_off" /\ Tail(<<"nopreempt_off">>) = <<>>
    /\ <<"mtx_locked">> # <<>> /\ Head(<<"mtx_locked">>) = "mtx_locked" /\ Tail(<<"mtx_locked">>) = <<>>
    /\ <<"cond_relock">> # <<>> /\ Head(<<"cond_relock">>) = "cond_relock" /\ Tail(<<"cond_relock">>) = <<>>
    /\ <<"cond_sleep">> # <<>> /\ Head(<<"cond_sleep">>) = "cond_sleep" /\ Tail(<<"cond_sleep">>) = <<>>
    /\ <<"cond_broadcast">> # <<>> /\ Head(<<"cond_broadcast">>) = "cond_broadcast" /\ Tail(<<"cond_broadcast">>) = <<>>
    /\ <<"create_init">> # <<>> /\ Head(<<"create_init">>) = "create_init" /\ Tail(<<"create_init">>) = <<>>
    /\ <<"wake_unlock">> # <<>> /\ Head(<<"wake_unlock">>) = "wake_unlock" /\ Tail(<<"wake_unlock">>) = <<>>
    /\ <<"nopreempt_off", "create_init">> # <<>> /\ Head(<<"nopreempt_off", "create_init">>) = "nopreempt_off" /\ Tail(<<"nopreempt_off", "create_init">>) = <<"create_init">>
    /\ <<"nopreempt_off", "wake_unlock">> # <<>> /\ Head(<<"nopreempt_off", "wake_unlock">>) = "nopreempt_off" /\ Tail(<<"nopreempt_off", "wake_unlock">>) = <<"wake_unlock">>
    /\ <<"mtx_locked", "nopreempt_off">> # <<>> /\ Head(<<"mtx_locked", "nopreempt_off">>) = "mtx_locked" /\ Tail(<<"mtx_locked", "nopreempt_off">>) = <<"nopreempt_off">>
    /\ <<"nopreempt_off", "cond_sleep">> # <<>> /\ Head(<<"nopreempt_off", "cond_sleep">>) = "nopreempt_off" /\ Tail(<<"nopreempt_off", "cond_sleep">>) = <<"cond_sleep">>
<1>1. ASSUME NEW f PROVE <<f>> # <<>> /\ Head(<<f>>) = f /\ Tail(<<f>>) = <<>>
  OBVIOUS
<1>2. ASSUME NEW f, NEW g PROVE <<f, g>> # <<>> /\ Head(<<f, g>>) = f /\ Tail(<<f, g>>) = <<g>>
  OBVIOUS
<1> QED BY <1>1, <1>2

\* Put together again below a frame.
LEMMA Concats ==
    /\ <<"nopreempt_off">> \o <<>> = <<"nopreempt_off">>
    /\ <<"mtx_locked">> \o <<>> = <<"mtx_locked">>
    /\ <<"cond_relock">> \o <<>> = <<"cond_relock">>
    /\ <<"cond_sleep">> \o <<>> = <<"cond_sleep">>
    /\ <<"cond_broadcast">> \o <<>> = <<"cond_broadcast">>
    /\ <<"nopreempt_off">> \o <<"create_init">> = <<"nopreempt_off", "create_init">>
    /\ <<"nopreempt_off">> \o <<"wake_unlock">> = <<"nopreempt_off", "wake_unlock">>
    /\ <<"mtx_locked">> \o <<"nopreempt_off">> = <<"mtx_locked", "nopreempt_off">>
    /\ <<"nopreempt_off">> \o <<"cond_sleep">> = <<"nopreempt_off", "cond_sleep">>
  BY ConcatLiterals

-----------------------------------------------------------------------------
(* The rows of Continuations, by the code that runs next.                  *)

LEMMA Rows ==
    ASSUME NEW n, NEW f, NEW r, <<n, f, r>> \in Continuations
    PROVE  /\ n \in {0, 1, 2, 3}
           /\ n = 0 => f \in {"create_init", "wake_unlock"}
           /\ f \in {"create_init", "wake_unlock"} => n = 0 /\ r = <<>>
           /\ f \in Entered \ {"nopreempt_off", "wake", "mtx_lock", "mtx_locked", "mtx_unlock"}
                 => n = 1 /\ r = <<>>
           /\ f = "nopreempt_off" =>
                 (n = 1 /\ r \in {<<>>, <<"create_init">>}) \/ (n = 2 /\ r = <<"cond_sleep">>)
           /\ f = "wake" =>
                 \/ n = 1 /\ r = <<>>
                 \/ n = 2 /\ r \in {<<"nopreempt_off">>, <<"cond_broadcast">>}
                 \/ n = 3 /\ r = <<"nopreempt_off", "cond_sleep">>
           /\ f \in {"mtx_lock", "mtx_locked"} => (n = 1 /\ r = <<>>) \/ (n = 2 /\ r = <<"nopreempt_off">>)
           /\ f = "mtx_unlock" => (n = 1 /\ r = <<>>) \/ (n = 2 /\ r = <<"cond_sleep">>)
           /\ f = "yield_lock" => (n = 1 /\ r \in Yielding) \/ (n = 2 /\ r = <<"nopreempt_off">>)
           /\ f = "switch" =>
                 \/ n = 1 /\ r \in Yielding \cup {<<"mtx_locked">>, <<"cond_relock">>}
                 \/ n = 2 /\ r \in {<<"nopreempt_off">>, <<"mtx_locked", "nopreempt_off">>}
<1>1. \/ n = 0 /\ f \in {"create_init", "wake_unlock"} /\ r = <<>>
      \/ n = 1 /\ f \in Entered /\ r = <<>>
      \/ n = 1 /\ f \in {"yield_lock", "switch"} /\ r \in Yielding
      \/ n = 1 /\ f = "switch" /\ r \in {<<"mtx_locked">>, <<"cond_relock">>}
      \/ n = 1 /\ f = "nopreempt_off" /\ r = <<"create_init">>
      \/ n = 2 /\ f \in {"yield_lock", "switch", "wake", "mtx_lock", "mtx_locked"} /\ r = <<"nopreempt_off">>
      \/ n = 2 /\ f \in {"mtx_unlock", "nopreempt_off"} /\ r = <<"cond_sleep">>
      \/ n = 2 /\ f = "wake" /\ r = <<"cond_broadcast">>
      \/ n = 2 /\ f = "switch" /\ r = <<"mtx_locked", "nopreempt_off">>
      \/ n = 3 /\ f = "wake" /\ r = <<"nopreempt_off", "cond_sleep">>
  BY DEF Continuations
<1>2. n \in {0, 1, 2, 3} /\ (n = 0 => f \in {"create_init", "wake_unlock"})
  BY <1>1
<1>3. f \in {"create_init", "wake_unlock"} => n = 0 /\ r = <<>>
  BY <1>1 DEF Entered
<1>4. f \in Entered \ {"nopreempt_off", "wake", "mtx_lock", "mtx_locked", "mtx_unlock"}
         => n = 1 /\ r = <<>>
  BY <1>1 DEF Entered
<1>5. f = "nopreempt_off" =>
         (n = 1 /\ r \in {<<>>, <<"create_init">>}) \/ (n = 2 /\ r = <<"cond_sleep">>)
  BY <1>1
<1>6. f = "wake" =>
         \/ n = 1 /\ r = <<>>
         \/ n = 2 /\ r \in {<<"nopreempt_off">>, <<"cond_broadcast">>}
         \/ n = 3 /\ r = <<"nopreempt_off", "cond_sleep">>
  BY <1>1
<1>7. f \in {"mtx_lock", "mtx_locked"} => (n = 1 /\ r = <<>>) \/ (n = 2 /\ r = <<"nopreempt_off">>)
  BY <1>1
<1>8. f = "mtx_unlock" => (n = 1 /\ r = <<>>) \/ (n = 2 /\ r = <<"cond_sleep">>)
  BY <1>1
<1>9. /\ f = "yield_lock" => (n = 1 /\ r \in Yielding) \/ (n = 2 /\ r = <<"nopreempt_off">>)
      /\ f = "switch" =>
            \/ n = 1 /\ r \in Yielding \cup {<<"mtx_locked">>, <<"cond_relock">>}
            \/ n = 2 /\ r \in {<<"nopreempt_off">>, <<"mtx_locked", "nopreempt_off">>}
  BY <1>1 DEF Entered
<1> QED BY <1>2, <1>3, <1>4, <1>5, <1>6, <1>7, <1>8, <1>9

LEMMA RowIntro ==
    ASSUME NEW n, NEW f, NEW r,
           \/ n = 0 /\ f \in {"create_init", "wake_unlock"} /\ r = <<>>
           \/ n = 1 /\ f \in Entered /\ r = <<>>
           \/ n = 1 /\ f \in {"yield_lock", "switch"} /\ r \in Yielding
           \/ n = 1 /\ f = "switch" /\ r \in {<<"mtx_locked">>, <<"cond_relock">>}
           \/ n = 1 /\ f = "nopreempt_off" /\ r = <<"create_init">>
           \/ n = 2 /\ f \in {"yield_lock", "switch", "wake", "mtx_lock", "mtx_locked"} /\ r = <<"nopreempt_off">>
           \/ n = 2 /\ f \in {"mtx_unlock", "nopreempt_off"} /\ r = <<"cond_sleep">>
           \/ n = 2 /\ f = "wake" /\ r = <<"cond_broadcast">>
           \/ n = 2 /\ f = "switch" /\ r = <<"mtx_locked", "nopreempt_off">>
           \/ n = 3 /\ f = "wake" /\ r = <<"nopreempt_off", "cond_sleep">>
    PROVE  <<n, f, r>> \in Continuations
  BY DEF Continuations

-----------------------------------------------------------------------------
(* A step of one thread.                                                   *)

\* What the code of thread t keeps to itself is not touched.
Untouched(t) ==
    /\ stack'[t] = stack[t] /\ ut_no_preempt_count'[t] = ut_no_preempt_count[t]
    /\ wakee'[t] = wakee[t] /\ sparg'[t] = sparg[t] /\ newthr'[t] = newthr[t]
    /\ marg'[t] = marg[t] /\ carg'[t] = carg[t]

\* A pinned thread stays where it is.
Keeps(t) == OnHolder(t) => OnHolder(t)'

LEMMA ThreadStep ==
    ASSUME TypeInv, NEW t \in Threads,
           \A u \in Threads \ {t} : Untouched(u) /\ (Pinned(u) => Keeps(u)),
           SyncTypeOK', ContinuationOf(t)', Pinned(t)' => OnHolder(t)', ArgumentsOf(t)', ThreadsExist'
    PROVE  TypeInv'
<1>1. ASSUME NEW u \in Threads \ {t}
      PROVE  ContinuationOf(u)' /\ ArgumentsOf(u)' /\ (Pinned(u)' => OnHolder(u)')
  <2>1. ContinuationOf(u)'
    BY <1>1 DEF TypeInv, ContinuationOK, ContinuationOf, Untouched
  <2>2. ArgumentsOf(u)'
    BY <1>1 DEF TypeInv, ArgumentsOK, ArgumentsOf, NeedsNewthr, NeedsMutex, NeedsCond, Pending, Untouched
  <2>3. Pinned(u)' => OnHolder(u)'
    BY <1>1 DEF TypeInv, PinnedToHolder, Pinned, Untouched, Keeps
  <2> QED BY <2>1, <2>2, <2>3
<1> QED BY <1>1 DEF TypeInv, ContinuationOK, ArgumentsOK, PinnedToHolder

\* The row that thread t is in.
LEMMA RowOf ==
    ASSUME TypeInv, NEW t \in Threads, stack[t] # <<>>
    PROVE  /\ <<ut_no_preempt_count[t], Head(stack[t]), Tail(stack[t])>> \in Continuations
           /\ stack[t] \in Seq(AllLabels) /\ Tail(stack[t]) \in Seq(AllLabels)
           /\ ut_no_preempt_count[t] \in Nat
<1>1. stack[t] \in Seq(AllLabels) /\ ut_no_preempt_count[t] \in Nat
  BY DEF TypeInv, SyncTypeOK, SchedTypes, AllLabels
<1>2. Tail(stack[t]) \in Seq(AllLabels)
  BY <1>1, PopProperties
<1> QED BY <1>1, <1>2 DEF TypeInv, ContinuationOK, ContinuationOf

LEMMA ReleasedType ==
    ASSUME NEW S, "signalled" \in S, NEW rq, NEW lw \in [LWPs -> S], NEW lw2 \in Released(rq, lw)
    PROVE  lw2 \in [LWPs -> S]
  BY DEF Released, LwpRelease

\* What a scan of the run queues does, whatever it finds.
LEMMA DispatchType ==
    ASSUME NEW l \in LWPs, NEW rq \in [Prios -> Seq(Threads)], NEW sz \in [Prios -> Int],
           NEW st \in [Threads -> UtStates],
           NEW lw \in [LWPs -> {"unborn", "running", "parked", "signalled"}],
           TypeInv, Dispatch(l, rq, sz, st, lw)
    PROVE  /\ runq' \in [Prios -> Seq(Threads)] /\ tq_size' \in [Prios -> Int]
           /\ ut_state' \in [Threads -> UtStates]
           /\ lwp' \in [LWPs -> {"unborn", "running", "parked", "signalled"}]
           /\ curthr' \in [LWPs -> Threads \cup {NoThread}]
           /\ halted' \in {"none", "exit", "EDEADLK", "EPERM", "lwp_park", "utqueue_empty", "PANIC", "assert"}
           /\ \A k \in LWPs \ {l} : curthr'[k] = curthr[k]
           /\ curthr'[l] \in Threads => ut_state'[curthr'[l]] = "UT_ON_CPU"
           /\ \A t \in Threads : ut_state'[t] \in {st[t], "UT_ON_CPU"}
<1> USE SchedAssumption
<1>1. /\ curthr \in [LWPs -> Threads \cup {NoThread}]
      /\ halted \in {"none", "exit", "EDEADLK", "EPERM", "lwp_park", "utqueue_empty", "PANIC", "assert"}
  BY DEF TypeInv, SyncTypeOK, SchedTypes
<1>2. CASE PickThread(l, rq, sz, st, lw)
  <2>1. PICK p \in Prios :
          /\ sz[p] # 0 /\ rq[p] # <<>>
          /\ curthr' = [curthr EXCEPT ![l] = Head(rq[p])]
          /\ lwp' = [lw EXCEPT ![l] = "running"]
          /\ runq' = [rq EXCEPT ![p] = Tail(@)]
          /\ tq_size' = [sz EXCEPT ![p] = @ - 1]
          /\ ut_state' = [st EXCEPT ![Head(rq[p])] = "UT_ON_CPU"]
          /\ UNCHANGED halted
    BY <1>2 DEF PickThread
  <2>2. Head(rq[p]) \in Threads /\ Tail(rq[p]) \in Seq(Threads)
    BY <2>1
  <2> QED BY <1>1, <2>1, <2>2 DEF UtStates
<1>3. CASE Park(l, rq, sz, st, lw)
  BY <1>1, <1>3 DEF Park
<1>4. CASE BadQueue(l, rq, sz, st, lw)
  BY <1>1, <1>4 DEF BadQueue
<1> QED BY <1>2, <1>3, <1>4 DEF Dispatch

-----------------------------------------------------------------------------
(* One lemma per action of the scheduler.                                  *)

\* While runq_mtx is free no thread is pinned.
LEMMA FreeRunq ==
    ASSUME TypeInv, runq_mtx = NoLwp, NEW t \in Threads
    PROVE  ~Pinned(t)
  BY SchedAssumption DEF TypeInv, PinnedToHolder, OnHolder

\* An LWP that only scans leaves the code of every thread alone.
LEMMA ScanStep ==
    ASSUME TypeInv, NEW l \in LWPs, runq_mtx = NoLwp,
           Dispatch(l, runq, tq_size, ut_state, lwp),
           UNCHANGED <<ut_prio, ut_no_preempt_count, runq_mtx, waitVars, stack, argVars, mtxVars>>
    PROVE  TypeInv'
<1>0. SyncTypeOK
  BY DEF TypeInv
<1>1. SyncTypeOK'
  BY <1>0, DispatchType DEF SyncTypeOK, SchedTypes, argVars, waitVars, mtxVars
<1>2. ContinuationOK' /\ ArgumentsOK'
  BY DEF TypeInv, ContinuationOK, ContinuationOf, ArgumentsOK, ArgumentsOf, NeedsNewthr, NeedsMutex, NeedsCond, Pending, argVars, mtxVars
<1>3. PinnedToHolder'
  BY FreeRunq DEF Pinned, PinnedToHolder
<1>4. ThreadsExist'
  <2>0. /\ \A k \in LWPs \ {l} : curthr'[k] = curthr[k]
        /\ curthr'[l] \in Threads => ut_state'[curthr'[l]] = "UT_ON_CPU"
        /\ \A t \in Threads : ut_state'[t] \in {ut_state[t], "UT_ON_CPU"}
    BY <1>0, DispatchType DEF SyncTypeOK, SchedTypes
  <2>1. \A k \in LWPs, t \in Threads : Running(k, t)' => ut_state'[t] # "UT_NO_STATE"
    <3>1. SUFFICES ASSUME NEW k \in LWPs, NEW t \in Threads, curthr'[k] = t
                   PROVE  ut_state'[t] # "UT_NO_STATE"
      BY DEF Running
    <3>2. CASE k = l
      BY <2>0, <3>1, <3>2
    <3>3. CASE k # l
      BY <2>0, <3>1, <3>3 DEF TypeInv, ThreadsExist, Running
    <3> QED BY <3>2, <3>3
  <2>2. \A t \in Threads : newthr'[t] # t /\ ut_state'[t] # "UT_ZOMBIE"
    BY <2>0 DEF TypeInv, ThreadsExist, argVars
  <2> QED BY <2>1, <2>2 DEF ThreadsExist
<1> QED BY <1>1, <1>2, <1>3, <1>4 DEF TypeInv

LEMMA LwpLemma ==
    ASSUME TypeInv, NEW l \in LWPs, LwpStep(l), UNCHANGED mtxVars
    PROVE  TypeInv'
<1>1. CASE LwpStart(l)
  BY <1>1, ScanStep DEF LwpStart
<1>2. CASE Unpark(l) /\ ~RunqEmpty(runq)
  BY <1>2, ScanStep DEF Unpark
<1>3. CASE SpuriousWakeup(l) \/ (Unpark(l) /\ RunqEmpty(runq))
  <2>1. /\ lwp' \in [LWPs -> {"unborn", "running", "parked", "signalled"}]
        /\ UNCHANGED <<curthr, thrVars, runqVars, waitVars, stack, argVars, halted, mtxVars>>
    BY <1>3 DEF SpuriousWakeup, Unpark, TypeInv, SyncTypeOK, SchedTypes, thrVars, runqVars
  <2>2. SyncTypeOK'
    BY <2>1 DEF TypeInv, SyncTypeOK, SchedTypes, thrVars, runqVars, waitVars, argVars, mtxVars
  <2>3. ContinuationOK' /\ ArgumentsOK' /\ PinnedToHolder' /\ ThreadsExist'
    BY <2>1 DEF TypeInv, ContinuationOK, ContinuationOf, ArgumentsOK, ArgumentsOf, NeedsNewthr, NeedsMutex, NeedsCond, Pending, PinnedToHolder,
                Pinned, OnHolder, Running, ThreadsExist, thrVars, runqVars, argVars, mtxVars
  <2> QED BY <2>2, <2>3 DEF TypeInv
<1> QED BY <1>1, <1>2, <1>3 DEF LwpStep

\* The stack of a thread that has replaced its frame.
LEMMA AfterContinue ==
    ASSUME TypeInv, NEW t \in Threads, stack[t] # <<>>
    PROVE  /\ Continue(t, <<>>) =>
                 /\ stack' \in [Threads -> Seq(AllLabels)] /\ stack'[t] = Tail(stack[t])
                 /\ \A u \in Threads \ {t} : stack'[u] = stack[u]
           /\ \A f \in AllLabels : Continue(t, <<f>>) =>
                 /\ stack' \in [Threads -> Seq(AllLabels)] /\ stack'[t] # <<>>
                 /\ Head(stack'[t]) = f /\ Tail(stack'[t]) = Tail(stack[t])
                 /\ \A u \in Threads \ {t} : stack'[u] = stack[u]
           /\ \A f, g \in AllLabels : Continue(t, <<f, g>>) =>
                 /\ stack' \in [Threads -> Seq(AllLabels)] /\ stack'[t] # <<>>
                 /\ Head(stack'[t]) = f /\ Tail(stack'[t]) = <<g>> \o Tail(stack[t])
                 /\ \A u \in Threads \ {t} : stack'[u] = stack[u]
<1>1. stack \in [Threads -> Seq(AllLabels)]
  BY DEF TypeInv, SyncTypeOK, SchedTypes, AllLabels
<1>2. Tail(stack[t]) \in Seq(AllLabels) /\ <<>> \o Tail(stack[t]) = Tail(stack[t])
  BY <1>1, PopProperties
<1>3. ASSUME NEW fs, Continue(t, fs), fs \o Tail(stack[t]) \in Seq(AllLabels)
      PROVE  /\ stack' \in [Threads -> Seq(AllLabels)] /\ stack'[t] = fs \o Tail(stack[t])
             /\ \A u \in Threads \ {t} : stack'[u] = stack[u]
  BY <1>1, <1>3 DEF Continue
<1>4. ASSUME NEW f \in AllLabels
      PROVE  /\ <<f>> \o Tail(stack[t]) \in Seq(AllLabels) /\ <<f>> \o Tail(stack[t]) # <<>>
             /\ Head(<<f>> \o Tail(stack[t])) = f /\ Tail(<<f>> \o Tail(stack[t])) = Tail(stack[t])
  BY <1>2, ConsProperties
<1>5. ASSUME NEW f \in AllLabels, NEW g \in AllLabels
      PROVE  /\ <<f, g>> \o Tail(stack[t]) \in Seq(AllLabels) /\ <<f, g>> \o Tail(stack[t]) # <<>>
             /\ Head(<<f, g>> \o Tail(stack[t])) = f
             /\ Tail(<<f, g>> \o Tail(stack[t])) = <<g>> \o Tail(stack[t])
  BY <1>2, ConsTwoProperties
<1>6. Continue(t, <<>>) => /\ stack' \in [Threads -> Seq(AllLabels)] /\ stack'[t] = Tail(stack[t])
                           /\ \A u \in Threads \ {t} : stack'[u] = stack[u]
  BY <1>2, <1>3
<1>7. ASSUME NEW f \in AllLabels, Continue(t, <<f>>)
      PROVE  /\ stack' \in [Threads -> Seq(AllLabels)] /\ stack'[t] # <<>>
             /\ Head(stack'[t]) = f /\ Tail(stack'[t]) = Tail(stack[t])
             /\ \A u \in Threads \ {t} : stack'[u] = stack[u]
  <2> DEFINE fs == <<f>>
  <2>1. /\ Continue(t, fs) /\ fs \o Tail(stack[t]) \in Seq(AllLabels) /\ fs \o Tail(stack[t]) # <<>>
        /\ Head(fs \o Tail(stack[t])) = f /\ Tail(fs \o Tail(stack[t])) = Tail(stack[t])
    BY <1>4, <1>7
  <2> HIDE DEF fs
  <2>2. /\ stack' \in [Threads -> Seq(AllLabels)] /\ stack'[t] = fs \o Tail(stack[t])
        /\ \A u \in Threads \ {t} : stack'[u] = stack[u]
    BY <1>3, <2>1
  <2> QED BY <2>1, <2>2
<1>8. ASSUME NEW f \in AllLabels, NEW g \in AllLabels, Continue(t, <<f, g>>)
      PROVE  /\ stack' \in [Threads -> Seq(AllLabels)] /\ stack'[t] # <<>>
             /\ Head(stack'[t]) = f /\ Tail(stack'[t]) = <<g>> \o Tail(stack[t])
             /\ \A u \in Threads \ {t} : stack'[u] = stack[u]
  <2> DEFINE fs == <<f, g>>
  <2>1. /\ Continue(t, fs) /\ fs \o Tail(stack[t]) \in Seq(AllLabels) /\ fs \o Tail(stack[t]) # <<>>
        /\ Head(fs \o Tail(stack[t])) = f /\ Tail(fs \o Tail(stack[t])) = <<g>> \o Tail(stack[t])
    BY <1>5, <1>8
  <2> HIDE DEF fs
  <2>2. /\ stack' \in [Threads -> Seq(AllLabels)] /\ stack'[t] = fs \o Tail(stack[t])
        /\ \A u \in Threads \ {t} : stack'[u] = stack[u]
    BY <1>3, <2>1
  <2> QED BY <2>1, <2>2
<1> QED BY <1>6, <1>7, <1>8

\* The stack of a thread on which frames have been pushed.
LEMMA AfterPush ==
    ASSUME TypeInv, NEW t \in Threads
    PROVE  /\ \A f \in AllLabels : Push(t, <<f>>) =>
                 /\ stack' \in [Threads -> Seq(AllLabels)] /\ stack'[t] # <<>>
                 /\ Head(stack'[t]) = f /\ Tail(stack'[t]) = stack[t]
                 /\ \A u \in Threads \ {t} : stack'[u] = stack[u]
           /\ \A f, g \in AllLabels : Push(t, <<f, g>>) =>
                 /\ stack' \in [Threads -> Seq(AllLabels)] /\ stack'[t] # <<>>
                 /\ Head(stack'[t]) = f /\ Tail(stack'[t]) = <<g>> \o stack[t]
                 /\ \A u \in Threads \ {t} : stack'[u] = stack[u]
<1>1. stack \in [Threads -> Seq(AllLabels)]
  BY DEF TypeInv, SyncTypeOK, SchedTypes, AllLabels
<1>2. ASSUME NEW fs, Push(t, fs), fs \o stack[t] \in Seq(AllLabels)
      PROVE  /\ stack' \in [Threads -> Seq(AllLabels)] /\ stack'[t] = fs \o stack[t]
             /\ \A u \in Threads \ {t} : stack'[u] = stack[u]
  BY <1>1, <1>2 DEF Push
<1>3. ASSUME NEW f \in AllLabels
      PROVE  /\ <<f>> \o stack[t] \in Seq(AllLabels) /\ <<f>> \o stack[t] # <<>>
             /\ Head(<<f>> \o stack[t]) = f /\ Tail(<<f>> \o stack[t]) = stack[t]
  BY <1>1, ConsProperties
<1>4. ASSUME NEW f \in AllLabels, NEW g \in AllLabels
      PROVE  /\ <<f, g>> \o stack[t] \in Seq(AllLabels) /\ <<f, g>> \o stack[t] # <<>>
             /\ Head(<<f, g>> \o stack[t]) = f
             /\ Tail(<<f, g>> \o stack[t]) = <<g>> \o stack[t]
  BY <1>1, ConsTwoProperties
<1>5. ASSUME NEW f \in AllLabels, Push(t, <<f>>)
      PROVE  /\ stack' \in [Threads -> Seq(AllLabels)] /\ stack'[t] # <<>>
             /\ Head(stack'[t]) = f /\ Tail(stack'[t]) = stack[t]
             /\ \A u \in Threads \ {t} : stack'[u] = stack[u]
  BY <1>2, <1>3, <1>5
<1>6. ASSUME NEW f \in AllLabels, NEW g \in AllLabels, Push(t, <<f, g>>)
      PROVE  /\ stack' \in [Threads -> Seq(AllLabels)] /\ stack'[t] # <<>>
             /\ Head(stack'[t]) = f /\ Tail(stack'[t]) = <<g>> \o stack[t]
             /\ \A u \in Threads \ {t} : stack'[u] = stack[u]
  BY <1>2, <1>4, <1>6
<1> QED BY <1>5, <1>6

\* The labels by name.
LEMMA LabelNames ==
    {"yield_lock", "switch", "nopreempt_off", "wake", "wake_unlock", "setprio_write",
     "setprio_lock", "alloc_claim", "create_init", "startonrunq", "mtx_lock", "mtx_locked",
     "mtx_locked_zombie", "mtx_trylock", "mtx_unlock", "cond_wait", "cond_sleep",
     "cond_relock", "cond_signal", "cond_broadcast"} \subseteq AllLabels
  BY DEF AllLabels, Labels, SyncLabels

\* A list and a counter that grow.
LEMMA EnqueuedType ==
    ASSUME NEW rq \in [Prios -> Seq(Threads)], NEW sz \in [Prios -> Int], NEW p, NEW u \in Threads
    PROVE  Enqueued(rq, p, u) \in [Prios -> Seq(Threads)] /\ SizeUp(sz, p) \in [Prios -> Int]
<1>1. CASE p \in Prios
  BY <1>1 DEF Enqueued, SizeUp
<1>2. CASE p \notin Prios
  BY <1>2 DEF Enqueued, SizeUp
<1> QED BY <1>1, <1>2

LEMMA SwitchLemma ==
    ASSUME TypeInv, NEW l \in LWPs, NEW t \in Threads, Switch(l, t), UNCHANGED mtxVars
    PROVE  TypeInv'
<1> DEFINE n == ut_no_preempt_count[t]
           r == Tail(stack[t])
           a == swarg[t]
           save == a.saveonrq /\ a.queue = NoObj
           rq == IF save THEN Enqueued(runq, ut_prio[t], t) ELSE runq
           sz == IF save THEN SizeUp(tq_size, ut_prio[t]) ELSE tq_size
           st == IF save THEN [ut_state EXCEPT ![t] = "UT_RUNNABLE"] ELSE ut_state
<1>1. SyncTypeOK
  BY DEF TypeInv
<1>2. stack[t] # <<>> /\ Head(stack[t]) = "switch" /\ curthr[l] = t /\ runq_mtx = NoLwp
  BY DEF Switch, At, Running
<1>3. \/ n = 1 /\ r \in {<<"nopreempt_off">>, <<"nopreempt_off", "create_init">>, <<"mtx_locked">>, <<"cond_relock">>}
      \/ n = 2 /\ r = <<"mtx_locked", "nopreempt_off">>
  <2>1. <<n, "switch", r>> \in Continuations
    BY <1>2, RowOf
  <2>2. \/ n = 1 /\ r \in Yielding \cup {<<"mtx_locked">>, <<"cond_relock">>}
        \/ n = 2 /\ r \in {<<"nopreempt_off">>, <<"mtx_locked", "nopreempt_off">>}
    BY <2>1, Rows
  <2>3. r # <<"nopreempt_off", "wake_unlock">> /\ ~(n = 2 /\ r = <<"nopreempt_off">>)
    BY <1>2, FreeRunq DEF Pinned
  <2> QED BY <2>2, <2>3 DEF Yielding
<1>4. /\ stack' \in [Threads -> Seq(AllLabels)] /\ stack'[t] = r
      /\ \A u \in Threads \ {t} : stack'[u] = stack[u]
  BY <1>2, AfterContinue DEF Switch
<1>5. rq \in [Prios -> Seq(Threads)] /\ sz \in [Prios -> Int] /\ st \in [Threads -> UtStates]
  BY <1>1, EnqueuedType DEF SyncTypeOK, SchedTypes, UtStates
<1>6. PICK lw \in (IF save THEN Released(runq, lwp) ELSE {lwp}) : Dispatch(l, rq, sz, st, lw)
  BY DEF Switch
<1>7. lw \in [LWPs -> {"unborn", "running", "parked", "signalled"}]
  BY <1>1, <1>6, ReleasedType DEF SyncTypeOK, SchedTypes
<1>8. /\ runq' \in [Prios -> Seq(Threads)] /\ tq_size' \in [Prios -> Int]
      /\ ut_state' \in [Threads -> UtStates]
      /\ lwp' \in [LWPs -> {"unborn", "running", "parked", "signalled"}]
      /\ curthr' \in [LWPs -> Threads \cup {NoThread}]
      /\ halted' \in {"none", "exit", "EDEADLK", "EPERM", "lwp_park", "utqueue_empty", "PANIC", "assert"}
      /\ \A k \in LWPs \ {l} : curthr'[k] = curthr[k]
      /\ curthr'[l] \in Threads => ut_state'[curthr'[l]] = "UT_ON_CPU"
      /\ \A u \in Threads : ut_state'[u] \in {st[u], "UT_ON_CPU"}
  <2> HIDE DEF rq, sz, st
  <2> QED BY <1>5, <1>6, <1>7, DispatchType
<1>9. /\ waitq' = IF a.queue = NoObj THEN waitq ELSE [waitq EXCEPT ![a.queue] = Append(@, t)]
      /\ pmut' = IF a.pmut = NoObj THEN pmut ELSE [pmut EXCEPT ![a.pmut] = NoLwp]
      /\ swarg' = [swarg EXCEPT ![t] = NoSwitch]
      /\ UNCHANGED <<ut_prio, ut_no_preempt_count, runq_mtx, wakee, sparg, newthr, mtxVars>>
  BY DEF Switch
<1>10. SyncTypeOK'
  <2>1. waitq' \in [Objs -> Seq(Threads)] /\ pmut' \in [Objs -> LWPs \cup {NoLwp}]
    BY <1>1, <1>9 DEF SyncTypeOK, SchedTypes
  <2>2. swarg' \in [Threads -> [queue : Objs \cup {NoObj}, saveonrq : BOOLEAN, pmut : Objs \cup {NoObj}]]
    BY <1>1, <1>9 DEF SyncTypeOK, SchedTypes, NoSwitch
  <2>3. stack' \in [Threads -> Seq(Labels \cup SyncLabels)]
    BY <1>4 DEF AllLabels
  <2>4. SchedTypes(Labels \cup SyncLabels)'
    BY <1>1, <1>8, <1>9, <2>1, <2>2, <2>3 DEF SyncTypeOK, SchedTypes
  <2> QED BY <1>1, <1>9, <2>4 DEF SyncTypeOK, mtxVars
<1>11. /\ r # <<>>
       /\ \/ n = 1 /\ Head(r) = "nopreempt_off" /\ Tail(r) \in {<<>>, <<"create_init">>}
          \/ n = 1 /\ Head(r) \in {"mtx_locked", "cond_relock"} /\ Tail(r) = <<>>
          \/ n = 2 /\ Head(r) = "mtx_locked" /\ Tail(r) = <<"nopreempt_off">>
  <2> HIDE DEF n, r
  <2> QED BY <1>3, Literals
<1>12. ContinuationOf(t)'
  <2>1. <<n, Head(r), Tail(r)>> \in Continuations
    BY <1>11 DEF Continuations, Entered
  <2> QED BY <1>4, <1>9, <1>11, <2>1 DEF ContinuationOf
<1>13. ~Pinned(t)'
  <2> HIDE DEF n, r
  <2>1. Head(r) # "wake_unlock" /\ Tail(r) # <<"nopreempt_off", "wake_unlock">>
        /\ Head(r) \notin {"yield_lock", "switch"}
    BY <1>11
  <2> QED BY <1>4, <2>1 DEF Pinned
<1>14. ArgumentsOf(t)'
  <2> HIDE DEF n, r
  <2>1. UNCHANGED <<wakee, sparg, newthr, marg, carg>>
    BY <1>9 DEF mtxVars
  <2>2. ArgumentsOf(t)
    BY DEF TypeInv, ArgumentsOK
  <2>3. \/ r = <<"nopreempt_off">> /\ Head(r) = "nopreempt_off" /\ Tail(r) = <<>>
        \/ r = <<"nopreempt_off", "create_init">> /\ Head(r) = "nopreempt_off" /\ Tail(r) = <<"create_init">>
        \/ r = <<"mtx_locked">> /\ Head(r) = "mtx_locked" /\ Tail(r) = <<>>
        \/ r = <<"cond_relock">> /\ Head(r) = "cond_relock" /\ Tail(r) = <<>>
        \/ r = <<"mtx_locked", "nopreempt_off">> /\ Head(r) = "mtx_locked" /\ Tail(r) = <<"nopreempt_off">>
    BY <1>3, Literals
  <2>4. /\ Pending(t, {"wake"}, {})' => FALSE
        /\ Pending(t, {"setprio_write", "setprio_lock"}, {})' => FALSE
    BY <1>4, <2>3 DEF Pending
  <2>5. NeedsNewthr(t)' => NeedsNewthr(t)
    <3>1. Head(r) \notin {"alloc_claim", "create_init", "startonrunq"}
      BY <2>3
    <3>2. NeedsNewthr(t)' => Tail(r) \in {<<"create_init">>, <<"nopreempt_off", "create_init">>}
      BY <1>4, <1>11, <3>1 DEF Pending, NeedsNewthr
    <3>3. Tail(r) \in {<<"create_init">>, <<"nopreempt_off", "create_init">>} => r = <<"nopreempt_off", "create_init">>
      BY <2>3, Literals
    <3>4. r = <<"nopreempt_off", "create_init">> => NeedsNewthr(t)
      BY <1>2 DEF NeedsNewthr, Pending, r
    <3> QED BY <3>2, <3>3, <3>4
  <2>6. NeedsMutex(t)' => NeedsMutex(t)
    <3>1. Tail(r) \in {<<>>, <<"create_init">>, <<"nopreempt_off">>}
      BY <2>3
    <3>2. Tail(r) \notin {<<"mtx_locked">>, <<"mtx_locked", "nopreempt_off">>, <<"cond_relock">>,
                         <<"cond_sleep">>, <<"nopreempt_off", "cond_sleep">>}
      BY <3>1, Literals
    <3>3. NeedsMutex(t)' => Head(r) \notin {"nopreempt_off"}
      BY <1>4, <1>11, <3>2 DEF Pending, NeedsMutex
    <3>4. Head(r) \notin {"nopreempt_off"} =>
             r \in {<<"mtx_locked">>, <<"mtx_locked", "nopreempt_off">>, <<"cond_relock">>}
      BY <2>3
    <3>5. r \in {<<"mtx_locked">>, <<"mtx_locked", "nopreempt_off">>, <<"cond_relock">>} => NeedsMutex(t)
      BY <1>2 DEF NeedsMutex, Pending, r
    <3> QED BY <3>3, <3>4, <3>5
  <2>7. NeedsCond(t)' => NeedsCond(t)
    <3>1. Tail(r) # <<"cond_broadcast">> /\ Tail(r) # <<"cond_sleep">>
          /\ Tail(r) # <<"nopreempt_off", "cond_sleep">> /\ Tail(r) # <<"cond_relock">>
      BY <2>3, Literals
    <3>2. NeedsCond(t)' => Head(r) = "cond_relock"
      BY <1>4, <1>11, <3>1 DEF Pending, NeedsCond
    <3>3. Head(r) = "cond_relock" => r = <<"cond_relock">>
      BY <2>3
    <3>4. r = <<"cond_relock">> => NeedsCond(t)
      BY <1>2 DEF NeedsCond, Pending, r
    <3> QED BY <3>2, <3>3, <3>4
  <2> QED BY <2>1, <2>2, <2>4, <2>5, <2>6, <2>7 DEF ArgumentsOf
<1>15. ThreadsExist'
  <2>1. SUFFICES ASSUME NEW k \in LWPs, NEW u \in Threads, curthr'[k] = u
                 PROVE  ut_state'[u] # "UT_NO_STATE"
    BY <1>1, <1>8, <1>9 DEF TypeInv, ThreadsExist, Running, SyncTypeOK, SchedTypes
  <2>2. CASE k = l
    BY <1>8, <2>1, <2>2
  <2>3. CASE k # l
    BY <1>1, <1>8, <2>1, <2>3 DEF TypeInv, ThreadsExist, Running, SyncTypeOK, SchedTypes
  <2> QED BY <2>2, <2>3
<1>16. ASSUME NEW u \in Threads \ {t}
       PROVE  Untouched(u) /\ ~Pinned(u)
  BY <1>1, <1>2, <1>4, <1>9, FreeRunq DEF Untouched, mtxVars
<1> QED BY <1>10, <1>12, <1>13, <1>14, <1>15, <1>16, ThreadStep

\* A step of thread t that moves no thread and leaves runq_mtx alone.
LEMMA LocalStep ==
    ASSUME TypeInv, NEW t \in Threads, SyncTypeOK', UNCHANGED <<curthr, runq_mtx, newthr>>,
           \A u \in Threads \ {t} : Untouched(u),
           \A u \in Threads : ut_state'[u] = ut_state[u] \/ ut_state'[u] \notin {"UT_NO_STATE", "UT_ZOMBIE"},
           ContinuationOf(t)', Pinned(t)' => OnHolder(t), ArgumentsOf(t)'
    PROVE  TypeInv'
<1>1. \A u \in Threads : OnHolder(u) <=> OnHolder(u)'
  BY DEF OnHolder, Running
<1>2. ThreadsExist'
  BY DEF TypeInv, ThreadsExist, Running
<1> QED BY <1>1, <1>2, ThreadStep DEF Keeps

LEMMA SwitchAbortsLemma ==
    ASSUME TypeInv, NEW l \in LWPs, NEW t \in Threads, SwitchAborts(l, t), UNCHANGED mtxVars
    PROVE  TypeInv'
<1> USE DEF SwitchAborts, cpuVars, thrVars, runqVars, waitVars, argVars, mtxVars
<1>1. SyncTypeOK'
  BY DEF TypeInv, SyncTypeOK, SchedTypes
<1>2. \A u \in Threads : ContinuationOf(u)' /\ ArgumentsOf(u)' /\ (Pinned(u)' => OnHolder(u)')
  BY DEF TypeInv, ContinuationOK, ContinuationOf, ArgumentsOK, ArgumentsOf, NeedsNewthr, NeedsMutex,
         NeedsCond, Pending, PinnedToHolder, Pinned, OnHolder, Running
<1>3. ThreadsExist'
  BY DEF TypeInv, ThreadsExist, Running
<1> QED BY <1>1, <1>2, <1>3 DEF TypeInv, ContinuationOK, ArgumentsOK, PinnedToHolder

\* The rows in which a frame that ends with nopreempt_off leaves its thread.
LEMMA PopRows ==
    ASSUME NEW m, NEW r,
           \/ r = <<>>
           \/ r # <<>> /\ m = 0 /\ Head(r) = "create_init" /\ Tail(r) = <<>>
           \/ r # <<>> /\ m = 1 /\ Head(r) \in Entered /\ Tail(r) = <<>>
           \/ r # <<>> /\ m = 2 /\ Head(r) = "nopreempt_off" /\ Tail(r) = <<"cond_sleep">>
    PROVE  r = <<>> \/ (r # <<>> /\ <<m, Head(r), Tail(r)>> \in Continuations)
  BY RowIntro

\* What that thread does next.
LEMMA PopStep ==
    ASSUME TypeInv, NEW t \in Threads, stack[t] # <<>>,
           Head(stack[t]) \notin {"yield_lock", "switch", "create_init", "wake_unlock"},
           stack'[t] = Tail(stack[t]), ut_no_preempt_count'[t] = ut_no_preempt_count[t] - 1
    PROVE  /\ ContinuationOf(t)' /\ ~Pinned(t)' /\ ut_no_preempt_count[t] - 1 \in Nat
           /\ ~Pending(t, {"wake"}, {})' /\ ~Pending(t, {"setprio_write", "setprio_lock"}, {})'
           /\ NeedsNewthr(t)' => Tail(stack[t]) = <<"create_init">>
           /\ NeedsMutex(t)' => Tail(stack[t]) \in {<<"cond_sleep">>, <<"nopreempt_off", "cond_sleep">>}
           /\ NeedsCond(t)' => Tail(stack[t]) \in {<<"cond_sleep">>, <<"nopreempt_off", "cond_sleep">>,
                                                   <<"cond_broadcast">>}
<1> DEFINE n == ut_no_preempt_count[t]
           f == Head(stack[t])
           r == Tail(stack[t])
<1>1. <<n, f, r>> \in Continuations
  BY RowOf
<1>2. stack'[t] = r /\ ut_no_preempt_count'[t] = n - 1
  OBVIOUS
<1>3. \/ n = 1 /\ r = <<>>
      \/ n = 1 /\ r = <<"create_init">>
      \/ n = 2 /\ r \in {<<"nopreempt_off">>, <<"cond_sleep">>, <<"cond_broadcast">>}
      \/ n = 3 /\ r = <<"nopreempt_off", "cond_sleep">>
  <2> HIDE DEF n, f, r
  <2> QED BY <1>1 DEF Continuations, f
<1> HIDE DEF n, f, r
<1>4. \/ n = 1 /\ r = <<>>
      \/ n = 1 /\ r = <<"create_init">> /\ r # <<>> /\ Head(r) = "create_init" /\ Tail(r) = <<>>
      \/ n = 2 /\ r = <<"nopreempt_off">> /\ r # <<>> /\ Head(r) = "nopreempt_off" /\ Tail(r) = <<>>
      \/ n = 2 /\ r = <<"cond_sleep">> /\ r # <<>> /\ Head(r) = "cond_sleep" /\ Tail(r) = <<>>
      \/ n = 2 /\ r = <<"cond_broadcast">> /\ r # <<>> /\ Head(r) = "cond_broadcast" /\ Tail(r) = <<>>
      \/ /\ n = 3 /\ r = <<"nopreempt_off", "cond_sleep">> /\ r # <<>>
         /\ Head(r) = "nopreempt_off" /\ Tail(r) = <<"cond_sleep">>
  BY <1>3, Literals
<1>5. ContinuationOf(t)' /\ n - 1 \in Nat
  <2>1. n - 1 \in Nat /\ (n = 1 => n - 1 = 0) /\ (n = 2 => n - 1 = 1) /\ (n = 3 => n - 1 = 2)
    BY <1>4
  <2> DEFINE m == n - 1
  <2> HIDE DEF m
  <2>2. r = <<>> \/ (r # <<>> /\ <<m, Head(r), Tail(r)>> \in Continuations)
    <3>1. \/ r = <<>>
          \/ r # <<>> /\ m = 0 /\ Head(r) = "create_init" /\ Tail(r) = <<>>
          \/ r # <<>> /\ m = 1 /\ Head(r) \in Entered /\ Tail(r) = <<>>
          \/ r # <<>> /\ m = 2 /\ Head(r) = "nopreempt_off" /\ Tail(r) = <<"cond_sleep">>
      BY <1>4, <2>1 DEF Entered, m
    <3> QED BY <3>1, PopRows
  <2>3. m = 0 \/ r # <<>>
    BY <1>4, <2>1 DEF m
  <2> QED BY <1>2, <2>1, <2>2, <2>3 DEF ContinuationOf, m
<1>6. ~Pinned(t)'
  BY <1>2, <1>4, Literals DEF Pinned
<1>7. ~Pending(t, {"wake"}, {})' /\ ~Pending(t, {"setprio_write", "setprio_lock"}, {})'
  BY <1>2, <1>4 DEF Pending
<1>8. NeedsNewthr(t)' => r = <<"create_init">>
  BY <1>2, <1>4, Literals DEF Pending, NeedsNewthr
<1>9. NeedsMutex(t)' => r \in {<<"cond_sleep">>, <<"nopreempt_off", "cond_sleep">>}
  BY <1>2, <1>4, Literals DEF Pending, NeedsMutex
<1>10. NeedsCond(t)' => r \in {<<"cond_sleep">>, <<"nopreempt_off", "cond_sleep">>, <<"cond_broadcast">>}
  BY <1>2, <1>4, Literals DEF Pending, NeedsCond
<1> QED BY <1>5, <1>6, <1>7, <1>8, <1>9, <1>10 DEF n, r

\* It finds the arguments of what lies below.
LEMMA PopKeepsArguments ==
    ASSUME TypeInv, NEW t \in Threads, stack[t] # <<>>,
           Head(stack[t]) \notin {"yield_lock", "switch", "create_init", "wake_unlock"},
           stack'[t] = Tail(stack[t]), ut_no_preempt_count'[t] = ut_no_preempt_count[t] - 1,
           Tail(stack[t]) = <<"create_init">> => newthr'[t] = newthr[t],
           Tail(stack[t]) \in {<<"cond_sleep">>, <<"nopreempt_off", "cond_sleep">>} => marg'[t] = marg[t],
           Tail(stack[t]) \in {<<"cond_sleep">>, <<"nopreempt_off", "cond_sleep">>,
                               <<"cond_broadcast">>} => carg'[t] = carg[t]
    PROVE  ArgumentsOf(t)'
<1>1. Tail(stack[t]) = <<"create_init">> => NeedsNewthr(t)
  BY DEF NeedsNewthr, Pending
<1>2. Tail(stack[t]) \in {<<"cond_sleep">>, <<"nopreempt_off", "cond_sleep">>} => NeedsMutex(t)
  BY DEF NeedsMutex, Pending
<1>3. Tail(stack[t]) \in {<<"cond_sleep">>, <<"nopreempt_off", "cond_sleep">>, <<"cond_broadcast">>} => NeedsCond(t)
  BY DEF NeedsCond, Pending
<1>4. ArgumentsOf(t)
  BY DEF TypeInv, ArgumentsOK
<1> QED BY <1>1, <1>2, <1>3, <1>4, PopStep DEF ArgumentsOf

LEMMA ReturnLemma ==
    ASSUME TypeInv, NEW l \in LWPs, NEW t \in Threads, Return(l, t), UNCHANGED mtxVars
    PROVE  TypeInv'
<1>1. SyncTypeOK
  BY DEF TypeInv
<1>2. stack[t] # <<>> /\ Head(stack[t]) = "nopreempt_off"
  BY DEF Return, At
<1>3. /\ stack' \in [Threads -> Seq(AllLabels)] /\ stack'[t] = Tail(stack[t])
      /\ \A u \in Threads \ {t} : stack'[u] = stack[u]
  BY <1>2, AfterContinue DEF Return
<1>4. /\ ut_no_preempt_count' = [ut_no_preempt_count EXCEPT ![t] = @ - 1]
      /\ UNCHANGED <<curthr, lwp, ut_state, ut_prio, runq, tq_size, runq_mtx, waitq, pmut, swarg,
                     wakee, sparg, newthr, halted, m_owner, marg, carg, crit>>
  BY DEF Return, NopreemptOff, cpuVars, runqVars, waitVars, argVars, mtxVars
<1>5. ut_no_preempt_count'[t] = ut_no_preempt_count[t] - 1
  BY <1>1, <1>4 DEF SyncTypeOK, SchedTypes
<1>6. /\ ContinuationOf(t)' /\ ~Pinned(t)' /\ ut_no_preempt_count[t] - 1 \in Nat
      /\ ArgumentsOf(t)'
  BY <1>2, <1>3, <1>4, <1>5, PopStep, PopKeepsArguments
<1>7. SyncTypeOK'
  BY <1>1, <1>3, <1>4, <1>6 DEF SyncTypeOK, SchedTypes, AllLabels
<1> QED BY <1>1, <1>3, <1>4, <1>6, <1>7, LocalStep DEF Untouched, SyncTypeOK, SchedTypes

\* Client code that enters the library.
LEMMA EntryStep ==
    ASSUME TypeInv, NEW t \in Threads, stack[t] = <<>>, NEW f \in Entered, stack'[t] # <<>>,
           Head(stack'[t]) = f, Tail(stack'[t]) = <<>>,
           ut_no_preempt_count'[t] = ut_no_preempt_count[t] + 1
    PROVE  /\ ContinuationOf(t)' /\ ~Pinned(t)'
           /\ NeedsNewthr(t)' => f \in {"alloc_claim", "startonrunq"}
           /\ NeedsMutex(t)' => f \in {"mtx_lock", "mtx_locked", "mtx_trylock", "mtx_unlock",
                                       "cond_wait", "cond_sleep", "cond_relock"}
           /\ NeedsCond(t)' => f \in {"cond_wait", "cond_sleep", "cond_relock", "cond_signal", "cond_broadcast"}
<1>1. ut_no_preempt_count'[t] = 1
  <2>1. ut_no_preempt_count[t] = 0
    BY DEF TypeInv, ContinuationOK, ContinuationOf
  <2> QED BY <2>1
<1>2. ContinuationOf(t)'
  <2>1. <<1, f, <<>> >> \in Continuations
    BY RowIntro
  <2> QED BY <1>1, <2>1 DEF ContinuationOf
<1>3. ~Pinned(t)'
  BY <1>1, Literals DEF Pinned, Entered
<1>4. /\ NeedsNewthr(t)' => f \in {"alloc_claim", "startonrunq"}
      /\ NeedsMutex(t)' => f \in {"mtx_lock", "mtx_locked", "mtx_trylock", "mtx_unlock",
                                  "cond_wait", "cond_sleep", "cond_relock"}
      /\ NeedsCond(t)' => f \in {"cond_wait", "cond_sleep", "cond_relock", "cond_signal", "cond_broadcast"}
  BY Literals DEF NeedsNewthr, NeedsMutex, NeedsCond, Pending, Entered
<1> QED BY <1>2, <1>3, <1>4

LEMMA ClientWakeLemma ==
    ASSUME TypeInv, NEW l \in LWPs, NEW t \in Threads, NEW u \in Threads, UthreadWake(l, t, u),
           UNCHANGED mtxVars
    PROVE  TypeInv'
<1>1. SyncTypeOK
  BY DEF TypeInv
<1>2. stack[t] = <<>> /\ "wake" \in Entered /\ "wake" \in AllLabels
  BY LabelNames DEF UthreadWake, InClient, Entered
<1>3. /\ stack' \in [Threads -> Seq(AllLabels)] /\ stack'[t] # <<>>
      /\ Head(stack'[t]) = "wake" /\ Tail(stack'[t]) = <<>>
      /\ \A v \in Threads \ {t} : stack'[v] = stack[v]
  BY <1>2, AfterPush DEF UthreadWake
<1>4. /\ ut_no_preempt_count' = [ut_no_preempt_count EXCEPT ![t] = @ + 1]
      /\ wakee' = [wakee EXCEPT ![t] = u]
      /\ UNCHANGED <<curthr, lwp, ut_state, ut_prio, runq, tq_size, runq_mtx, waitq, pmut, swarg,
                     sparg, newthr, halted, m_owner, marg, carg, crit>>
  BY DEF UthreadWake, NopreemptOn, cpuVars, runqVars, waitVars, mtxVars
<1>5. SyncTypeOK'
  BY <1>1, <1>3, <1>4 DEF SyncTypeOK, SchedTypes, AllLabels
<1>6. ContinuationOf(t)' /\ ~Pinned(t)' /\ ~NeedsNewthr(t)' /\ ~NeedsMutex(t)' /\ ~NeedsCond(t)'
  BY <1>1, <1>2, <1>3, <1>4, EntryStep DEF SyncTypeOK, SchedTypes
<1>7. ArgumentsOf(t)'
  BY <1>1, <1>3, <1>4, <1>6, SchedAssumption DEF ArgumentsOf, Pending, SyncTypeOK, SchedTypes
<1> QED BY <1>1, <1>3, <1>4, <1>5, <1>6, <1>7, LocalStep DEF Untouched, SyncTypeOK, SchedTypes

LEMMA SetprioReadLemma ==
    ASSUME TypeInv, NEW l \in LWPs, NEW t \in Threads, NEW u \in Threads, NEW prio \in Prios,
           SetprioRead(l, t, u, prio), UNCHANGED mtxVars
    PROVE  TypeInv'
<1>1. SyncTypeOK
  BY DEF TypeInv
<1>2. stack[t] = <<>> /\ "setprio_write" \in Entered /\ "setprio_write" \in AllLabels
  BY LabelNames DEF SetprioRead, InClient, Entered
<1>3. /\ stack' \in [Threads -> Seq(AllLabels)] /\ stack'[t] # <<>>
      /\ Head(stack'[t]) = "setprio_write" /\ Tail(stack'[t]) = <<>>
      /\ \A v \in Threads \ {t} : stack'[v] = stack[v]
  BY <1>2, AfterPush DEF SetprioRead
<1>4. /\ ut_no_preempt_count' = [ut_no_preempt_count EXCEPT ![t] = @ + 1]
      /\ sparg' = [sparg EXCEPT ![t] = [thr |-> u, prio |-> prio, old |-> ut_prio[u]]]
      /\ UNCHANGED <<curthr, lwp, ut_state, ut_prio, runq, tq_size, runq_mtx, waitq, pmut, swarg,
                     wakee, newthr, halted, m_owner, marg, carg, crit>>
  BY DEF SetprioRead, NopreemptOn, cpuVars, runqVars, waitVars, mtxVars
<1>5. SyncTypeOK'
  <2>1. ut_no_preempt_count' \in [Threads -> Nat]
    BY <1>1, <1>4 DEF SyncTypeOK, SchedTypes
  <2>2. sparg' \in [Threads -> [thr : Threads \cup {NoThread}, prio : Prios, old : Prios \cup {-1}]]
    <3>1. ut_prio[u] \in Prios \cup {-1}
      BY <1>1 DEF SyncTypeOK, SchedTypes
    <3> QED BY <1>1, <1>4, <3>1 DEF SyncTypeOK, SchedTypes
  <2>3. stack' \in [Threads -> Seq(Labels \cup SyncLabels)]
    BY <1>3 DEF AllLabels
  <2>4. SchedTypes(Labels \cup SyncLabels)'
    BY <1>1, <1>4, <2>1, <2>2, <2>3 DEF SyncTypeOK, SchedTypes
  <2> QED BY <1>1, <1>4, <2>4 DEF SyncTypeOK
<1>6. ContinuationOf(t)' /\ ~Pinned(t)' /\ ~NeedsNewthr(t)' /\ ~NeedsMutex(t)' /\ ~NeedsCond(t)'
  BY <1>1, <1>2, <1>3, <1>4, EntryStep DEF SyncTypeOK, SchedTypes
<1>7. ArgumentsOf(t)'
  BY <1>1, <1>3, <1>4, <1>6, SchedAssumption DEF ArgumentsOf, Pending, SyncTypeOK, SchedTypes
<1> QED BY <1>1, <1>3, <1>4, <1>5, <1>6, <1>7, LocalStep DEF Untouched, SyncTypeOK, SchedTypes

LEMMA AllocScanLemma ==
    ASSUME TypeInv, NEW l \in LWPs, NEW t \in Threads, NEW u \in Threads, AllocScan(l, t, u),
           UNCHANGED mtxVars
    PROVE  TypeInv'
<1>1. SyncTypeOK
  BY DEF TypeInv
<1>2. stack[t] = <<>> /\ "alloc_claim" \in Entered /\ "alloc_claim" \in AllLabels
  BY LabelNames DEF AllocScan, AllocFound, InClient, Entered
<1>3. /\ stack' \in [Threads -> Seq(AllLabels)] /\ stack'[t] # <<>>
      /\ Head(stack'[t]) = "alloc_claim" /\ Tail(stack'[t]) = <<>>
      /\ \A v \in Threads \ {t} : stack'[v] = stack[v]
  BY <1>2, AfterPush DEF AllocScan, AllocFound
<1>4. /\ ut_no_preempt_count' = [ut_no_preempt_count EXCEPT ![t] = @ + 1]
      /\ newthr' = [newthr EXCEPT ![t] = u] /\ u # t
      /\ UNCHANGED <<curthr, lwp, ut_state, ut_prio, runq, tq_size, runq_mtx, waitq, pmut, swarg,
                     wakee, sparg, halted, m_owner, marg, carg, crit>>
  BY DEF AllocScan, AllocFound, InClient, Running, TypeInv, ThreadsExist, NopreemptOn, cpuVars,
         runqVars, waitVars, mtxVars
<1>5. SyncTypeOK'
  BY <1>1, <1>3, <1>4 DEF SyncTypeOK, SchedTypes, AllLabels
<1>6. ContinuationOf(t)' /\ ~Pinned(t)' /\ ~NeedsMutex(t)' /\ ~NeedsCond(t)'
  BY <1>1, <1>2, <1>3, <1>4, EntryStep DEF SyncTypeOK, SchedTypes
<1>7. ArgumentsOf(t)'
  BY <1>1, <1>3, <1>4, <1>6, SchedAssumption DEF ArgumentsOf, Pending, SyncTypeOK, SchedTypes
<1>8. ThreadsExist'
  BY <1>1, <1>4 DEF TypeInv, ThreadsExist, Running, SyncTypeOK, SchedTypes
<1>9. \A v \in Threads \ {t} : Untouched(v) /\ Keeps(v)
  BY <1>1, <1>3, <1>4 DEF Untouched, Keeps, OnHolder, Running, SyncTypeOK, SchedTypes
<1> QED BY <1>5, <1>6, <1>7, <1>8, <1>9, ThreadStep

\* uthread_yield, called at a point where the thread can be preempted.
LEMMA YieldStep ==
    ASSUME TypeInv, NEW l \in LWPs, NEW t \in Threads, Running(l, t), ut_no_preempt_count[t] = 0,
           YieldEnter(t), Push(t, YieldFrames),
           UNCHANGED <<cpuVars, ut_prio, runqVars, waitVars, argVars, halted, mtxVars>>
    PROVE  TypeInv'
<1> DEFINE s == stack[t]
<1>1. SyncTypeOK
  BY DEF TypeInv
<1>2. s = <<>> \/ (s # <<>> /\ Tail(s) = <<>> /\ Head(s) \in {"create_init", "wake_unlock"})
  <2>1. s = <<>> \/ (s # <<>> /\ <<0, Head(s), Tail(s)>> \in Continuations)
    BY DEF TypeInv, ContinuationOK, ContinuationOf
  <2> HIDE DEF s
  <2> QED BY <2>1, Rows
<1>3. s = <<>> \/ s = <<"create_init">> \/ s = <<"wake_unlock">>
  <2>1. s \in Seq(AllLabels)
    BY <1>1 DEF SyncTypeOK, SchedTypes, AllLabels
  <2> HIDE DEF s
  <2>2. s # <<>> => s = <<Head(s)>> \o Tail(s)
    BY <2>1, HeadTailProperties
  <2> QED BY <1>2, <2>2, ConcatLiterals
<1>4. /\ stack' \in [Threads -> Seq(AllLabels)] /\ stack'[t] # <<>>
      /\ Head(stack'[t]) = "yield_lock" /\ Tail(stack'[t]) = <<"nopreempt_off">> \o s
      /\ \A u \in Threads \ {t} : stack'[u] = stack[u]
  BY AfterPush, LabelNames DEF YieldFrames
<1>5. /\ ut_no_preempt_count' = [ut_no_preempt_count EXCEPT ![t] = @ + 1]
      /\ ut_state' = [ut_state EXCEPT ![t] = "UT_RUNNABLE"]
      /\ UNCHANGED <<curthr, lwp, ut_prio, runq, tq_size, runq_mtx, waitq, pmut, swarg,
                     wakee, sparg, newthr, halted, m_owner, marg, carg, crit>>
  BY DEF YieldEnter, NopreemptOn, cpuVars, runqVars, waitVars, argVars, mtxVars
<1>6. SyncTypeOK'
  <2>1. ut_no_preempt_count' \in [Threads -> Nat] /\ ut_state' \in [Threads -> UtStates]
    BY <1>1, <1>5 DEF SyncTypeOK, SchedTypes, UtStates
  <2>2. stack' \in [Threads -> Seq(Labels \cup SyncLabels)]
    BY <1>4 DEF AllLabels
  <2>3. SchedTypes(Labels \cup SyncLabels)'
    BY <1>1, <1>5, <2>1, <2>2 DEF SyncTypeOK, SchedTypes
  <2> QED BY <1>1, <1>5, <2>3 DEF SyncTypeOK
<1>7. \/ s = <<>> /\ Tail(stack'[t]) = <<"nopreempt_off">>
      \/ s = <<"create_init">> /\ Tail(stack'[t]) = <<"nopreempt_off", "create_init">>
      \/ s = <<"wake_unlock">> /\ Tail(stack'[t]) = <<"nopreempt_off", "wake_unlock">>
  <2> HIDE DEF s
  <2> QED BY <1>3, <1>4, Concats
<1>8. ut_no_preempt_count'[t] = 1
  BY <1>1, <1>5 DEF SyncTypeOK, SchedTypes
<1>9. ContinuationOf(t)'
  <2>1. Tail(stack'[t]) \in Yielding
    BY <1>7 DEF Yielding
  <2>2. <<1, "yield_lock", Tail(stack'[t])>> \in Continuations
    BY <2>1, RowIntro
  <2> QED BY <1>4, <1>8, <2>2 DEF ContinuationOf
<1>10. Pinned(t)' => OnHolder(t)
  <2>1. Pinned(t)' => s = <<"wake_unlock">>
    BY <1>4, <1>7, <1>8, Literals DEF Pinned
  <2>2. s = <<"wake_unlock">> => Pinned(t)
    BY Literals DEF Pinned
  <2> QED BY <2>1, <2>2 DEF TypeInv, PinnedToHolder
<1>11. ArgumentsOf(t)'
  <2>1. NeedsNewthr(t)' => NeedsNewthr(t)
    BY <1>4, <1>7, Literals DEF NeedsNewthr, Pending
  <2>2. ~NeedsMutex(t)' /\ ~NeedsCond(t)'
    BY <1>4, <1>7, Literals DEF NeedsMutex, NeedsCond, Pending
  <2>3. ~Pending(t, {"wake"}, {})' /\ ~Pending(t, {"setprio_write", "setprio_lock"}, {})'
    BY <1>4 DEF Pending
  <2> QED BY <1>5, <2>1, <2>2, <2>3 DEF ArgumentsOf, TypeInv, ArgumentsOK
<1> QED BY <1>1, <1>4, <1>5, <1>6, <1>9, <1>10, <1>11, LocalStep DEF Untouched, SyncTypeOK, SchedTypes

LEMMA YieldLemma ==
    ASSUME TypeInv, NEW l \in LWPs, NEW t \in Threads, UthreadYield(l, t) \/ ClockInterrupt(l, t),
           UNCHANGED mtxVars
    PROVE  TypeInv'
<1>1. InClient(l, t) => Running(l, t) /\ ut_no_preempt_count[t] = 0
  BY DEF InClient, TypeInv, ContinuationOK, ContinuationOf
<1> QED BY <1>1, YieldStep DEF UthreadYield, ClockInterrupt

LEMMA BlockLemma ==
    ASSUME TypeInv, NEW l \in LWPs, NEW t \in Threads, UthreadBlock(l, t), UNCHANGED mtxVars
    PROVE  TypeInv'
<1>1. SyncTypeOK
  BY DEF TypeInv
<1>2. stack[t] = <<>> /\ ut_no_preempt_count[t] = 0
  BY DEF UthreadBlock, InClient, TypeInv, ContinuationOK, ContinuationOf
<1>3. /\ stack' \in [Threads -> Seq(AllLabels)] /\ stack'[t] # <<>>
      /\ Head(stack'[t]) = "switch" /\ Tail(stack'[t]) = <<"nopreempt_off">>
      /\ \A u \in Threads \ {t} : stack'[u] = stack[u]
  BY <1>2, AfterPush, LabelNames, Concats DEF UthreadBlock
<1>4. /\ ut_no_preempt_count' = [ut_no_preempt_count EXCEPT ![t] = @ + 1]
      /\ ut_state' = [ut_state EXCEPT ![t] = "UT_WAIT"]
      /\ UNCHANGED <<curthr, lwp, ut_prio, runq, tq_size, runq_mtx, waitq, pmut, swarg,
                     wakee, sparg, newthr, halted, m_owner, marg, carg, crit>>
  BY DEF UthreadBlock, NopreemptOn, cpuVars, runqVars, waitVars, argVars, mtxVars
<1>5. SyncTypeOK'
  BY <1>1, <1>3, <1>4 DEF SyncTypeOK, SchedTypes, AllLabels, UtStates
<1>6. ut_no_preempt_count'[t] = 1
  BY <1>1, <1>2, <1>4 DEF SyncTypeOK, SchedTypes
<1>7. ContinuationOf(t)'
  <2>1. <<1, "switch", <<"nopreempt_off">> >> \in Continuations
    BY RowIntro DEF Yielding
  <2> QED BY <1>3, <1>6, <2>1 DEF ContinuationOf
<1>8. ~Pinned(t)'
  <2>1. <<"nopreempt_off">> # <<"nopreempt_off", "wake_unlock">>
    OBVIOUS
  <2>2. Tail(stack'[t]) # <<"nopreempt_off", "wake_unlock">> /\ Head(stack'[t]) # "wake_unlock"
    BY <1>3, <2>1
  <2>3. ut_no_preempt_count'[t] # 2
    BY <1>6
  <2> QED BY <2>2, <2>3 DEF Pinned
<1>9. ArgumentsOf(t)'
  <2>1. ~NeedsNewthr(t)' /\ ~NeedsMutex(t)' /\ ~NeedsCond(t)'
    BY <1>3, Literals DEF NeedsNewthr, NeedsMutex, NeedsCond, Pending
  <2> QED BY <1>3, <2>1 DEF ArgumentsOf, Pending
<1> QED BY <1>1, <1>3, <1>4, <1>5, <1>7, <1>8, <1>9, LocalStep DEF Untouched, SyncTypeOK, SchedTypes

LEMMA YieldLockLemma ==
    ASSUME TypeInv, NEW l \in LWPs, NEW t \in Threads, YieldLock(l, t), UNCHANGED mtxVars
    PROVE  TypeInv'
<1> DEFINE n == ut_no_preempt_count[t]
           r == Tail(stack[t])
<1>1. SyncTypeOK
  BY DEF TypeInv
<1>2. stack[t] # <<>> /\ Head(stack[t]) = "yield_lock"
  BY DEF YieldLock, At
<1>3. (n = 1 /\ r \in Yielding) \/ (n = 2 /\ r = <<"nopreempt_off">>)
  <2>1. <<n, "yield_lock", r>> \in Continuations
    BY <1>2, RowOf
  <2> QED BY <2>1, Rows
<1>4. /\ stack' \in [Threads -> Seq(AllLabels)] /\ stack'[t] # <<>>
      /\ Head(stack'[t]) = "switch" /\ Tail(stack'[t]) = r
      /\ \A u \in Threads \ {t} : stack'[u] = stack[u]
  BY <1>2, AfterContinue, LabelNames DEF YieldLock
<1>5. /\ pmut' = [pmut EXCEPT ![t] = l]
      /\ swarg' = [swarg EXCEPT ![t] = [queue |-> NoObj, saveonrq |-> TRUE, pmut |-> t]]
      /\ UNCHANGED <<curthr, lwp, ut_state, ut_prio, ut_no_preempt_count, runq, tq_size, runq_mtx,
                     waitq, wakee, sparg, newthr, halted, m_owner, marg, carg, crit>>
  BY DEF YieldLock, cpuVars, thrVars, runqVars, mtxVars
<1>6. SyncTypeOK'
  BY <1>1, <1>4, <1>5 DEF SyncTypeOK, SchedTypes, AllLabels, Objs
<1>7. ContinuationOf(t)'
  <2> HIDE DEF n, r
  <2>1. <<n, "switch", r>> \in Continuations
    BY <1>3, RowIntro
  <2> QED BY <1>4, <1>5, <2>1 DEF ContinuationOf, n
<1>8. Pinned(t)' => OnHolder(t)
  <2>1. Pinned(t)' => Pinned(t)
    BY <1>2, <1>4, <1>5 DEF Pinned
  <2> QED BY <2>1 DEF TypeInv, PinnedToHolder
<1>9. ArgumentsOf(t)'
  <2>1. NeedsNewthr(t)' => NeedsNewthr(t)
    BY <1>2, <1>4 DEF NeedsNewthr, Pending
  <2>2. ~NeedsMutex(t)' /\ ~NeedsCond(t)'
    BY <1>3, <1>4, Literals DEF NeedsMutex, NeedsCond, Pending, Yielding
  <2>3. ~Pending(t, {"wake"}, {})' /\ ~Pending(t, {"setprio_write", "setprio_lock"}, {})'
    BY <1>4 DEF Pending
  <2> QED BY <1>5, <2>1, <2>2, <2>3 DEF ArgumentsOf, TypeInv, ArgumentsOK
<1> QED BY <1>1, <1>4, <1>5, <1>6, <1>7, <1>8, <1>9, LocalStep DEF Untouched, SyncTypeOK, SchedTypes

LEMMA SetprioWriteLemma ==
    ASSUME TypeInv, NEW l \in LWPs, NEW t \in Threads, SetprioWrite(l, t), UNCHANGED mtxVars
    PROVE  TypeInv'
<1>1. SyncTypeOK
  BY DEF TypeInv
<1>2. stack[t] # <<>> /\ Head(stack[t]) = "setprio_write"
  BY DEF SetprioWrite, At
<1>3. ut_no_preempt_count[t] = 1 /\ Tail(stack[t]) = <<>>
  <2>1. <<ut_no_preempt_count[t], "setprio_write", Tail(stack[t])>> \in Continuations
    BY <1>2, RowOf
  <2> QED BY <2>1, Rows DEF Entered
<1>4. /\ stack' \in [Threads -> Seq(AllLabels)] /\ stack'[t] # <<>>
      /\ Head(stack'[t]) = "setprio_lock" /\ Tail(stack'[t]) = <<>>
      /\ \A u \in Threads \ {t} : stack'[u] = stack[u]
  BY <1>2, <1>3, AfterContinue, LabelNames DEF SetprioWrite
<1>5. /\ ut_prio' = [ut_prio EXCEPT ![sparg[t].thr] = sparg[t].prio]
      /\ UNCHANGED <<curthr, lwp, ut_state, ut_no_preempt_count, runq, tq_size, runq_mtx,
                     waitq, pmut, swarg, wakee, sparg, newthr, halted, m_owner, marg, carg, crit>>
  BY DEF SetprioWrite, cpuVars, runqVars, waitVars, argVars, mtxVars
<1>6. sparg[t].prio \in Prios /\ sparg[t].thr # NoThread
  BY <1>1, <1>2 DEF SyncTypeOK, SchedTypes, TypeInv, ArgumentsOK, ArgumentsOf, Pending
<1>7. SyncTypeOK'
  BY <1>1, <1>4, <1>5, <1>6 DEF SyncTypeOK, SchedTypes, AllLabels
<1>8. ContinuationOf(t)'
  <2>1. <<1, "setprio_lock", <<>> >> \in Continuations
    BY RowIntro DEF Entered
  <2> QED BY <1>3, <1>4, <1>5, <2>1 DEF ContinuationOf
<1>9. ~Pinned(t)'
  BY <1>4, Literals DEF Pinned
<1>10. ArgumentsOf(t)'
  BY <1>4, <1>5, <1>6, Literals DEF ArgumentsOf, NeedsNewthr, NeedsMutex, NeedsCond, Pending
<1> QED BY <1>1, <1>4, <1>5, <1>7, <1>8, <1>9, <1>10, LocalStep DEF Untouched, SyncTypeOK, SchedTypes

LEMMA AllocClaimLemma ==
    ASSUME TypeInv, NEW l \in LWPs, NEW t \in Threads, AllocClaim(l, t), UNCHANGED mtxVars
    PROVE  TypeInv'
<1>1. SyncTypeOK
  BY DEF TypeInv
<1>2. stack[t] # <<>> /\ Head(stack[t]) = "alloc_claim"
  BY DEF AllocClaim, At
<1>3. ut_no_preempt_count[t] = 1 /\ Tail(stack[t]) = <<>>
  <2>1. <<ut_no_preempt_count[t], "alloc_claim", Tail(stack[t])>> \in Continuations
    BY <1>2, RowOf
  <2> QED BY <2>1, Rows DEF Entered
<1>4. /\ stack' \in [Threads -> Seq(AllLabels)] /\ stack'[t] # <<>>
      /\ Head(stack'[t]) = "create_init" /\ Tail(stack'[t]) = <<>>
      /\ \A u \in Threads \ {t} : stack'[u] = stack[u]
  BY <1>2, <1>3, AfterContinue, LabelNames DEF AllocClaim
<1>5. /\ ut_state' = [ut_state EXCEPT ![newthr[t]] = "UT_TRANSITION"]
      /\ ut_no_preempt_count' = [ut_no_preempt_count EXCEPT ![t] = @ - 1]
      /\ UNCHANGED <<curthr, lwp, ut_prio, runq, tq_size, runq_mtx, waitq, pmut, swarg,
                     wakee, sparg, newthr, halted, m_owner, marg, carg, crit>>
  BY DEF AllocClaim, NopreemptOff, cpuVars, runqVars, waitVars, argVars, mtxVars
<1>6. newthr[t] # NoThread
  BY <1>2 DEF TypeInv, ArgumentsOK, ArgumentsOf, NeedsNewthr, Pending
<1>7. ut_no_preempt_count'[t] = 0
  BY <1>1, <1>3, <1>5 DEF SyncTypeOK, SchedTypes
<1>8. SyncTypeOK'
  <2>1. ut_no_preempt_count' \in [Threads -> Nat]
    BY <1>1, <1>3, <1>5 DEF SyncTypeOK, SchedTypes
  <2> QED BY <1>1, <1>4, <1>5, <2>1 DEF SyncTypeOK, SchedTypes, AllLabels, UtStates
<1>9. ContinuationOf(t)'
  <2>1. <<0, "create_init", <<>> >> \in Continuations
    BY RowIntro
  <2> QED BY <1>4, <1>7, <2>1 DEF ContinuationOf
<1>10. ~Pinned(t)'
  BY <1>4, Literals DEF Pinned
<1>11. ArgumentsOf(t)'
  <2>1. ~NeedsMutex(t)' /\ ~NeedsCond(t)'
    BY <1>4, Literals DEF NeedsMutex, NeedsCond, Pending
  <2> QED BY <1>4, <1>5, <1>6, <2>1 DEF ArgumentsOf, Pending
<1> QED BY <1>1, <1>4, <1>5, <1>8, <1>9, <1>10, <1>11, LocalStep DEF Untouched, SyncTypeOK, SchedTypes

\* The new thread and its creator move together.
LEMMA CreateInitLemma ==
    ASSUME TypeInv, NEW l \in LWPs, NEW t \in Threads, CreateInit(l, t), UNCHANGED mtxVars
    PROVE  TypeInv'
<1>1. SyncTypeOK
  BY DEF TypeInv
<1>2. stack[t] # <<>> /\ Head(stack[t]) = "create_init"
  BY DEF CreateInit, At
<1>3. ut_no_preempt_count[t] = 0 /\ Tail(stack[t]) = <<>>
  <2>1. <<ut_no_preempt_count[t], "create_init", Tail(stack[t])>> \in Continuations
    BY <1>2, RowOf
  <2> QED BY <2>1, Rows
<1>4. PICK u \in Threads : u = newthr[t] /\ u # t
  BY <1>1, <1>2 DEF TypeInv, ArgumentsOK, ArgumentsOf, NeedsNewthr, Pending, ThreadsExist, SyncTypeOK, SchedTypes
<1>5. /\ ut_prio' = [ut_prio EXCEPT ![u] = -1]
      /\ waitq' = [waitq EXCEPT ![u] = <<>>]
      /\ pmut' = [pmut EXCEPT ![u] = NoLwp]
      /\ stack' = [stack EXCEPT ![u] = <<"nopreempt_off">>, ![t] = <<"startonrunq">>]
      /\ ut_no_preempt_count' = [ut_no_preempt_count EXCEPT ![u] = 1, ![t] = @ + 1]
      /\ UNCHANGED <<curthr, lwp, ut_state, runq, tq_size, runq_mtx, swarg, wakee, sparg, newthr,
                     halted, m_owner, marg, carg, crit>>
  BY <1>3, <1>4, ConcatLiterals DEF CreateInit, cpuVars, runqVars, argVars, mtxVars
<1>6. SyncTypeOK'
  <2>1. /\ stack \in [Threads -> Seq(AllLabels)] /\ ut_no_preempt_count \in [Threads -> Nat]
        /\ ut_prio \in [Threads -> Prios \cup {-1}] /\ waitq \in [Objs -> Seq(Threads)]
        /\ pmut \in [Objs -> LWPs \cup {NoLwp}]
    BY <1>1 DEF SyncTypeOK, SchedTypes, AllLabels
  <2>2. <<"nopreempt_off">> \in Seq(AllLabels) /\ <<"startonrunq">> \in Seq(AllLabels)
    BY DEF AllLabels, Labels
  <2>3. stack' \in [Threads -> Seq(AllLabels)]
    BY <1>5, <2>1, <2>2
  <2>4. ut_no_preempt_count' \in [Threads -> Nat]
    BY <1>5, <2>1
  <2>5. ut_prio' \in [Threads -> Prios \cup {-1}] /\ pmut' \in [Objs -> LWPs \cup {NoLwp}]
    BY <1>5, <2>1
  <2>6. waitq' \in [Objs -> Seq(Threads)]
    <3>1. <<>> \in Seq(Threads)
      OBVIOUS
    <3>2. waitq' = [waitq EXCEPT ![u] = <<>>] /\ waitq \in [Objs -> Seq(Threads)]
      BY <1>5, <2>1
    <3> QED BY <3>1, <3>2, Zenon
  <2> QED BY <1>1, <1>5, <2>3, <2>4, <2>5, <2>6 DEF SyncTypeOK, SchedTypes, AllLabels
<1>7. /\ stack'[t] = <<"startonrunq">> /\ ut_no_preempt_count'[t] = 1
      /\ stack'[u] = <<"nopreempt_off">> /\ ut_no_preempt_count'[u] = 1
  BY <1>1, <1>3, <1>4, <1>5 DEF SyncTypeOK, SchedTypes
<1>8. /\ stack'[t] # <<>> /\ Head(stack'[t]) = "startonrunq" /\ Tail(stack'[t]) = <<>>
      /\ stack'[u] # <<>> /\ Head(stack'[u]) = "nopreempt_off" /\ Tail(stack'[u]) = <<>>
  BY <1>7, Literals
<1>9. ContinuationOf(t)' /\ ContinuationOf(u)'
  <2>1. <<1, "startonrunq", <<>> >> \in Continuations /\ <<1, "nopreempt_off", <<>> >> \in Continuations
    BY RowIntro DEF Entered
  <2> QED BY <1>7, <1>8, <2>1 DEF ContinuationOf
<1>10. ~Pinned(t)' /\ ~Pinned(u)'
  BY <1>7, <1>8, Literals DEF Pinned
<1>11. ArgumentsOf(t)' /\ ArgumentsOf(u)'
  <2>1. ~NeedsMutex(t)' /\ ~NeedsCond(t)' /\ ~NeedsMutex(u)' /\ ~NeedsCond(u)' /\ ~NeedsNewthr(u)'
    BY <1>8, Literals DEF NeedsMutex, NeedsCond, NeedsNewthr, Pending
  <2>2. newthr'[t] # NoThread
    BY <1>4, <1>5, SchedAssumption
  <2> QED BY <1>8, <2>1, <2>2 DEF ArgumentsOf, Pending
<1>12. ASSUME NEW v \in Threads, v # t, v # u
       PROVE  ContinuationOf(v)' /\ ArgumentsOf(v)' /\ (Pinned(v)' => OnHolder(v)')
  <2>1. Untouched(v)
    BY <1>1, <1>5, <1>12 DEF Untouched, SyncTypeOK, SchedTypes
  <2>2. ContinuationOf(v)'
    BY <2>1 DEF TypeInv, ContinuationOK, ContinuationOf, Untouched
  <2>3. ArgumentsOf(v)'
    BY <2>1 DEF TypeInv, ArgumentsOK, ArgumentsOf, NeedsNewthr, NeedsMutex, NeedsCond, Pending, Untouched
  <2>4. Pinned(v)' => OnHolder(v)'
    BY <1>5, <2>1 DEF TypeInv, PinnedToHolder, Pinned, OnHolder, Running, Untouched
  <2> QED BY <2>2, <2>3, <2>4
<1>13. ThreadsExist'
  BY <1>5 DEF TypeInv, ThreadsExist, Running
<1> QED BY <1>6, <1>9, <1>10, <1>11, <1>12, <1>13 DEF TypeInv, ContinuationOK, ArgumentsOK, PinnedToHolder

LEMMA AllocStackFailsLemma ==
    ASSUME TypeInv, NEW l \in LWPs, NEW t \in Threads, AllocStackFails(l, t), UNCHANGED mtxVars
    PROVE  TypeInv'
<1>1. SyncTypeOK
  BY DEF TypeInv
<1>2. stack[t] # <<>> /\ Head(stack[t]) = "create_init"
  BY DEF AllocStackFails, At
<1>3. ut_no_preempt_count[t] = 0 /\ Tail(stack[t]) = <<>>
  <2>1. <<ut_no_preempt_count[t], "create_init", Tail(stack[t])>> \in Continuations
    BY <1>2, RowOf
  <2> QED BY <2>1, Rows
<1>4. /\ stack' \in [Threads -> Seq(AllLabels)] /\ stack'[t] = <<>>
      /\ \A u \in Threads \ {t} : stack'[u] = stack[u]
  BY <1>2, <1>3, AfterContinue DEF AllocStackFails
<1>5. /\ newthr' = [newthr EXCEPT ![t] = NoThread]
      /\ UNCHANGED <<curthr, lwp, ut_state, ut_prio, ut_no_preempt_count, runq, tq_size, runq_mtx,
                     waitq, pmut, swarg, wakee, sparg, halted, m_owner, marg, carg, crit>>
  BY DEF AllocStackFails, cpuVars, thrVars, runqVars, waitVars, mtxVars
<1>6. SyncTypeOK'
  BY <1>1, <1>4, <1>5 DEF SyncTypeOK, SchedTypes, AllLabels
<1>7. ContinuationOf(t)' /\ ~Pinned(t)' /\ ArgumentsOf(t)'
  BY <1>3, <1>4, <1>5 DEF ContinuationOf, Pinned, ArgumentsOf, NeedsNewthr, NeedsMutex, NeedsCond, Pending
<1>8. ThreadsExist'
  BY <1>1, <1>5, SchedAssumption DEF TypeInv, ThreadsExist, Running, SyncTypeOK, SchedTypes
<1>9. \A v \in Threads \ {t} : Untouched(v) /\ Keeps(v)
  BY <1>1, <1>4, <1>5 DEF Untouched, Keeps, OnHolder, Running, SyncTypeOK, SchedTypes
<1> QED BY <1>6, <1>7, <1>8, <1>9, ThreadStep

LEMMA WakeUnlockLemma ==
    ASSUME TypeInv, NEW l \in LWPs, NEW t \in Threads, WakeUnlock(l, t), UNCHANGED mtxVars
    PROVE  TypeInv'
<1>1. SyncTypeOK
  BY DEF TypeInv
<1>2. stack[t] # <<>> /\ Head(stack[t]) = "wake_unlock"
  BY DEF WakeUnlock, At
<1>3. ut_no_preempt_count[t] = 0 /\ Tail(stack[t]) = <<>>
  <2>1. <<ut_no_preempt_count[t], "wake_unlock", Tail(stack[t])>> \in Continuations
    BY <1>2, RowOf
  <2> QED BY <2>1, Rows
<1>4. /\ stack' \in [Threads -> Seq(AllLabels)] /\ stack'[t] = <<>>
      /\ \A u \in Threads \ {t} : stack'[u] = stack[u]
  BY <1>2, <1>3, AfterContinue DEF WakeUnlock
<1>5. /\ runq_mtx' = NoLwp
      /\ UNCHANGED <<curthr, lwp, ut_state, ut_prio, ut_no_preempt_count, runq, tq_size,
                     waitq, pmut, swarg, wakee, sparg, newthr, halted, m_owner, marg, carg, crit>>
  BY DEF WakeUnlock, cpuVars, thrVars, waitVars, argVars, mtxVars
<1>6. SyncTypeOK'
  BY <1>1, <1>4, <1>5 DEF SyncTypeOK, SchedTypes, AllLabels
<1>7. ContinuationOf(t)' /\ ~Pinned(t)' /\ ArgumentsOf(t)'
  BY <1>3, <1>4, <1>5 DEF ContinuationOf, Pinned, ArgumentsOf, NeedsNewthr, NeedsMutex, NeedsCond, Pending
<1>8. ThreadsExist'
  BY <1>5 DEF TypeInv, ThreadsExist, Running
<1>9. ASSUME NEW v \in Threads \ {t}
      PROVE  Untouched(v) /\ ~Pinned(v)
  <2>1. Pinned(t)
    BY <1>2 DEF Pinned
  <2>2. OnHolder(t) /\ (Pinned(v) => OnHolder(v))
    BY <2>1 DEF TypeInv, PinnedToHolder
  <2>3. ~Pinned(v)
    BY <2>2 DEF OnHolder, Running
  <2> QED BY <1>1, <1>4, <1>5, <2>3 DEF Untouched, SyncTypeOK, SchedTypes
<1> QED BY <1>6, <1>7, <1>8, <1>9, ThreadStep

LEMMA WakeLemma ==
    ASSUME TypeInv, NEW l \in LWPs, NEW t \in Threads, Wake(l, t), UNCHANGED mtxVars
    PROVE  TypeInv'
<1> DEFINE n == ut_no_preempt_count[t]
           r == Tail(stack[t])
<1>1. SyncTypeOK
  BY DEF TypeInv
<1>2. stack[t] # <<>> /\ Head(stack[t]) = "wake" /\ curthr[l] = t /\ runq_mtx = NoLwp
  BY DEF Wake, At, Running
<1>3. /\ n \in {1, 2, 3} /\ (n = 1 => r = <<>>)
  <2>1. <<n, "wake", r>> \in Continuations
    BY <1>2, RowOf
  <2> QED BY <2>1, Rows
<1>4. PICK u \in Threads : u = wakee[t]
  BY <1>1, <1>2 DEF TypeInv, ArgumentsOK, ArgumentsOf, Pending, SyncTypeOK, SchedTypes
<1>5. /\ ut_no_preempt_count' = [ut_no_preempt_count EXCEPT ![t] = @ - 1]
      /\ wakee' = [wakee EXCEPT ![t] = NoThread]
      /\ UNCHANGED <<curthr, ut_prio, waitq, pmut, swarg, sparg, newthr, halted, m_owner, marg, carg, crit>>
  BY DEF Wake, NopreemptOff, waitVars, mtxVars
<1>6. \/ n = 1 /\ runq_mtx' = l /\ Continue(t, <<"wake_unlock">>)
      \/ n # 1 /\ runq_mtx' = NoLwp /\ Continue(t, <<>>)
  BY DEF Wake
<1>7. /\ ut_state' \in [Threads -> UtStates] /\ runq' \in [Prios -> Seq(Threads)]
      /\ tq_size' \in [Prios -> Int] /\ lwp' \in [LWPs -> {"unborn", "running", "parked", "signalled"}]
      /\ \A v \in Threads : ut_state'[v] = ut_state[v] \/ ut_state'[v] = "UT_RUNNABLE"
  <2>1. MakeRunnable(u)
    BY <1>4 DEF Wake
  <2>2. CASE WakeQueues(u)
    <3>1. runq' \in [Prios -> Seq(Threads)] /\ tq_size' \in [Prios -> Int]
      BY <1>1, <2>2, EnqueuedType DEF WakeQueues, SyncTypeOK, SchedTypes
    <3>2. lwp' \in [LWPs -> {"unborn", "running", "parked", "signalled"}]
      BY <1>1, <2>2, ReleasedType DEF WakeQueues, SyncTypeOK, SchedTypes
    <3> QED BY <1>1, <2>2, <3>1, <3>2 DEF WakeQueues, SyncTypeOK, SchedTypes, UtStates
  <2>3. CASE UNCHANGED <<ut_state, runq, tq_size, lwp>>
    BY <1>1, <2>3 DEF SyncTypeOK, SchedTypes
  <2> QED BY <2>1, <2>2, <2>3 DEF MakeRunnable
<1>8. /\ stack' \in [Threads -> Seq(AllLabels)] /\ \A v \in Threads \ {t} : stack'[v] = stack[v]
      /\ n = 1 => stack'[t] # <<>> /\ Head(stack'[t]) = "wake_unlock" /\ Tail(stack'[t]) = <<>>
      /\ n # 1 => stack'[t] = r
  BY <1>2, <1>3, <1>6, AfterContinue, LabelNames
<1>9. SyncTypeOK'
  <2>1. ut_no_preempt_count' \in [Threads -> Nat]
    BY <1>1, <1>3, <1>5 DEF SyncTypeOK, SchedTypes
  <2>2. wakee' \in [Threads -> Threads \cup {NoThread}] /\ runq_mtx' \in LWPs \cup {NoLwp}
    BY <1>1, <1>5, <1>6 DEF SyncTypeOK, SchedTypes
  <2> QED BY <1>1, <1>5, <1>7, <1>8, <2>1, <2>2 DEF SyncTypeOK, SchedTypes, AllLabels
<1>10. ut_no_preempt_count'[t] = n - 1
  BY <1>1, <1>5 DEF SyncTypeOK, SchedTypes
<1>11. ContinuationOf(t)' /\ (Pinned(t)' => OnHolder(t)') /\ ArgumentsOf(t)'
  <2>1. CASE n = 1
    <3>1. <<0, "wake_unlock", <<>> >> \in Continuations
      BY RowIntro
    <3>2. ContinuationOf(t)'
      <4>1. ut_no_preempt_count'[t] = 0
        BY <1>10, <2>1
      <4> QED BY <1>8, <2>1, <3>1, <4>1 DEF ContinuationOf
    <3>3. OnHolder(t)'
      BY <1>2, <1>5, <1>6, <2>1 DEF OnHolder, Running
    <3>4. ~NeedsNewthr(t)' /\ ~NeedsMutex(t)' /\ ~NeedsCond(t)'
      BY <1>8, <2>1, Literals DEF NeedsNewthr, NeedsMutex, NeedsCond, Pending
    <3> QED BY <1>8, <2>1, <3>2, <3>3, <3>4 DEF ArgumentsOf, Pending
  <2>2. CASE n # 1
    BY <1>2, <1>5, <1>8, <1>10, <2>2, PopStep, PopKeepsArguments
  <2> QED BY <2>1, <2>2
<1>12. ThreadsExist'
  BY <1>5, <1>7 DEF TypeInv, ThreadsExist, Running
<1>13. \A v \in Threads \ {t} : Untouched(v) /\ ~Pinned(v)
  BY <1>1, <1>2, <1>5, <1>8, FreeRunq DEF Untouched, SyncTypeOK, SchedTypes
<1> QED BY <1>9, <1>11, <1>12, <1>13, ThreadStep

LEMMA RemoveAtType ==
    ASSUME NEW S, NEW s \in Seq(S), NEW i \in 1..Len(s)
    PROVE  RemoveAt(s, i) \in Seq(S)
  BY DEF RemoveAt

LEMMA SetprioLockLemma ==
    ASSUME TypeInv, NEW l \in LWPs, NEW t \in Threads, SetprioLock(l, t), UNCHANGED mtxVars
    PROVE  TypeInv'
<1>1. SyncTypeOK
  BY DEF TypeInv
<1>2. stack[t] # <<>> /\ Head(stack[t]) = "setprio_lock" /\ curthr[l] = t /\ runq_mtx = NoLwp
  BY DEF SetprioLock, At, Running
<1>3. ut_no_preempt_count[t] = 1 /\ Tail(stack[t]) = <<>>
  <2>1. <<ut_no_preempt_count[t], "setprio_lock", Tail(stack[t])>> \in Continuations
    BY <1>2, RowOf
  <2> QED BY <2>1, Rows DEF Entered
<1>4. PICK u \in Threads : u = sparg[t].thr
  BY <1>1, <1>2 DEF TypeInv, ArgumentsOK, ArgumentsOf, Pending, SyncTypeOK, SchedTypes
<1>5. /\ sparg' = [sparg EXCEPT ![t] = NoSetprio]
      /\ UNCHANGED <<curthr, lwp, ut_prio, waitq, pmut, swarg, wakee, newthr, halted, m_owner, marg, carg, crit>>
      /\ Requeue(u, sparg[t].old) \/ UNCHANGED <<runq, tq_size>>
      /\ \/ YieldEnter(t) /\ runq_mtx' = l /\ Continue(t, YieldFrames)
         \/ NopreemptOff(t) /\ Continue(t, <<>>) /\ UNCHANGED <<ut_state, runq_mtx>>
  BY <1>4 DEF SetprioLock, cpuVars, waitVars, mtxVars
<1>6. runq' \in [Prios -> Seq(Threads)] /\ tq_size' \in [Prios -> Int]
  <2>0. runq \in [Prios -> Seq(Threads)] /\ tq_size \in [Prios -> Int]
    BY <1>1 DEF SyncTypeOK, SchedTypes
  <2>1. CASE UNCHANGED <<runq, tq_size>>
    BY <2>0, <2>1
  <2>2. ASSUME NEW p \in Prios, NEW i \in 1..Len(runq[p]), NEW from, NEW to,
               from = [tq_size EXCEPT ![sparg[t].old] = @ - 1],
               runq' = Enqueued([runq EXCEPT ![p] = RemoveAt(@, i)], to, u), tq_size' = SizeUp(from, to)
        PROVE  runq' \in [Prios -> Seq(Threads)] /\ tq_size' \in [Prios -> Int]
    <3>1. [runq EXCEPT ![p] = RemoveAt(@, i)] \in [Prios -> Seq(Threads)]
      BY <2>0, <2>2, RemoveAtType
    <3>2. from \in [Prios -> Int]
      <4>1. CASE sparg[t].old \in Prios
        BY <2>0, <2>2, <4>1
      <4>2. CASE sparg[t].old \notin Prios
        BY <2>0, <2>2, <4>2
      <4> QED BY <4>1, <4>2
    <3> QED BY <2>2, <3>1, <3>2, EnqueuedType
  <2> QED BY <1>5, <2>1, <2>2 DEF Requeue, RequeueAs
<1>7. sparg' \in [Threads -> [thr : Threads \cup {NoThread}, prio : Prios, old : Prios \cup {-1}]]
  <2>1. NoSetprio \in [thr : Threads \cup {NoThread}, prio : Prios, old : Prios \cup {-1}]
    BY SchedAssumption DEF NoSetprio, Prios
  <2> QED BY <1>1, <1>5, <2>1 DEF SyncTypeOK, SchedTypes
<1>8. CASE YieldEnter(t) /\ runq_mtx' = l /\ Continue(t, YieldFrames)
  <2>1. /\ stack' \in [Threads -> Seq(AllLabels)] /\ stack'[t] # <<>>
        /\ Head(stack'[t]) = "yield_lock" /\ Tail(stack'[t]) = <<"nopreempt_off">>
        /\ \A v \in Threads \ {t} : stack'[v] = stack[v]
    <3>1. Continue(t, <<"yield_lock", "nopreempt_off">>)
      BY <1>8 DEF YieldFrames
    <3>2. "yield_lock" \in AllLabels /\ "nopreempt_off" \in AllLabels
      BY LabelNames
    <3>3. /\ stack' \in [Threads -> Seq(AllLabels)] /\ stack'[t] # <<>>
          /\ Head(stack'[t]) = "yield_lock" /\ Tail(stack'[t]) = <<"nopreempt_off">> \o Tail(stack[t])
          /\ \A v \in Threads \ {t} : stack'[v] = stack[v]
      BY <1>2, <3>1, <3>2, AfterContinue
    <3> QED BY <1>2, <1>3, <3>3, Concats
  <2>2. /\ ut_no_preempt_count' = [ut_no_preempt_count EXCEPT ![t] = @ + 1]
        /\ ut_state' = [ut_state EXCEPT ![t] = "UT_RUNNABLE"]
    BY <1>8 DEF YieldEnter, NopreemptOn
  <2>3. SyncTypeOK'
    <3>1. ut_no_preempt_count' \in [Threads -> Nat] /\ ut_state' \in [Threads -> UtStates]
      BY <1>1, <1>3, <2>2 DEF SyncTypeOK, SchedTypes, UtStates
    <3> QED BY <1>1, <1>5, <1>6, <1>8, <1>7, <2>1, <3>1 DEF SyncTypeOK, SchedTypes, AllLabels
  <2>4. ut_no_preempt_count'[t] = 2
    BY <1>1, <1>3, <2>2 DEF SyncTypeOK, SchedTypes
  <2>5. ContinuationOf(t)'
    <3>1. <<2, "yield_lock", <<"nopreempt_off">> >> \in Continuations
      BY RowIntro
    <3> QED BY <2>1, <2>4, <3>1 DEF ContinuationOf
  <2>6. OnHolder(t)'
    BY <1>2, <1>5, <1>8 DEF OnHolder, Running
  <2>7. ArgumentsOf(t)'
    <3>1. ~NeedsNewthr(t)' /\ ~NeedsMutex(t)' /\ ~NeedsCond(t)'
      BY <2>1, Literals DEF NeedsNewthr, NeedsMutex, NeedsCond, Pending
    <3> QED BY <2>1, <3>1 DEF ArgumentsOf, Pending
  <2>8. ThreadsExist'
    BY <1>1, <1>5, <2>2 DEF TypeInv, ThreadsExist, Running, SyncTypeOK, SchedTypes
  <2>9. \A v \in Threads \ {t} : Untouched(v) /\ ~Pinned(v)
    BY <1>1, <1>2, <1>5, <2>1, <2>2, FreeRunq DEF Untouched, SyncTypeOK, SchedTypes
  <2> QED BY <2>3, <2>5, <2>6, <2>7, <2>8, <2>9, ThreadStep
<1>9. CASE NopreemptOff(t) /\ Continue(t, <<>>) /\ UNCHANGED <<ut_state, runq_mtx>>
  <2>1. /\ stack' \in [Threads -> Seq(AllLabels)] /\ stack'[t] = <<>>
        /\ \A v \in Threads \ {t} : stack'[v] = stack[v]
    BY <1>2, <1>3, <1>9, AfterContinue
  <2>2. ut_no_preempt_count' = [ut_no_preempt_count EXCEPT ![t] = @ - 1]
    BY <1>9 DEF NopreemptOff
  <2>3. ut_no_preempt_count'[t] = 0 /\ ut_no_preempt_count' \in [Threads -> Nat]
    BY <1>1, <1>3, <2>2 DEF SyncTypeOK, SchedTypes
  <2>4. SyncTypeOK'
    BY <1>1, <1>5, <1>6, <1>9, <1>7, <2>1, <2>3 DEF SyncTypeOK, SchedTypes, AllLabels
  <2>5. ContinuationOf(t)' /\ ~Pinned(t)' /\ ArgumentsOf(t)'
    BY <2>1, <2>3 DEF ContinuationOf, Pinned, ArgumentsOf, NeedsNewthr, NeedsMutex, NeedsCond, Pending
  <2> QED BY <1>1, <1>5, <1>9, <2>1, <2>2, <2>4, <2>5, LocalStep DEF Untouched, SyncTypeOK, SchedTypes
<1> QED BY <1>5, <1>8, <1>9

LEMMA StartOnRunqLemma ==
    ASSUME TypeInv, NEW l \in LWPs, NEW t \in Threads, NEW prio \in Prios, StartOnRunq(l, t, prio),
           UNCHANGED mtxVars
    PROVE  TypeInv'
<1>1. SyncTypeOK
  BY DEF TypeInv
<1>2. stack[t] # <<>> /\ Head(stack[t]) = "startonrunq" /\ curthr[l] = t /\ runq_mtx = NoLwp
  BY DEF StartOnRunq, At, Running
<1>3. ut_no_preempt_count[t] = 1 /\ Tail(stack[t]) = <<>>
  <2>1. <<ut_no_preempt_count[t], "startonrunq", Tail(stack[t])>> \in Continuations
    BY <1>2, RowOf
  <2> QED BY <2>1, Rows DEF Entered
<1>4. PICK u \in Threads : u = newthr[t]
  BY <1>1, <1>2 DEF TypeInv, ArgumentsOK, ArgumentsOf, NeedsNewthr, Pending, SyncTypeOK, SchedTypes
<1>5. /\ ut_prio' = [ut_prio EXCEPT ![u] = prio]
      /\ UNCHANGED <<curthr, runq_mtx, waitq, pmut, swarg, wakee, sparg, m_owner, marg, carg, crit>>
      /\ \/ /\ ut_state' = [ut_state EXCEPT ![u] = "UT_RUNNABLE"]
            /\ runq' = Enqueued(runq, prio, u) /\ tq_size' = SizeUp(tq_size, prio)
            /\ lwp' \in Released(runq, lwp)
            /\ ut_no_preempt_count' = [ut_no_preempt_count EXCEPT ![t] = @ - 1]
            /\ newthr' = [newthr EXCEPT ![t] = NoThread]
            /\ Continue(t, <<>>) /\ UNCHANGED halted
         \/ /\ halted' = "PANIC"
            /\ UNCHANGED <<ut_state, ut_no_preempt_count, runq, tq_size, lwp, newthr, stack>>
  BY <1>4 DEF StartOnRunq, NopreemptOff, waitVars, mtxVars
<1>6. CASE Continue(t, <<>>) /\ UNCHANGED halted /\ newthr' = [newthr EXCEPT ![t] = NoThread]
           /\ ut_state' = [ut_state EXCEPT ![u] = "UT_RUNNABLE"]
           /\ runq' = Enqueued(runq, prio, u) /\ tq_size' = SizeUp(tq_size, prio)
           /\ lwp' \in Released(runq, lwp)
           /\ ut_no_preempt_count' = [ut_no_preempt_count EXCEPT ![t] = @ - 1]
  <2>1. /\ stack' \in [Threads -> Seq(AllLabels)] /\ stack'[t] = <<>>
        /\ \A v \in Threads \ {t} : stack'[v] = stack[v]
    BY <1>2, <1>3, <1>6, AfterContinue
  <2>2. ut_no_preempt_count'[t] = 0 /\ ut_no_preempt_count' \in [Threads -> Nat]
    BY <1>1, <1>3, <1>6 DEF SyncTypeOK, SchedTypes
  <2>3. runq' \in [Prios -> Seq(Threads)] /\ tq_size' \in [Prios -> Int]
    BY <1>1, <1>6, EnqueuedType DEF SyncTypeOK, SchedTypes
  <2>4. lwp' \in [LWPs -> {"unborn", "running", "parked", "signalled"}]
    BY <1>1, <1>6, ReleasedType DEF SyncTypeOK, SchedTypes
  <2>5. SyncTypeOK'
    BY <1>1, <1>5, <1>6, <2>1, <2>2, <2>3, <2>4 DEF SyncTypeOK, SchedTypes, AllLabels, UtStates
  <2>6. ContinuationOf(t)' /\ ~Pinned(t)' /\ ArgumentsOf(t)'
    BY <2>1, <2>2 DEF ContinuationOf, Pinned, ArgumentsOf, NeedsNewthr, NeedsMutex, NeedsCond, Pending
  <2>7. ThreadsExist'
    BY <1>1, <1>5, <1>6, SchedAssumption DEF TypeInv, ThreadsExist, Running, SyncTypeOK, SchedTypes
  <2>8. \A v \in Threads \ {t} : Untouched(v) /\ ~Pinned(v)
    BY <1>1, <1>2, <1>5, <1>6, <2>1, FreeRunq DEF Untouched, SyncTypeOK, SchedTypes
  <2> QED BY <2>5, <2>6, <2>7, <2>8, ThreadStep
<1>7. CASE halted' = "PANIC"
           /\ UNCHANGED <<ut_state, ut_no_preempt_count, runq, tq_size, lwp, newthr, stack>>
  <2>1. SyncTypeOK'
    BY <1>1, <1>5, <1>7 DEF SyncTypeOK, SchedTypes
  <2>2. ContinuationOf(t)' /\ (Pinned(t)' => OnHolder(t)) /\ ArgumentsOf(t)'
    BY <1>5, <1>7 DEF TypeInv, ContinuationOK, ContinuationOf, PinnedToHolder, Pinned, ArgumentsOK,
                      ArgumentsOf, NeedsNewthr, NeedsMutex, NeedsCond, Pending
  <2> QED BY <1>5, <1>7, <2>1, <2>2, LocalStep DEF Untouched
<1> QED BY <1>5, <1>6, <1>7

-----------------------------------------------------------------------------
(* One lemma per action of the mutexes and condition variables.            *)

\* An entry point that only records its arguments.
LEMMA SyncEntryStep ==
    ASSUME TypeInv, NEW l \in LWPs, NEW t \in Threads, InClient(l, t), EntryUnchanged,
           NEW f \in Entered \cap SyncLabels, Enter(t, f),
           marg' \in [Threads -> Mutexes \cup {NoObj}], carg' \in [Threads -> Conds \cup {NoObj}],
           \A u \in Threads \ {t} : marg'[u] = marg[u] /\ carg'[u] = carg[u],
           f \in {"mtx_lock", "mtx_locked", "mtx_trylock", "mtx_unlock", "cond_wait", "cond_sleep",
                  "cond_relock"} => marg'[t] # NoObj,
           f \in {"cond_wait", "cond_sleep", "cond_relock", "cond_signal", "cond_broadcast"}
                => carg'[t] # NoObj
    PROVE  TypeInv'
<1>1. SyncTypeOK
  BY DEF TypeInv
<1>2. stack[t] = <<>> /\ f \in AllLabels
  BY DEF InClient, AllLabels
<1>3. /\ stack' \in [Threads -> Seq(AllLabels)] /\ stack'[t] # <<>>
      /\ Head(stack'[t]) = f /\ Tail(stack'[t]) = <<>>
      /\ \A v \in Threads \ {t} : stack'[v] = stack[v]
  BY <1>2, AfterPush DEF Enter
<1>4. /\ ut_no_preempt_count' = [ut_no_preempt_count EXCEPT ![t] = @ + 1]
      /\ UNCHANGED <<curthr, lwp, ut_state, ut_prio, runq, tq_size, runq_mtx, waitq, pmut, swarg,
                     wakee, sparg, newthr, halted, m_owner, crit>>
  BY DEF Enter, EntryUnchanged, NopreemptOn, cpuVars, runqVars, waitVars, argVars
<1>5. SyncTypeOK'
  BY <1>1, <1>3, <1>4 DEF SyncTypeOK, SchedTypes, AllLabels
<1>6. f \notin {"alloc_claim", "startonrunq", "wake", "setprio_write", "setprio_lock"}
  BY DEF SyncLabels
<1>7. /\ ContinuationOf(t)' /\ ~Pinned(t)' /\ ~NeedsNewthr(t)'
      /\ NeedsMutex(t)' => marg'[t] # NoObj
      /\ NeedsCond(t)' => carg'[t] # NoObj
  BY <1>1, <1>2, <1>3, <1>4, <1>6, EntryStep DEF SyncTypeOK, SchedTypes
<1>8. ArgumentsOf(t)'
  BY <1>3, <1>6, <1>7 DEF ArgumentsOf, Pending
<1> QED BY <1>1, <1>3, <1>4, <1>5, <1>7, <1>8, LocalStep DEF Untouched, SyncTypeOK, SchedTypes

LEMMA SyncClientLemma ==
    ASSUME TypeInv, NEW l \in LWPs, NEW t \in Threads, SyncClientStep(l, t)
    PROVE  TypeInv'
<1> USE SyncAssumption, SchedAssumption
<1>1. /\ marg \in [Threads -> Mutexes \cup {NoObj}] /\ carg \in [Threads -> Conds \cup {NoObj}]
      /\ NoObj \notin Mutexes /\ NoObj \notin Conds
  BY DEF TypeInv, SyncTypeOK, Objs
<1>2. {"mtx_lock", "mtx_trylock", "mtx_unlock", "cond_wait", "cond_signal", "cond_broadcast"}
         \subseteq Entered \cap SyncLabels
  BY DEF Entered, SyncLabels
<1>3. ASSUME NEW m \in Mutexes, UthreadMtxLock(l, t, m)
      PROVE  TypeInv'
  BY <1>1, <1>2, <1>3, SyncEntryStep DEF UthreadMtxLock
<1>4. ASSUME NEW m \in Mutexes, UthreadMtxTrylock(l, t, m)
      PROVE  TypeInv'
  BY <1>1, <1>2, <1>4, SyncEntryStep DEF UthreadMtxTrylock
<1>5. ASSUME NEW m \in Mutexes, UthreadMtxUnlock(l, t, m)
      PROVE  TypeInv'
  BY <1>1, <1>2, <1>5, SyncEntryStep DEF UthreadMtxUnlock
<1>6. ASSUME NEW m \in Mutexes, NEW c \in Conds, UthreadCondWait(l, t, c, m)
      PROVE  TypeInv'
  BY <1>1, <1>2, <1>6, SyncEntryStep DEF UthreadCondWait
<1>7. ASSUME NEW c \in Conds, UthreadCondSignal(l, t, c)
      PROVE  TypeInv'
  BY <1>1, <1>2, <1>7, SyncEntryStep DEF UthreadCondSignal
<1>8. ASSUME NEW c \in Conds, UthreadCondBroadcast(l, t, c)
      PROVE  TypeInv'
  BY <1>1, <1>2, <1>8, SyncEntryStep DEF UthreadCondBroadcast
<1> QED BY <1>3, <1>4, <1>5, <1>6, <1>7, <1>8 DEF SyncClientStep

\* The end of an entry point: one nopreempt_off, and arguments given up.
LEMMA SyncPopStep ==
    ASSUME TypeInv, NEW t \in Threads, stack[t] # <<>>,
           Head(stack[t]) \in {"mtx_lock", "mtx_locked", "mtx_trylock", "mtx_unlock", "cond_signal",
                               "cond_broadcast"},
           Continue(t, <<>>), NopreemptOff(t),
           UNCHANGED <<cpuVars, ut_state, ut_prio, runqVars, pmut, argVars, halted>>,
           waitq' \in [Objs -> Seq(Threads)], m_owner' \in [Mutexes -> Threads \cup {NoThread}],
           crit' \in [Threads -> SUBSET Mutexes],
           marg' \in [Threads -> Mutexes \cup {NoObj}], carg' \in [Threads -> Conds \cup {NoObj}],
           \A u \in Threads \ {t} : marg'[u] = marg[u] /\ carg'[u] = carg[u],
           Tail(stack[t]) # <<>> => Head(stack[t]) \in {"mtx_lock", "mtx_locked"} \/ UNCHANGED <<marg, carg>>
    PROVE  TypeInv'
<1>1. SyncTypeOK
  BY DEF TypeInv
<1>2. /\ stack' \in [Threads -> Seq(AllLabels)] /\ stack'[t] = Tail(stack[t])
      /\ \A v \in Threads \ {t} : stack'[v] = stack[v]
  BY AfterContinue
<1>3. /\ ut_no_preempt_count' = [ut_no_preempt_count EXCEPT ![t] = @ - 1]
      /\ UNCHANGED <<curthr, lwp, ut_state, ut_prio, runq, tq_size, runq_mtx, pmut, swarg,
                     wakee, sparg, newthr, halted>>
  BY DEF NopreemptOff, cpuVars, runqVars, argVars
<1>4. ut_no_preempt_count'[t] = ut_no_preempt_count[t] - 1
  BY <1>1, <1>3 DEF SyncTypeOK, SchedTypes
<1>5. ContinuationOf(t)' /\ ~Pinned(t)' /\ ut_no_preempt_count[t] - 1 \in Nat
  BY <1>2, <1>4, PopStep
<1>6. Head(stack[t]) \in {"mtx_lock", "mtx_locked"} => Tail(stack[t]) \in {<<>>, <<"nopreempt_off">>}
  <2>1. <<ut_no_preempt_count[t], Head(stack[t]), Tail(stack[t])>> \in Continuations
    BY RowOf
  <2> QED BY <2>1, Rows
<1>7. Tail(stack[t]) \in {<<"cond_sleep">>, <<"nopreempt_off", "cond_sleep">>, <<"cond_broadcast">>}
         => UNCHANGED <<marg, carg>>
  BY <1>6, Literals
<1>8. ArgumentsOf(t)'
  BY <1>2, <1>3, <1>4, <1>7, PopKeepsArguments
<1>9. SyncTypeOK'
  <2>1. ut_no_preempt_count' \in [Threads -> Nat]
    BY <1>1, <1>3, <1>5 DEF SyncTypeOK, SchedTypes
  <2> QED BY <1>1, <1>2, <1>3, <2>1 DEF SyncTypeOK, SchedTypes, AllLabels
<1> QED BY <1>1, <1>2, <1>3, <1>5, <1>8, <1>9, LocalStep DEF Untouched, SyncTypeOK, SchedTypes

LEMMA MtxLockedLemma ==
    ASSUME TypeInv, NEW l \in LWPs, NEW t \in Threads, MtxLocked(l, t)
    PROVE  TypeInv'
<1>1. SyncTypeOK
  BY DEF TypeInv
<1>2. stack[t] # <<>> /\ Head(stack[t]) = "mtx_locked"
  BY DEF MtxLocked, At
<1>3. marg[t] \in Mutexes
  BY <1>1, <1>2 DEF TypeInv, ArgumentsOK, ArgumentsOf, NeedsMutex, Pending, SyncTypeOK
<1>4. /\ waitq' \in [Objs -> Seq(Threads)] /\ m_owner' \in [Mutexes -> Threads \cup {NoThread}]
      /\ crit' \in [Threads -> SUBSET Mutexes]
      /\ marg' \in [Threads -> Mutexes \cup {NoObj}] /\ carg' \in [Threads -> Conds \cup {NoObj}]
      /\ \A u \in Threads \ {t} : marg'[u] = marg[u] /\ carg'[u] = carg[u]
  BY <1>1, <1>3 DEF MtxLocked, SyncTypeOK, SchedTypes, waitVars
<1> QED BY <1>2, <1>4, SyncPopStep DEF MtxLocked, waitVars

LEMMA MtxTrylockLemma ==
    ASSUME TypeInv, NEW l \in LWPs, NEW t \in Threads, MtxTrylock(l, t)
    PROVE  TypeInv'
<1>1. SyncTypeOK
  BY DEF TypeInv
<1>2. stack[t] # <<>> /\ Head(stack[t]) = "mtx_trylock"
  BY DEF MtxTrylock, At
<1>3. marg[t] \in Mutexes
  BY <1>1, <1>2 DEF TypeInv, ArgumentsOK, ArgumentsOf, NeedsMutex, Pending, SyncTypeOK
<1>4. /\ m_owner' \in [Mutexes -> Threads \cup {NoThread}]
      /\ crit' \in [Threads -> SUBSET Mutexes]
  BY <1>1, <1>3 DEF MtxTrylock, SyncTypeOK
<1>5. /\ waitq' \in [Objs -> Seq(Threads)]
      /\ marg' \in [Threads -> Mutexes \cup {NoObj}] /\ carg' \in [Threads -> Conds \cup {NoObj}]
      /\ \A u \in Threads \ {t} : marg'[u] = marg[u] /\ carg'[u] = carg[u]
  BY <1>1 DEF MtxTrylock, SyncTypeOK, SchedTypes, waitVars
<1>6. Tail(stack[t]) = <<>>
  <2>1. <<ut_no_preempt_count[t], "mtx_trylock", Tail(stack[t])>> \in Continuations
    BY <1>2, RowOf
  <2> QED BY <2>1, Rows DEF Entered
<1> QED BY <1>2, <1>4, <1>5, <1>6, SyncPopStep DEF MtxTrylock, waitVars

LEMMA MtxLockLemma ==
    ASSUME TypeInv, NEW l \in LWPs, NEW t \in Threads, MtxLock(l, t)
    PROVE  TypeInv'
<1> DEFINE n == ut_no_preempt_count[t]
           r == Tail(stack[t])
<1>1. SyncTypeOK
  BY DEF TypeInv
<1>2. stack[t] # <<>> /\ Head(stack[t]) = "mtx_lock"
  BY DEF MtxLock, At
<1>3. PICK m \in Mutexes : m = marg[t]
  BY <1>1, <1>2 DEF TypeInv, ArgumentsOK, ArgumentsOf, NeedsMutex, Pending, SyncTypeOK
<1>4. /\ \/ /\ m_owner' = [m_owner EXCEPT ![m] = t]
            /\ crit' = [crit EXCEPT ![t] = @ \cup {m}]
            /\ marg' = [marg EXCEPT ![t] = NoObj]
            /\ NopreemptOff(t) /\ Continue(t, <<>>)
            /\ UNCHANGED <<ut_state, pmut, waitq, swarg>>
         \/ /\ MtxSleep(l, t, m) /\ Continue(t, SleepFrames(t))
            /\ UNCHANGED <<m_owner, crit, marg, ut_no_preempt_count>>
      /\ UNCHANGED <<cpuVars, ut_prio, runqVars, wakee, sparg, newthr, halted, carg>>
  BY <1>3 DEF MtxLock
<1>5. CASE /\ m_owner' = [m_owner EXCEPT ![m] = t]
           /\ crit' = [crit EXCEPT ![t] = @ \cup {m}]
           /\ marg' = [marg EXCEPT ![t] = NoObj]
           /\ NopreemptOff(t) /\ Continue(t, <<>>)
           /\ UNCHANGED <<ut_state, pmut, waitq, swarg>>
  <2>1. /\ waitq' \in [Objs -> Seq(Threads)] /\ m_owner' \in [Mutexes -> Threads \cup {NoThread}]
        /\ crit' \in [Threads -> SUBSET Mutexes]
        /\ marg' \in [Threads -> Mutexes \cup {NoObj}] /\ carg' \in [Threads -> Conds \cup {NoObj}]
        /\ \A u \in Threads \ {t} : marg'[u] = marg[u] /\ carg'[u] = carg[u]
    BY <1>1, <1>4, <1>5 DEF SyncTypeOK, SchedTypes
  <2>2. UNCHANGED <<cpuVars, ut_state, ut_prio, runqVars, pmut, argVars, halted>>
    BY <1>4, <1>5 DEF argVars
  <2> QED BY <1>2, <1>5, <2>1, <2>2, SyncPopStep
<1>6. CASE /\ MtxSleep(l, t, m) /\ Continue(t, SleepFrames(t))
           /\ UNCHANGED <<m_owner, crit, marg, ut_no_preempt_count>>
  <2>1. (n = 1 /\ r = <<>>) \/ (n = 2 /\ r = <<"nopreempt_off">>)
    <3>1. <<n, "mtx_lock", r>> \in Continuations
      BY <1>2, RowOf
    <3> QED BY <3>1, Rows
  <2>2. /\ stack' \in [Threads -> Seq(AllLabels)] /\ stack'[t] # <<>>
        /\ Head(stack'[t]) = "switch" /\ Tail(stack'[t]) = <<"mtx_locked">> \o r
        /\ \A v \in Threads \ {t} : stack'[v] = stack[v]
    <3>1. SleepFrames(t) = <<"switch", "mtx_locked">>
      BY DEF SleepFrames, TypeInv, ThreadsExist
    <3> QED BY <1>2, <1>6, <3>1, AfterContinue, LabelNames
  <2>3. \/ n = 1 /\ Tail(stack'[t]) = <<"mtx_locked">>
        \/ n = 2 /\ Tail(stack'[t]) = <<"mtx_locked", "nopreempt_off">>
    BY <2>1, <2>2, Concats
  <2>4. /\ ut_state' = [ut_state EXCEPT ![t] = "UT_WAIT"]
        /\ swarg' = [swarg EXCEPT ![t] = [queue |-> m, saveonrq |-> FALSE, pmut |-> m]]
        /\ pmut' = [pmut EXCEPT ![m] = l]
        /\ UNCHANGED <<curthr, lwp, ut_prio, ut_no_preempt_count, runq, tq_size, runq_mtx, waitq,
                       wakee, sparg, newthr, halted, m_owner, marg, carg, crit>>
    BY <1>4, <1>6 DEF MtxSleep, cpuVars, runqVars
  <2>5. SyncTypeOK'
    <3>1. m \in Objs
      BY SyncAssumption DEF Objs
    <3> QED BY <1>1, <2>2, <2>4, <3>1 DEF SyncTypeOK, SchedTypes, AllLabels, UtStates
  <2>6. ContinuationOf(t)'
    <3>1. <<1, "switch", <<"mtx_locked">> >> \in Continuations
          /\ <<2, "switch", <<"mtx_locked", "nopreempt_off">> >> \in Continuations
      BY RowIntro
    <3> QED BY <2>2, <2>3, <2>4, <3>1 DEF ContinuationOf
  <2>7. ~Pinned(t)'
    <3>1. Tail(stack'[t]) # <<"nopreempt_off", "wake_unlock">> /\ Tail(stack'[t]) # <<"nopreempt_off">>
      BY <2>3, Literals
    <3> QED BY <2>2, <3>1 DEF Pinned
  <2>8. ArgumentsOf(t)'
    <3>1. ~NeedsNewthr(t)' /\ ~NeedsCond(t)'
      BY <2>2, <2>3, Literals DEF NeedsNewthr, NeedsCond, Pending
    <3>2. marg[t] # NoObj
      BY <1>2 DEF TypeInv, ArgumentsOK, ArgumentsOf, NeedsMutex, Pending
    <3> QED BY <2>2, <2>4, <3>1, <3>2 DEF ArgumentsOf, Pending
  <2> QED BY <1>1, <2>2, <2>4, <2>5, <2>6, <2>7, <2>8, LocalStep DEF Untouched, SyncTypeOK, SchedTypes
<1> QED BY <1>4, <1>5, <1>6

\* An entry point that goes on to wake the oldest waiter of object o.
LEMMA WakeNextStep ==
    ASSUME TypeInv, NEW t \in Threads, NEW o \in Objs, waitq[o] # <<>>,
           stack[t] # <<>>, NEW g \in {"nopreempt_off", "cond_broadcast"},
           Continue(t, <<"wake", g>>), NopreemptOn(t),
           \/ /\ g = "nopreempt_off"
              /\ \/ Head(stack[t]) \in {"mtx_unlock", "cond_signal"} /\ Tail(stack[t]) = <<>>
                 \/ Head(stack[t]) = "mtx_unlock" /\ Tail(stack[t]) = <<"cond_sleep">> /\ UNCHANGED <<marg, carg>>
           \/ /\ g = "cond_broadcast" /\ Head(stack[t]) = "cond_broadcast" /\ Tail(stack[t]) = <<>>
              /\ UNCHANGED <<marg, carg>>,
           waitq' = [waitq EXCEPT ![o] = Tail(@)], wakee' = [wakee EXCEPT ![t] = Head(waitq[o])],
           UNCHANGED <<cpuVars, ut_state, ut_prio, runqVars, pmut, swarg, sparg, newthr, halted>>,
           m_owner' \in [Mutexes -> Threads \cup {NoThread}], crit' \in [Threads -> SUBSET Mutexes],
           marg' \in [Threads -> Mutexes \cup {NoObj}], carg' \in [Threads -> Conds \cup {NoObj}],
           \A u \in Threads \ {t} : marg'[u] = marg[u] /\ carg'[u] = carg[u]
    PROVE  TypeInv'
<1> DEFINE n == ut_no_preempt_count[t]
           f == Head(stack[t])
           r == Tail(stack[t])
<1>1. SyncTypeOK
  BY DEF TypeInv
<1>2. waitq[o] \in Seq(Threads) /\ Head(waitq[o]) \in Threads /\ Tail(waitq[o]) \in Seq(Threads)
  <2>1. waitq[o] \in Seq(Threads)
    BY <1>1 DEF SyncTypeOK, SchedTypes
  <2> QED BY <2>1, PopProperties
<1>3. (n = 1 /\ r = <<>>) \/ (n = 2 /\ r = <<"cond_sleep">>)
  <2>1. <<n, f, r>> \in Continuations /\ f \in {"mtx_unlock", "cond_signal", "cond_broadcast"}
    BY RowOf
  <2> HIDE DEF n, f, r
  <2> QED BY <2>1, Rows DEF Entered
<1>4. /\ stack' \in [Threads -> Seq(AllLabels)] /\ stack'[t] # <<>>
      /\ Head(stack'[t]) = "wake" /\ Tail(stack'[t]) = <<g>> \o r
      /\ \A v \in Threads \ {t} : stack'[v] = stack[v]
  BY AfterContinue, LabelNames
<1>5. /\ ut_no_preempt_count' = [ut_no_preempt_count EXCEPT ![t] = @ + 1]
      /\ UNCHANGED <<curthr, lwp, ut_state, ut_prio, runq, tq_size, runq_mtx, pmut, swarg, sparg, newthr, halted>>
  BY DEF NopreemptOn, cpuVars, runqVars
<1>6. ut_no_preempt_count'[t] = n + 1
  BY <1>1, <1>5 DEF SyncTypeOK, SchedTypes
<1>7. \/ n = 1 /\ r = <<>> /\ Tail(stack'[t]) = <<"nopreempt_off">>
      \/ n = 1 /\ r = <<>> /\ Tail(stack'[t]) = <<"cond_broadcast">> /\ f = "cond_broadcast" /\ UNCHANGED <<marg, carg>>
      \/ n = 2 /\ r = <<"cond_sleep">> /\ Tail(stack'[t]) = <<"nopreempt_off", "cond_sleep">> /\ UNCHANGED <<marg, carg>>
  BY <1>3, <1>4, Concats, Literals
<1>8. SyncTypeOK'
  <2>1. waitq' \in [Objs -> Seq(Threads)] /\ wakee' \in [Threads -> Threads \cup {NoThread}]
    BY <1>1, <1>2 DEF SyncTypeOK, SchedTypes
  <2>2. ut_no_preempt_count' \in [Threads -> Nat]
    BY <1>1, <1>5 DEF SyncTypeOK, SchedTypes
  <2>3. SchedTypes(Labels \cup SyncLabels)'
    BY <1>1, <1>4, <1>5, <2>1, <2>2 DEF SyncTypeOK, SchedTypes, AllLabels
  <2> QED BY <2>3 DEF SyncTypeOK
<1>9. ContinuationOf(t)'
  <2>1. /\ <<2, "wake", <<"nopreempt_off">> >> \in Continuations
        /\ <<2, "wake", <<"cond_broadcast">> >> \in Continuations
        /\ <<3, "wake", <<"nopreempt_off", "cond_sleep">> >> \in Continuations
    BY RowIntro
  <2>2. /\ n = 1 => ut_no_preempt_count'[t] = 2
        /\ n = 2 => ut_no_preempt_count'[t] = 3
    BY <1>6
  <2> HIDE DEF n, r, f
  <2>3. <<ut_no_preempt_count'[t], "wake", Tail(stack'[t])>> \in Continuations
    BY <1>7, <2>1, <2>2
  <2> QED BY <1>4, <2>3 DEF ContinuationOf
<1>10. ~Pinned(t)'
  <2> HIDE DEF n, r, f
  <2>1. Tail(stack'[t]) # <<"nopreempt_off", "wake_unlock">>
    <3>1. Tail(stack'[t]) \in {<<"nopreempt_off">>, <<"cond_broadcast">>, <<"nopreempt_off", "cond_sleep">>}
      BY <1>7
    <3> QED BY <3>1, Literals
  <2> QED BY <1>4, <2>1 DEF Pinned
<1>11. ArgumentsOf(t)'
  <2>1. wakee'[t] # NoThread
    BY <1>1, <1>2, SchedAssumption DEF SyncTypeOK, SchedTypes
  <2>2. ~NeedsNewthr(t)'
    BY <1>4, <1>7, Literals DEF NeedsNewthr, Pending
  <2>3. NeedsMutex(t)' => NeedsMutex(t) /\ UNCHANGED <<marg, carg>>
    BY <1>4, <1>7, Literals DEF NeedsMutex, Pending
  <2>4. NeedsCond(t)' => NeedsCond(t) /\ UNCHANGED <<marg, carg>>
    BY <1>4, <1>7, Literals DEF NeedsCond, Pending
  <2>5. ArgumentsOf(t)
    BY DEF TypeInv, ArgumentsOK
  <2> QED BY <1>4, <2>1, <2>2, <2>3, <2>4, <2>5 DEF ArgumentsOf, Pending
<1> QED BY <1>1, <1>4, <1>5, <1>8, <1>9, <1>10, <1>11, LocalStep DEF Untouched, SyncTypeOK, SchedTypes

LEMMA MtxUnlockLemma ==
    ASSUME TypeInv, NEW l \in LWPs, NEW t \in Threads, MtxUnlock(l, t)
    PROVE  TypeInv'
<1>1. SyncTypeOK
  BY DEF TypeInv
<1>2. stack[t] # <<>> /\ Head(stack[t]) = "mtx_unlock"
  BY DEF MtxUnlock, At
<1>3. PICK m \in Mutexes : m = marg[t]
  BY <1>1, <1>2 DEF TypeInv, ArgumentsOK, ArgumentsOf, NeedsMutex, Pending, SyncTypeOK
<1>4. Tail(stack[t]) = <<>> \/ (Tail(stack[t]) = <<"cond_sleep">> /\ carg[t] # NoObj)
  <2>1. <<ut_no_preempt_count[t], "mtx_unlock", Tail(stack[t])>> \in Continuations
    BY <1>2, RowOf
  <2>2. Tail(stack[t]) = <<>> \/ Tail(stack[t]) = <<"cond_sleep">>
    BY <2>1, Rows
  <2> QED BY <1>2, <2>2 DEF TypeInv, ArgumentsOK, ArgumentsOf, NeedsCond, Pending
<1>5. /\ crit' = [crit EXCEPT ![t] = @ \ {m}]
      /\ marg' = [marg EXCEPT ![t] = IF carg[t] = NoObj THEN NoObj ELSE @]
      /\ UNCHANGED <<cpuVars, ut_state, ut_prio, runqVars, pmut, swarg, sparg, newthr, halted, carg>>
      /\ \/ /\ m_owner' = [m_owner EXCEPT ![m] = NoThread]
            /\ NopreemptOff(t) /\ Continue(t, <<>>)
            /\ UNCHANGED <<waitq, wakee>>
         \/ /\ waitq[m] # <<>> /\ waitq' = [waitq EXCEPT ![m] = Tail(@)] /\ PassOn(t, m)
  BY <1>3 DEF MtxUnlock
<1>6. /\ crit' \in [Threads -> SUBSET Mutexes]
      /\ marg' \in [Threads -> Mutexes \cup {NoObj}] /\ carg' \in [Threads -> Conds \cup {NoObj}]
      /\ \A u \in Threads \ {t} : marg'[u] = marg[u] /\ carg'[u] = carg[u]
      /\ carg[t] # NoObj => UNCHANGED <<marg, carg>>
  BY <1>1, <1>5 DEF SyncTypeOK
<1>7. CASE /\ m_owner' = [m_owner EXCEPT ![m] = NoThread]
           /\ NopreemptOff(t) /\ Continue(t, <<>>)
           /\ UNCHANGED <<waitq, wakee>>
  <2>1. waitq' \in [Objs -> Seq(Threads)] /\ m_owner' \in [Mutexes -> Threads \cup {NoThread}]
    BY <1>1, <1>7 DEF SyncTypeOK, SchedTypes
  <2>2. UNCHANGED <<cpuVars, ut_state, ut_prio, runqVars, pmut, argVars, halted>>
    BY <1>5, <1>7 DEF argVars
  <2> QED BY <1>2, <1>4, <1>6, <1>7, <2>1, <2>2, SyncPopStep
<1>8. CASE waitq[m] # <<>> /\ waitq' = [waitq EXCEPT ![m] = Tail(@)] /\ PassOn(t, m)
  <2>1. m \in Objs /\ "nopreempt_off" \in {"nopreempt_off", "cond_broadcast"}
    BY SyncAssumption DEF Objs
  <2>2. Head(waitq[m]) \in Threads
    <3>1. waitq[m] \in Seq(Threads)
      BY <1>1, <2>1 DEF SyncTypeOK, SchedTypes
    <3> QED BY <1>8, <3>1, PopProperties
  <2>3. m_owner' \in [Mutexes -> Threads \cup {NoThread}]
    BY <1>1, <1>8, <2>2 DEF PassOn, SyncTypeOK
  <2>4. /\ Continue(t, <<"wake", "nopreempt_off">>) /\ NopreemptOn(t)
        /\ wakee' = [wakee EXCEPT ![t] = Head(waitq[m])]
    BY <1>8 DEF PassOn
  <2>5. \/ Tail(stack[t]) = <<>>
        \/ Tail(stack[t]) = <<"cond_sleep">> /\ UNCHANGED <<marg, carg>>
    BY <1>4, <1>6
  <2> QED BY <1>2, <1>5, <1>6, <1>8, <2>1, <2>3, <2>4, <2>5, WakeNextStep
<1> QED BY <1>5, <1>7, <1>8

LEMMA SignalLemma ==
    ASSUME TypeInv, NEW l \in LWPs, NEW t \in Threads, CondSignal(l, t) \/ CondBroadcast(l, t)
    PROVE  TypeInv'
<1>1. SyncTypeOK
  BY DEF TypeInv
<1>2. PICK f \in {"cond_signal", "cond_broadcast"} :
        /\ stack[t] # <<>> /\ Head(stack[t]) = f
        /\ WakeOldest(t, <<"wake", IF f = "cond_signal" THEN "nopreempt_off" ELSE f>>)
        /\ UNCHANGED <<cpuVars, ut_state, ut_prio, runqVars, pmut, swarg, sparg, newthr, halted,
                       m_owner, marg, crit>>
  BY DEF CondSignal, CondBroadcast, At
<1> DEFINE g == IF f = "cond_signal" THEN "nopreempt_off" ELSE f
<1>3. PICK c \in Conds : c = carg[t]
  BY <1>1, <1>2 DEF TypeInv, ArgumentsOK, ArgumentsOf, NeedsCond, Pending, SyncTypeOK
<1>4. Tail(stack[t]) = <<>>
  <2>1. <<ut_no_preempt_count[t], f, Tail(stack[t])>> \in Continuations
    BY <1>2, RowOf
  <2> QED BY <2>1, Rows DEF Entered
<1>5. g \in {"nopreempt_off", "cond_broadcast"} /\ <<"wake", g>>[2] = g
  OBVIOUS
<1>6. \/ /\ NopreemptOff(t) /\ Continue(t, <<>>)
         /\ carg' = [carg EXCEPT ![t] = NoObj] /\ UNCHANGED <<waitq, wakee>>
      \/ /\ waitq[c] # <<>> /\ waitq' = [waitq EXCEPT ![c] = Tail(@)]
         /\ wakee' = [wakee EXCEPT ![t] = Head(waitq[c])]
         /\ NopreemptOn(t) /\ Continue(t, <<"wake", g>>)
         /\ carg' = IF g = "cond_broadcast" THEN carg ELSE [carg EXCEPT ![t] = NoObj]
  BY <1>2, <1>3, <1>5 DEF WakeOldest
<1>7. /\ m_owner' \in [Mutexes -> Threads \cup {NoThread}] /\ crit' \in [Threads -> SUBSET Mutexes]
      /\ marg' \in [Threads -> Mutexes \cup {NoObj}] /\ carg' \in [Threads -> Conds \cup {NoObj}]
      /\ \A u \in Threads \ {t} : marg'[u] = marg[u] /\ carg'[u] = carg[u]
  BY <1>1, <1>2, <1>6 DEF SyncTypeOK
<1>8. CASE /\ NopreemptOff(t) /\ Continue(t, <<>>)
           /\ carg' = [carg EXCEPT ![t] = NoObj] /\ UNCHANGED <<waitq, wakee>>
  <2>1. waitq' \in [Objs -> Seq(Threads)]
    BY <1>1, <1>8 DEF SyncTypeOK, SchedTypes
  <2>2. UNCHANGED <<cpuVars, ut_state, ut_prio, runqVars, pmut, argVars, halted>>
    BY <1>2, <1>8 DEF argVars
  <2> QED BY <1>2, <1>4, <1>7, <1>8, <2>1, <2>2, SyncPopStep
<1>9. CASE /\ waitq[c] # <<>> /\ waitq' = [waitq EXCEPT ![c] = Tail(@)]
           /\ wakee' = [wakee EXCEPT ![t] = Head(waitq[c])]
           /\ NopreemptOn(t) /\ Continue(t, <<"wake", g>>)
           /\ carg' = IF g = "cond_broadcast" THEN carg ELSE [carg EXCEPT ![t] = NoObj]
  <2>1. c \in Objs
    BY SyncAssumption DEF Objs
  <2>2. \/ g = "nopreempt_off" /\ Head(stack[t]) \in {"mtx_unlock", "cond_signal"}
        \/ g = "cond_broadcast" /\ Head(stack[t]) = "cond_broadcast" /\ UNCHANGED <<marg, carg>>
    BY <1>2, <1>9
  <2> HIDE DEF g
  <2> QED BY <1>2, <1>4, <1>5, <1>7, <1>9, <2>1, <2>2, WakeNextStep
<1> QED BY <1>6, <1>8, <1>9

LEMMA CondWaitLemma ==
    ASSUME TypeInv, NEW l \in LWPs, NEW t \in Threads, CondWait(l, t)
    PROVE  TypeInv'
<1>1. SyncTypeOK
  BY DEF TypeInv
<1>2. stack[t] # <<>> /\ Head(stack[t]) = "cond_wait"
  BY DEF CondWait, At
<1>3. ut_no_preempt_count[t] = 1 /\ Tail(stack[t]) = <<>>
  <2>1. <<ut_no_preempt_count[t], "cond_wait", Tail(stack[t])>> \in Continuations
    BY <1>2, RowOf
  <2> QED BY <2>1, Rows DEF Entered
<1>4. /\ stack' \in [Threads -> Seq(AllLabels)] /\ stack'[t] # <<>>
      /\ Head(stack'[t]) = "mtx_unlock" /\ Tail(stack'[t]) = <<"cond_sleep">>
      /\ \A v \in Threads \ {t} : stack'[v] = stack[v]
  BY <1>2, <1>3, AfterContinue, LabelNames, Concats DEF CondWait
<1>5. /\ pmut' = [pmut EXCEPT ![carg[t]] = l]
      /\ ut_no_preempt_count' = [ut_no_preempt_count EXCEPT ![t] = @ + 1]
      /\ UNCHANGED <<curthr, lwp, ut_state, ut_prio, runq, tq_size, runq_mtx, waitq, swarg, wakee,
                     sparg, newthr, halted, m_owner, marg, carg, crit>>
  BY DEF CondWait, NopreemptOn, cpuVars, runqVars, argVars, mtxVars
<1>6. SyncTypeOK'
  <2>0. ut_no_preempt_count \in [Threads -> Nat] /\ pmut \in [Objs -> LWPs \cup {NoLwp}]
    BY <1>1 DEF SyncTypeOK, SchedTypes
  <2>1. /\ ut_no_preempt_count' \in [Threads -> Nat]
        /\ pmut' \in [Objs -> LWPs \cup {NoLwp}]
    <3>1. ut_no_preempt_count' \in [Threads -> Nat]
      BY <1>5, <2>0
    <3>2. pmut' = [pmut EXCEPT ![carg[t]] = l]
      BY <1>5
    <3>3. pmut' \in [Objs -> LWPs \cup {NoLwp}]
      BY <2>0, <3>2
    <3> QED BY <3>1, <3>3
  <2> QED BY <1>1, <1>4, <1>5, <2>1 DEF SyncTypeOK, SchedTypes, AllLabels
<1>7. ut_no_preempt_count'[t] = 2
  BY <1>1, <1>3, <1>5 DEF SyncTypeOK, SchedTypes
<1>8. ContinuationOf(t)'
  <2>1. <<2, "mtx_unlock", <<"cond_sleep">> >> \in Continuations
    BY RowIntro
  <2> QED BY <1>4, <1>7, <2>1 DEF ContinuationOf
<1>9. ~Pinned(t)'
  BY <1>4, Literals DEF Pinned
<1>10. ArgumentsOf(t)'
  <2>1. ~NeedsNewthr(t)'
    BY <1>4, Literals DEF NeedsNewthr, Pending
  <2>2. NeedsMutex(t) /\ NeedsCond(t)
    BY <1>2 DEF NeedsMutex, NeedsCond, Pending
  <2> QED BY <1>4, <1>5, <2>1, <2>2 DEF ArgumentsOf, Pending, TypeInv, ArgumentsOK
<1> QED BY <1>1, <1>4, <1>5, <1>6, <1>8, <1>9, <1>10, LocalStep DEF Untouched, SyncTypeOK, SchedTypes

LEMMA CondSleepLemma ==
    ASSUME TypeInv, NEW l \in LWPs, NEW t \in Threads, CondSleep(l, t)
    PROVE  TypeInv'
<1>1. SyncTypeOK
  BY DEF TypeInv
<1>2. stack[t] # <<>> /\ Head(stack[t]) = "cond_sleep"
  BY DEF CondSleep, At
<1>3. ut_no_preempt_count[t] = 1 /\ Tail(stack[t]) = <<>>
  <2>1. <<ut_no_preempt_count[t], "cond_sleep", Tail(stack[t])>> \in Continuations
    BY <1>2, RowOf
  <2> QED BY <2>1, Rows DEF Entered
<1>4. /\ stack' \in [Threads -> Seq(AllLabels)] /\ stack'[t] # <<>>
      /\ Head(stack'[t]) = "switch" /\ Tail(stack'[t]) = <<"cond_relock">>
      /\ \A v \in Threads \ {t} : stack'[v] = stack[v]
  BY <1>2, <1>3, AfterContinue, LabelNames, Concats DEF CondSleep
<1>5. /\ ut_state' = [ut_state EXCEPT ![t] = "UT_WAIT"]
      /\ swarg' = [swarg EXCEPT ![t] = [queue |-> carg[t], saveonrq |-> FALSE, pmut |-> carg[t]]]
      /\ UNCHANGED <<curthr, lwp, ut_prio, ut_no_preempt_count, runq, tq_size, runq_mtx, waitq, pmut,
                     wakee, sparg, newthr, halted, m_owner, marg, carg, crit>>
  BY DEF CondSleep, cpuVars, runqVars, waitVars, mtxVars
<1>6. SyncTypeOK'
  <2>1. carg[t] \in Objs \cup {NoObj}
    BY <1>1, SyncAssumption DEF SyncTypeOK, Objs
  <2> QED BY <1>1, <1>4, <1>5, <2>1 DEF SyncTypeOK, SchedTypes, AllLabels, UtStates
<1>7. ContinuationOf(t)'
  <2>1. <<1, "switch", <<"cond_relock">> >> \in Continuations
    BY RowIntro
  <2> QED BY <1>3, <1>4, <1>5, <2>1 DEF ContinuationOf
<1>8. ~Pinned(t)'
  BY <1>4, Literals DEF Pinned
<1>9. ArgumentsOf(t)'
  <2>1. ~NeedsNewthr(t)'
    BY <1>4, Literals DEF NeedsNewthr, Pending
  <2>2. NeedsMutex(t) /\ NeedsCond(t)
    BY <1>2 DEF NeedsMutex, NeedsCond, Pending
  <2> QED BY <1>4, <1>5, <2>1, <2>2 DEF ArgumentsOf, Pending, TypeInv, ArgumentsOK
<1> QED BY <1>1, <1>4, <1>5, <1>6, <1>7, <1>8, <1>9, LocalStep DEF Untouched, SyncTypeOK, SchedTypes

LEMMA CondRelockLemma ==
    ASSUME TypeInv, NEW l \in LWPs, NEW t \in Threads, CondRelock(l, t)
    PROVE  TypeInv'
<1>1. SyncTypeOK
  BY DEF TypeInv
<1>2. stack[t] # <<>> /\ Head(stack[t]) = "cond_relock"
  BY DEF CondRelock, At
<1>3. ut_no_preempt_count[t] = 1 /\ Tail(stack[t]) = <<>>
  <2>1. <<ut_no_preempt_count[t], "cond_relock", Tail(stack[t])>> \in Continuations
    BY <1>2, RowOf
  <2> QED BY <2>1, Rows DEF Entered
<1>4. /\ stack' \in [Threads -> Seq(AllLabels)] /\ stack'[t] # <<>>
      /\ Head(stack'[t]) = "mtx_lock" /\ Tail(stack'[t]) = <<"nopreempt_off">>
      /\ \A v \in Threads \ {t} : stack'[v] = stack[v]
  BY <1>2, <1>3, AfterContinue, LabelNames, Concats DEF CondRelock
<1>5. /\ ut_no_preempt_count' = [ut_no_preempt_count EXCEPT ![t] = @ + 1]
      /\ carg' = [carg EXCEPT ![t] = NoObj]
      /\ UNCHANGED <<curthr, lwp, ut_state, ut_prio, runq, tq_size, runq_mtx, waitq, pmut, swarg, wakee,
                     sparg, newthr, halted, m_owner, marg, crit>>
  BY DEF CondRelock, NopreemptOn, cpuVars, runqVars, waitVars, argVars
<1>6. SyncTypeOK'
  BY <1>1, <1>4, <1>5 DEF SyncTypeOK, SchedTypes, AllLabels
<1>7. ut_no_preempt_count'[t] = 2
  BY <1>1, <1>3, <1>5 DEF SyncTypeOK, SchedTypes
<1>8. ContinuationOf(t)'
  <2>1. <<2, "mtx_lock", <<"nopreempt_off">> >> \in Continuations
    BY RowIntro
  <2> QED BY <1>4, <1>7, <2>1 DEF ContinuationOf
<1>9. ~Pinned(t)'
  BY <1>4, Literals DEF Pinned
<1>10. ArgumentsOf(t)'
  <2>1. ~NeedsNewthr(t)' /\ ~NeedsCond(t)'
    BY <1>4, Literals DEF NeedsNewthr, NeedsCond, Pending
  <2>2. NeedsMutex(t)
    BY <1>2 DEF NeedsMutex, Pending
  <2> QED BY <1>4, <1>5, <2>1, <2>2 DEF ArgumentsOf, Pending, TypeInv, ArgumentsOK
<1> QED BY <1>1, <1>4, <1>5, <1>6, <1>8, <1>9, <1>10, LocalStep DEF Untouched, SyncTypeOK, SchedTypes

-----------------------------------------------------------------------------
LEMMA TypeInvInit == SyncInit => TypeInv
<1> SUFFICES ASSUME SyncInit PROVE TypeInv
  OBVIOUS
<1> USE SchedAssumption DEF SyncInit, SchedInit, MtxInit
<1>0. Boot \in Seq(Threads) /\ MaxPrio \in Nat
  OBVIOUS
<1>1. SyncTypeOK
  <2>1. /\ curthr \in [LWPs -> Threads \cup {NoThread}]
        /\ lwp \in [LWPs -> {"unborn", "running", "parked", "signalled"}]
        /\ ut_state \in [Threads -> UtStates]
        /\ ut_prio \in [Threads -> Prios \cup {-1}]
        /\ ut_no_preempt_count \in [Threads -> Nat]
    BY DEF UtStates, Prios
  <2>2. runq \in [Prios -> Seq(Threads)] /\ tq_size \in [Prios -> Int]
    BY DEF Prios
  <2>3. stack \in [Threads -> Seq(Labels \cup SyncLabels)]
    <3>1. <<"nopreempt_off">> \in Seq(Labels \cup SyncLabels) /\ <<>> \in Seq(Labels \cup SyncLabels)
      BY DEF Labels
    <3> QED BY <3>1
  <2>4. /\ swarg \in [Threads -> [queue : Objs \cup {NoObj}, saveonrq : BOOLEAN, pmut : Objs \cup {NoObj}]]
        /\ wakee \in [Threads -> Threads \cup {NoThread}]
        /\ newthr \in [Threads -> Threads \cup {NoThread}]
    BY DEF NoSwitch
  <2>5. sparg \in [Threads -> [thr : Threads \cup {NoThread}, prio : Prios, old : Prios \cup {-1}]]
    BY DEF NoSetprio, Prios
  <2>6. /\ waitq \in [Objs -> Seq(Threads)] /\ pmut \in [Objs -> LWPs \cup {NoLwp}]
        /\ runq_mtx \in LWPs \cup {NoLwp} /\ halted = "none"
    OBVIOUS
  <2>7. /\ m_owner \in [Mutexes -> Threads \cup {NoThread}]
        /\ marg \in [Threads -> Mutexes \cup {NoObj}]
        /\ carg \in [Threads -> Conds \cup {NoObj}]
        /\ crit \in [Threads -> SUBSET Mutexes]
    OBVIOUS
  <2> QED BY <2>1, <2>2, <2>3, <2>4, <2>5, <2>6, <2>7 DEF SyncTypeOK, SchedTypes
<1>2. ASSUME NEW t \in Threads
      PROVE  \/ ut_no_preempt_count[t] = 0 /\ stack[t] = <<>>
             \/ ut_no_preempt_count[t] = 1 /\ stack[t] = <<"nopreempt_off">>
  BY <1>2
<1>3. ASSUME NEW t \in Threads
      PROVE  \/ ut_no_preempt_count[t] = 0 /\ stack[t] = <<>>
             \/ /\ ut_no_preempt_count[t] = 1 /\ stack[t] # <<>>
                /\ Head(stack[t]) = "nopreempt_off" /\ Tail(stack[t]) = <<>>
  BY <1>2, <1>3, Literals
<1>4. ContinuationOK
  <2>1. <<1, "nopreempt_off", <<>> >> \in Continuations
    BY RowIntro DEF Entered
  <2> QED BY <1>3, <2>1 DEF ContinuationOK, ContinuationOf
<1>5. PinnedToHolder
  BY <1>3, Literals DEF PinnedToHolder, Pinned
<1>6. ArgumentsOK
  <2>1. ASSUME NEW t \in Threads
        PROVE  ~NeedsNewthr(t) /\ ~NeedsMutex(t) /\ ~NeedsCond(t)
    BY <1>3, <2>1, Literals DEF NeedsNewthr, NeedsMutex, NeedsCond, Pending
  <2> QED BY <1>3, <2>1 DEF ArgumentsOK, ArgumentsOf, Pending
<1>7. ThreadsExist
  BY DEF ThreadsExist, Running
<1> QED BY <1>1, <1>4, <1>5, <1>6, <1>7 DEF TypeInv

LEMMA TypeInvNext == TypeInv /\ [SyncNext]_syncVars => TypeInv'
<1> SUFFICES ASSUME TypeInv, [SyncNext]_syncVars PROVE TypeInv'
  OBVIOUS
<1>1. CASE UNCHANGED syncVars
  <2>1. UNCHANGED <<curthr, lwp, ut_state, ut_prio, ut_no_preempt_count, runq, tq_size, runq_mtx,
                    waitq, pmut, stack, swarg, wakee, sparg, newthr, halted, m_owner, marg, carg, crit>>
    BY <1>1 DEF syncVars, schedVars, mtxVars, cpuVars, thrVars, runqVars, waitVars, argVars
  <2>2. SyncTypeOK'
    BY <2>1 DEF TypeInv, SyncTypeOK, SchedTypes
  <2>3. ContinuationOK' /\ ArgumentsOK' /\ PinnedToHolder' /\ ThreadsExist'
    BY <2>1 DEF TypeInv, ContinuationOK, ContinuationOf, ArgumentsOK, ArgumentsOf, NeedsNewthr, NeedsMutex,
                NeedsCond, Pending, PinnedToHolder, Pinned, OnHolder, Running, ThreadsExist
  <2> QED BY <2>2, <2>3 DEF TypeInv
<1>2. ASSUME NEW l \in LWPs, LwpStep(l), UNCHANGED mtxVars
      PROVE  TypeInv'
  BY <1>2, LwpLemma
<1>3. ASSUME NEW l \in LWPs, NEW t \in Threads, LibraryStep(l, t), UNCHANGED mtxVars
      PROVE  TypeInv'
  BY <1>3, SwitchLemma, SwitchAbortsLemma, ReturnLemma, YieldLockLemma, WakeLemma, WakeUnlockLemma,
     SetprioWriteLemma, SetprioLockLemma, AllocClaimLemma, CreateInitLemma, AllocStackFailsLemma,
     StartOnRunqLemma DEF LibraryStep
<1>4. ASSUME NEW l \in LWPs, NEW t \in Threads, ClientStep(l, t) \/ ClockInterrupt(l, t), UNCHANGED mtxVars
      PROVE  TypeInv'
  BY <1>4, YieldLemma, BlockLemma, ClientWakeLemma, AllocScanLemma, SetprioReadLemma DEF ClientStep
<1>5. ASSUME NEW l \in LWPs, NEW t \in Threads, SyncLibraryStep(l, t)
      PROVE  TypeInv'
  BY <1>5, MtxLockLemma, MtxLockedLemma, MtxTrylockLemma, MtxUnlockLemma, CondWaitLemma, CondSleepLemma,
     CondRelockLemma, SignalLemma DEF SyncLibraryStep
<1>6. ASSUME NEW l \in LWPs, NEW t \in Threads, SyncClientStep(l, t)
      PROVE  TypeInv'
  BY <1>6, SyncClientLemma
<1> QED BY <1>1, <1>2, <1>3, <1>4, <1>5, <1>6 DEF SyncNext, SchedNext

\* Whatever the clients call, every variable keeps its type: in particular no
\* preemption count goes below zero, no thread switches to a NULL thread and
\* no queue holds one.
THEOREM TypeCorrect == SyncSpec => []SyncTypeOK
<1>1. SyncInit => TypeInv
  BY TypeInvInit
<1>2. TypeInv /\ [SyncNext]_syncVars => TypeInv'
  BY TypeInvNext
<1>3. TypeInv => SyncTypeOK
  BY DEF TypeInv
<1> QED BY <1>1, <1>2, <1>3, PTL DEF SyncSpec

\* What PlaceInv adds to TypeInv.
Places == OneLwp /\ RunqOK /\ WaitqOK /\ WakeeOK /\ SleeperOK /\ NewbornOK

PlaceTypes ==
    /\ curthr \in [LWPs -> Threads \cup {NoThread}]
    /\ ut_state \in [Threads -> UtStates]
    /\ runq \in [Prios -> Seq(Threads)]
    /\ waitq \in [Objs -> Seq(Threads)]
    /\ swarg \in [Threads -> [queue : Objs \cup {NoObj}, saveonrq : BOOLEAN, pmut : Objs \cup {NoObj}]]
    /\ wakee \in [Threads -> Threads \cup {NoThread}]
    /\ newthr \in [Threads -> Threads \cup {NoThread}]
    /\ stack \in [Threads -> Seq(AllLabels)]

LEMMA TypesOf ==
    ASSUME TypeInv
    PROVE  PlaceTypes /\ NoThread \notin Threads /\ NoObj \notin Objs
  BY SchedAssumption DEF TypeInv, SyncTypeOK, SchedTypes, PlaceTypes, AllLabels

LEMMA TypesNext == TypeInv' => PlaceTypes'
  BY DEF TypeInv, SyncTypeOK, SchedTypes, PlaceTypes, AllLabels

-----------------------------------------------------------------------------
(* Families of queues that hold every thread once.                         *)

\* The queues f[p], p in D, hold members of S, each of them once.
Distinct(D, f, S) ==
    \A p \in D : \A i \in 1..Len(f[p]) :
        /\ f[p][i] \in S
        /\ \A q \in D : \A j \in 1..Len(f[q]) : f[p][i] = f[q][j] => p = q /\ i = j

\* A thread that is on no queue is appended to one.
LEMMA DistinctAppend ==
    ASSUME NEW D, NEW f \in [D -> Seq(Threads)], NEW S, NEW p, NEW u \in Threads,
           Distinct(D, f, S), \A q \in D : \A i \in 1..Len(f[q]) : f[q][i] # u
    PROVE  Distinct(D, [f EXCEPT ![p] = Append(@, u)], S \cup {u})
<1> DEFINE g == [f EXCEPT ![p] = Append(@, u)]
<1>1. ASSUME NEW q \in D, NEW i \in 1..Len(g[q])
      PROVE  \/ q = p /\ i = Len(f[q]) + 1 /\ g[q][i] = u
             \/ i \in 1..Len(f[q]) /\ g[q][i] = f[q][i]
  <2>1. CASE q = p
    BY <1>1, <2>1
  <2>2. CASE q # p
    BY <1>1, <2>2
  <2> QED BY <2>1, <2>2
<1> HIDE DEF g
<1>2. SUFFICES ASSUME NEW q \in D, NEW i \in 1..Len(g[q])
               PROVE  /\ g[q][i] \in S \cup {u}
                      /\ \A r \in D : \A j \in 1..Len(g[r]) : g[q][i] = g[r][j] => q = r /\ i = j
  BY DEF Distinct, g
<1>3. g[q][i] \in S \cup {u}
  BY <1>1 DEF Distinct
<1>4. ASSUME NEW r \in D, NEW j \in 1..Len(g[r]), g[q][i] = g[r][j]
      PROVE  q = r /\ i = j
  <2>1. \/ q = p /\ i = Len(f[q]) + 1 /\ g[q][i] = u
        \/ i \in 1..Len(f[q]) /\ g[q][i] = f[q][i]
    BY <1>1
  <2>2. \/ r = p /\ j = Len(f[r]) + 1 /\ g[r][j] = u
        \/ j \in 1..Len(f[r]) /\ g[r][j] = f[r][j]
    BY <1>1
  <2> QED BY <1>4, <2>1, <2>2 DEF Distinct
<1> QED BY <1>3, <1>4

LEMMA RemoveAtElements ==
    ASSUME NEW s \in Seq(Threads), NEW k \in 1..Len(s), NEW i \in 1..Len(RemoveAt(s, k))
    PROVE  /\ i < k => i \in 1..Len(s) /\ RemoveAt(s, k)[i] = s[i]
           /\ i >= k => i + 1 \in 1..Len(s) /\ RemoveAt(s, k)[i] = s[i + 1]
<1>1. Len(s) \in Nat /\ k \in Nat
  OBVIOUS
<1>2. /\ SubSeq(s, 1, k - 1) \in Seq(Threads) /\ Len(SubSeq(s, 1, k - 1)) = k - 1
      /\ \A j \in 1..(k - 1) : SubSeq(s, 1, k - 1)[j] = s[j]
  BY <1>1
<1>3. /\ SubSeq(s, k + 1, Len(s)) \in Seq(Threads) /\ Len(SubSeq(s, k + 1, Len(s))) = Len(s) - k
      /\ \A j \in 1..(Len(s) - k) : SubSeq(s, k + 1, Len(s))[j] = s[k + j]
  BY <1>1
<1> DEFINE a == SubSeq(s, 1, k - 1)
           b == SubSeq(s, k + 1, Len(s))
<1>4. RemoveAt(s, k) = a \o b
  BY DEF RemoveAt
<1> HIDE DEF a, b
<1>5. /\ a \in Seq(Threads) /\ Len(a) = k - 1 /\ \A j \in 1..(k - 1) : a[j] = s[j]
      /\ b \in Seq(Threads) /\ Len(b) = Len(s) - k /\ \A j \in 1..(Len(s) - k) : b[j] = s[k + j]
  BY <1>2, <1>3 DEF a, b
<1>6. Len(a \o b) = Len(s) - 1 /\ i \in 1..(Len(s) - 1)
  <2>1. Len(a \o b) = Len(a) + Len(b)
    BY <1>5, ConcatProperties
  <2>2. Len(a) + Len(b) = Len(s) - 1
    BY <1>1, <1>5
  <2> QED BY <1>4, <2>1, <2>2
<1>7. CASE i < k
  <2>1. (a \o b)[i] = a[i]
    BY <1>1, <1>5, <1>6, <1>7
  <2> QED BY <1>1, <1>4, <1>5, <1>6, <1>7, <2>1
<1>8. CASE i >= k
  <2>1. (a \o b)[i] = b[i - (k - 1)]
    BY <1>1, <1>5, <1>6, <1>8
  <2>2. i - (k - 1) \in 1..(Len(s) - k) /\ k + (i - (k - 1)) = i + 1
    BY <1>1, <1>6, <1>8
  <2>3. b[i - (k - 1)] = s[k + (i - (k - 1))]
    BY <1>5, <2>2
  <2> QED BY <1>1, <1>4, <1>6, <1>8, <2>1, <2>2, <2>3
<1> QED BY <1>1, <1>6, <1>7, <1>8

\* A thread is taken off its queue.
LEMMA DistinctRemove ==
    ASSUME NEW D, NEW f \in [D -> Seq(Threads)], NEW S, NEW p \in D, NEW k \in 1..Len(f[p]),
           Distinct(D, f, S)
    PROVE  Distinct(D, [f EXCEPT ![p] = RemoveAt(@, k)], S \ {f[p][k]})
<1> DEFINE g == [f EXCEPT ![p] = RemoveAt(@, k)]
           old(q, i) == IF q = p /\ i >= k THEN i + 1 ELSE i
<1>1. ASSUME NEW q \in D, NEW i \in 1..Len(g[q])
      PROVE  /\ old(q, i) \in 1..Len(f[q]) /\ g[q][i] = f[q][old(q, i)]
             /\ ~(q = p /\ old(q, i) = k) /\ i \in Int
  <2>1. CASE q = p
    <3>1. g[q] = RemoveAt(f[p], k) /\ f[p] \in Seq(Threads)
      BY <2>1
    <3>2. /\ i < k => i \in 1..Len(f[p]) /\ g[q][i] = f[p][i]
          /\ i >= k => i + 1 \in 1..Len(f[p]) /\ g[q][i] = f[p][i + 1]
      BY <1>1, <3>1, RemoveAtElements
    <3>3. i \in Int /\ k \in Int
      BY <1>1
    <3> QED BY <2>1, <3>2, <3>3
  <2>2. CASE q # p
    BY <1>1, <2>2
  <2> QED BY <2>1, <2>2
<1>2. ASSUME NEW q \in D, NEW i \in Int, NEW j \in Int, old(q, i) = old(q, j)
      PROVE  i = j
  <2>1. k \in Int
    OBVIOUS
  <2> QED BY <1>2, <2>1
<1> HIDE DEF g, old
<1>3. SUFFICES ASSUME NEW q \in D, NEW i \in 1..Len(g[q])
               PROVE  /\ g[q][i] \in S \ {f[p][k]}
                      /\ \A r \in D : \A j \in 1..Len(g[r]) : g[q][i] = g[r][j] => q = r /\ i = j
  BY DEF Distinct, g
<1>4. g[q][i] \in S \ {f[p][k]}
  BY <1>1 DEF Distinct
<1>5. ASSUME NEW r \in D, NEW j \in 1..Len(g[r]), g[q][i] = g[r][j]
      PROVE  q = r /\ i = j
  <2>1. PICK x, y : x = old(q, i) /\ y = old(r, j)
    OBVIOUS
  <2>2. x \in 1..Len(f[q]) /\ y \in 1..Len(f[r]) /\ f[q][x] = f[r][y]
    BY <1>1, <1>5, <2>1
  <2>3. q = r /\ old(q, i) = old(r, j)
    BY <2>1, <2>2 DEF Distinct
  <2> QED BY <1>1, <1>2, <2>3
<1> QED BY <1>4, <1>5

\* The first thread of a queue leaves it.
LEMMA DistinctTail ==
    ASSUME NEW D, NEW f \in [D -> Seq(Threads)], NEW S, NEW p \in D, f[p] # <<>>,
           Distinct(D, f, S)
    PROVE  /\ Distinct(D, [f EXCEPT ![p] = Tail(@)], S \ {Head(f[p])})
           /\ Head(f[p]) \in S
<1> DEFINE g == [f EXCEPT ![p] = Tail(@)]
           old(q, i) == IF q = p THEN i + 1 ELSE i
<1>0. 1 \in 1..Len(f[p]) /\ Head(f[p]) = f[p][1]
  OBVIOUS
<1>1. ASSUME NEW q \in D, NEW i \in 1..Len(g[q])
      PROVE  /\ old(q, i) \in 1..Len(f[q]) /\ g[q][i] = f[q][old(q, i)]
             /\ ~(q = p /\ old(q, i) = 1) /\ i \in Int
  <2>1. CASE q = p
    BY <1>1, <2>1
  <2>2. CASE q # p
    BY <1>1, <2>2
  <2> QED BY <2>1, <2>2
<1>2. ASSUME NEW q \in D, NEW i \in Int, NEW j \in Int, old(q, i) = old(q, j)
      PROVE  i = j
  BY <1>2
<1> HIDE DEF g, old
<1>3. SUFFICES ASSUME NEW q \in D, NEW i \in 1..Len(g[q])
               PROVE  /\ g[q][i] \in S \ {Head(f[p])}
                      /\ \A r \in D : \A j \in 1..Len(g[r]) : g[q][i] = g[r][j] => q = r /\ i = j
  BY <1>0 DEF Distinct, g
<1>4. g[q][i] \in S \ {Head(f[p])}
  BY <1>0, <1>1 DEF Distinct
<1>5. ASSUME NEW r \in D, NEW j \in 1..Len(g[r]), g[q][i] = g[r][j]
      PROVE  q = r /\ i = j
  <2>1. PICK x, y : x = old(q, i) /\ y = old(r, j)
    OBVIOUS
  <2>2. x \in 1..Len(f[q]) /\ y \in 1..Len(f[r]) /\ f[q][x] = f[r][y]
    BY <1>1, <1>5, <2>1
  <2>3. q = r /\ old(q, i) = old(r, j)
    BY <2>1, <2>2 DEF Distinct
  <2> QED BY <1>1, <1>2, <2>3
<1> QED BY <1>4, <1>5

-----------------------------------------------------------------------------
(* Places in terms of Distinct.                                            *)

OffLwps(s) == {u \in Threads : ut_state[u] = s /\ OnNoLwp(u)}

LEMMA PlacesDistinct ==
    /\ RunqOK /\ PlaceTypes => Distinct(Prios, runq, OffLwps("UT_RUNNABLE"))
    /\ WaitqOK /\ PlaceTypes => Distinct(Objs, waitq, OffLwps("UT_WAIT"))
    /\ Distinct(Prios, runq, OffLwps("UT_RUNNABLE")) => RunqOK
    /\ Distinct(Objs, waitq, OffLwps("UT_WAIT")) => WaitqOK
<1>1. ASSUME RunqOK, PlaceTypes PROVE Distinct(Prios, runq, OffLwps("UT_RUNNABLE"))
  BY <1>1 DEF RunqOK, PlaceTypes, Distinct, OffLwps
<1>2. ASSUME WaitqOK, PlaceTypes PROVE Distinct(Objs, waitq, OffLwps("UT_WAIT"))
  BY <1>2 DEF WaitqOK, PlaceTypes, Distinct, OffLwps
<1>3. Distinct(Prios, runq, OffLwps("UT_RUNNABLE")) => RunqOK
  BY DEF RunqOK, Distinct, OffLwps
<1>4. Distinct(Objs, waitq, OffLwps("UT_WAIT")) => WaitqOK
  BY DEF WaitqOK, Distinct, OffLwps
<1> QED BY <1>1, <1>2, <1>3, <1>4

LEMMA PlacesDistinctNext ==
    /\ Distinct(Prios, runq', OffLwps("UT_RUNNABLE")') => RunqOK'
    /\ Distinct(Objs, waitq', OffLwps("UT_WAIT")') => WaitqOK'
<1>3. Distinct(Prios, runq', OffLwps("UT_RUNNABLE")') => RunqOK'
  BY DEF RunqOK, Distinct, OffLwps
<1>4. Distinct(Objs, waitq', OffLwps("UT_WAIT")') => WaitqOK'
  BY DEF WaitqOK, Distinct, OffLwps
<1> QED BY <1>3, <1>4

-----------------------------------------------------------------------------
(* A step of thread t that puts no thread on another LWP or in a queue of  *)
(* another kind.                                                           *)

LEMMA Stay ==
    ASSUME PlaceInv, PlaceTypes', NEW l \in LWPs, NEW t \in Threads, Running(l, t),
           UNCHANGED <<curthr, wakee>>,
           UNCHANGED runq \/ Distinct(Prios, runq', OffLwps("UT_RUNNABLE")),
           \A o \in Objs : waitq'[o] \in {waitq[o], <<>>},
           \A v \in Threads \ {t} :
              /\ \/ ut_state'[v] = ut_state[v]
                 \/ ut_state[v] \in {"UT_NO_STATE", "UT_TRANSITION"} /\ ut_state'[v] = "UT_TRANSITION"
              /\ swarg'[v] = swarg[v]
              /\ stack'[v] = stack[v] \/ swarg[v].queue = NoObj,
           ut_state'[t] \notin {"UT_NO_STATE", "UT_TRANSITION"},
           swarg'[t].queue # NoObj =>
              ut_state'[t] = "UT_WAIT" /\ stack'[t] # <<>> /\ Head(stack'[t]) = "switch",
           \A v \in Threads :
              \/ newthr'[v] \in {newthr[v], NoThread}
              \/ v \in Creators /\ newthr'[v] \in Threads /\ ut_state[newthr'[v]] = "UT_NO_STATE"
    PROVE  Places'
<1>0. TypeInv /\ PlaceTypes /\ NoThread \notin Threads
  BY TypesOf DEF PlaceInv
<1>1. ut_state[t] \notin {"UT_NO_STATE", "UT_TRANSITION"}
  BY DEF PlaceInv, TypeInv, ThreadsExist, NewbornOK
<1>2. ASSUME NEW v \in Threads, OnNoLwp(v)
      PROVE  /\ OnNoLwp(v)'
             /\ ut_state[v] \in {"UT_RUNNABLE", "UT_WAIT"} => ut_state'[v] = ut_state[v]
  <2>1. v # t
    BY <1>2 DEF OnNoLwp, Running
  <2> QED BY <1>2, <2>1 DEF OnNoLwp
<1>3. OneLwp'
  BY DEF PlaceInv, OneLwp
<1>4. RunqOK'
  <2>1. CASE UNCHANGED runq
    BY <1>0, <1>2, <2>1 DEF PlaceInv, RunqOK, PlaceTypes
  <2>2. CASE Distinct(Prios, runq', OffLwps("UT_RUNNABLE"))
    <3>1. \A v \in OffLwps("UT_RUNNABLE") : v \in OffLwps("UT_RUNNABLE")'
      BY <1>2 DEF OffLwps
    <3>2. Distinct(Prios, runq', OffLwps("UT_RUNNABLE")')
      BY <2>2, <3>1 DEF Distinct
    <3> QED BY <3>2, PlacesDistinctNext
  <2> QED BY <2>1, <2>2
<1>5. WaitqOK'
  <2>1. \A o \in Objs : \A i \in 1..Len(waitq'[o]) : i \in 1..Len(waitq[o]) /\ waitq'[o][i] = waitq[o][i]
    OBVIOUS
  <2> QED BY <1>0, <1>2, <2>1 DEF PlaceInv, WaitqOK, PlaceTypes
<1>6. WakeeOK'
  <2>1. \A o \in Objs : \A i \in 1..Len(waitq'[o]) : i \in 1..Len(waitq[o]) /\ waitq'[o][i] = waitq[o][i]
    OBVIOUS
  <2>2. \A v \in Threads : wakee[v] # NoThread => wakee[v] \in Threads
    BY <1>0 DEF PlaceTypes
  <2> QED BY <1>2, <2>1, <2>2 DEF PlaceInv, WakeeOK
<1>7. SleeperOK'
  <2>1. SUFFICES ASSUME NEW v \in Threads \ {t}, swarg'[v].queue # NoObj
                 PROVE  /\ ut_state'[v] = "UT_WAIT" /\ \E k \in LWPs : Running(k, v)'
                        /\ stack'[v] # <<>> /\ Head(stack'[v]) = "switch"
    BY DEF SleeperOK, Running
  <2>2. /\ ut_state[v] = "UT_WAIT" /\ \E k \in LWPs : Running(k, v)
        /\ stack[v] # <<>> /\ Head(stack[v]) = "switch"
    BY <2>1 DEF PlaceInv, SleeperOK
  <2> QED BY <2>1, <2>2 DEF Running
<1>8. NewbornOK'
  <2>1. ASSUME NEW v \in Threads, newthr'[v] # NoThread
        PROVE  v \in Creators /\ ut_state'[newthr'[v]] \in {"UT_NO_STATE", "UT_TRANSITION"}
    <3>1. /\ v \in Creators /\ newthr'[v] \in Threads
          /\ ut_state[newthr'[v]] \in {"UT_NO_STATE", "UT_TRANSITION"}
      BY <1>0, <2>1 DEF PlaceInv, NewbornOK, PlaceTypes
    <3> QED BY <1>1, <3>1
  <2>2. ASSUME NEW k \in LWPs, NEW v \in Threads, Running(k, v)'
        PROVE  ut_state'[v] # "UT_TRANSITION"
    <3>1. Running(k, v)
      BY <2>2 DEF Running
    <3>2. ut_state[v] \notin {"UT_NO_STATE", "UT_TRANSITION"}
      BY <3>1 DEF PlaceInv, TypeInv, ThreadsExist, NewbornOK
    <3> QED BY <3>2
  <2> QED BY <2>1, <2>2 DEF NewbornOK
<1> QED BY <1>3, <1>4, <1>5, <1>6, <1>7, <1>8 DEF Places

\* A thread that is about to run code other than a switch is on no wait queue
\* to be.
LEMMA NotAsleep ==
    ASSUME PlaceInv, NEW t \in Threads,
           stack[t] = <<>> \/ Head(stack[t]) # "switch" \/ ut_state[t] # "UT_WAIT"
    PROVE  swarg[t].queue = NoObj
  BY DEF PlaceInv, SleeperOK

\* A step of thread t, not in a switch, that only touches its own code.
LEMMA Quiet ==
    ASSUME PlaceInv, PlaceTypes', NEW l \in LWPs, NEW t \in Threads, Running(l, t),
           stack[t] = <<>> \/ Head(stack[t]) # "switch" \/ UNCHANGED stack,
           UNCHANGED <<curthr, ut_state, runq, waitq, wakee, newthr, swarg>>,
           \A v \in Threads \ {t} : stack'[v] = stack[v]
    PROVE  Places'
<1>1. ut_state[t] \notin {"UT_NO_STATE", "UT_TRANSITION"}
  BY DEF PlaceInv, TypeInv, ThreadsExist, NewbornOK
<1>2. swarg'[t].queue # NoObj => ut_state'[t] = "UT_WAIT" /\ stack'[t] # <<>> /\ Head(stack'[t]) = "switch"
  BY DEF PlaceInv, SleeperOK
<1> QED BY <1>1, <1>2, Stay

\* The same of a step that puts t in another state.
LEMMA Restate ==
    ASSUME PlaceInv, PlaceTypes', NEW l \in LWPs, NEW t \in Threads, Running(l, t), NEW s,
           s \notin {"UT_NO_STATE", "UT_TRANSITION"}, ut_state' = [ut_state EXCEPT ![t] = s],
           UNCHANGED <<curthr, runq, waitq, wakee, newthr>>,
           \A v \in Threads \ {t} : stack'[v] = stack[v] /\ swarg'[v] = swarg[v],
           swarg'[t].queue # NoObj => s = "UT_WAIT" /\ stack'[t] # <<>> /\ Head(stack'[t]) = "switch"
    PROVE  Places'
<1>1. ut_state'[t] = s /\ \A v \in Threads \ {t} : ut_state'[v] = ut_state[v]
  BY TypesOf DEF PlaceInv, PlaceTypes
<1> QED BY <1>1, Stay

\* Continue and Push touch one stack.
LEMMA OtherStacks ==
    ASSUME PlaceInv, NEW t \in Threads, NEW fs, Continue(t, fs) \/ Push(t, fs)
    PROVE  \A v \in Threads \ {t} : stack'[v] = stack[v]
<1>1. DOMAIN stack = Threads
  BY TypesOf DEF PlaceInv, PlaceTypes
<1> QED BY <1>1 DEF Continue, Push

-----------------------------------------------------------------------------
(* The steps of the scheduler that move no thread.                         *)

LEMMA QuietSchedLemma ==
    ASSUME PlaceInv, PlaceTypes', NEW l \in LWPs, NEW t \in Threads,
           SwitchAborts(l, t) \/ Return(l, t) \/ WakeUnlock(l, t) \/ SetprioWrite(l, t)
    PROVE  Places'
<1>1. CASE SwitchAborts(l, t)
  <2>1. Running(l, t) /\ UNCHANGED <<stack, curthr, ut_state, runq, waitq, wakee, newthr, swarg>>
    BY <1>1 DEF SwitchAborts, At, cpuVars, thrVars, runqVars, waitVars, argVars
  <2> QED BY <2>1, Quiet
<1>2. CASE Return(l, t)
  <2>1. /\ Running(l, t) /\ Head(stack[t]) # "switch" /\ Continue(t, <<>>)
        /\ UNCHANGED <<curthr, ut_state, runq, waitq, wakee, newthr, swarg>>
    BY <1>2 DEF Return, At, cpuVars, runqVars, waitVars, argVars
  <2> QED BY <2>1, OtherStacks, Quiet
<1>3. CASE WakeUnlock(l, t)
  <2>1. /\ Running(l, t) /\ Head(stack[t]) # "switch" /\ Continue(t, <<>>)
        /\ UNCHANGED <<curthr, ut_state, runq, waitq, wakee, newthr, swarg>>
    BY <1>3 DEF WakeUnlock, At, cpuVars, thrVars, waitVars, argVars
  <2> QED BY <2>1, OtherStacks, Quiet
<1>4. CASE SetprioWrite(l, t)
  <2>1. /\ Running(l, t) /\ Head(stack[t]) # "switch" /\ Continue(t, <<"setprio_lock">>)
        /\ UNCHANGED <<curthr, ut_state, runq, waitq, wakee, newthr, swarg>>
    BY <1>4 DEF SetprioWrite, At, cpuVars, runqVars, waitVars, argVars
  <2>2. \A v \in Threads \ {t} : stack'[v] = stack[v]
    BY <2>1, OtherStacks
  <2> QED BY <2>1, <2>2, Quiet
<1> QED BY <1>1, <1>2, <1>3, <1>4

\* uthread_yield and the clock make a thread runnable while it still runs.
LEMMA YieldPlace ==
    ASSUME PlaceInv, PlaceTypes', NEW l \in LWPs, NEW t \in Threads,
           UthreadYield(l, t) \/ ClockInterrupt(l, t) \/ UthreadBlock(l, t)
    PROVE  Places'
<1>1. PICK s \in {"UT_RUNNABLE", "UT_WAIT"} : ut_state' = [ut_state EXCEPT ![t] = s]
  BY DEF UthreadYield, ClockInterrupt, UthreadBlock, YieldEnter
<1>2. Running(l, t) /\ UNCHANGED <<curthr, runq, waitq, wakee, newthr, swarg>>
  BY DEF UthreadYield, ClockInterrupt, UthreadBlock, InClient, Running, cpuVars, runqVars, waitVars, argVars
<1>3. \A v \in Threads \ {t} : stack'[v] = stack[v]
  <2>1. Push(t, YieldFrames) \/ Push(t, <<"switch", "nopreempt_off">>)
    BY DEF UthreadYield, ClockInterrupt, UthreadBlock
  <2>2. CASE Push(t, YieldFrames)
    BY <2>2, OtherStacks
  <2>3. CASE Push(t, <<"switch", "nopreempt_off">>)
    BY <2>3, OtherStacks
  <2> QED BY <2>1, <2>2, <2>3
<1>4. swarg[t].queue = NoObj
  <2>1. stack[t] = <<>> \/ ut_state[t] # "UT_WAIT"
    BY DEF UthreadYield, ClockInterrupt, UthreadBlock, InClient
  <2> QED BY <2>1, NotAsleep
<1> QED BY <1>1, <1>2, <1>3, <1>4, Restate

LEMMA YieldLockPlace ==
    ASSUME PlaceInv, PlaceTypes', NEW l \in LWPs, NEW t \in Threads, YieldLock(l, t)
    PROVE  Places'
<1>1. PlaceTypes
  BY TypesOf DEF PlaceInv
<1>2. /\ Running(l, t) /\ UNCHANGED <<curthr, ut_state, runq, waitq, wakee, newthr>>
      /\ swarg' = [swarg EXCEPT ![t] = [queue |-> NoObj, saveonrq |-> TRUE, pmut |-> t]]
      /\ Continue(t, <<"switch">>)
  BY DEF YieldLock, At, cpuVars, thrVars, runqVars
<1>3. swarg'[t].queue = NoObj /\ \A v \in Threads \ {t} : swarg'[v] = swarg[v]
  BY <1>1, <1>2 DEF PlaceTypes
<1>4. \A v \in Threads \ {t} : stack'[v] = stack[v]
  BY <1>2, OtherStacks
<1>5. ut_state[t] \notin {"UT_NO_STATE", "UT_TRANSITION"}
  BY <1>2 DEF PlaceInv, TypeInv, ThreadsExist, NewbornOK
<1> QED BY <1>2, <1>3, <1>4, <1>5, Stay

\* The entry points of a Disciplined client.
LEMMA SchedClientLemma ==
    ASSUME PlaceInv, PlaceTypes', Disciplined, NEW l \in LWPs, NEW t \in Threads,
           ClientStep(l, t) \/ ClockInterrupt(l, t)
    PROVE  Places'
<1>1. CASE UthreadYield(l, t) \/ UthreadBlock(l, t) \/ ClockInterrupt(l, t)
  BY <1>1, YieldPlace
<1>2. ASSUME NEW u \in Threads, UthreadWake(l, t, u) PROVE Places'
  BY <1>2 DEF UthreadWake, Disciplined
<1>3. ASSUME NEW u \in Threads, NEW prio \in Prios, SetprioRead(l, t, u, prio) PROVE Places'
  <2>1. /\ Running(l, t) /\ stack[t] = <<>> /\ Push(t, <<"setprio_write">>)
        /\ UNCHANGED <<curthr, ut_state, runq, waitq, wakee, newthr, swarg>>
    BY <1>3 DEF SetprioRead, InClient, Running, cpuVars, runqVars, waitVars
  <2>2. \A v \in Threads \ {t} : stack'[v] = stack[v]
    BY <2>1, OtherStacks
  <2> QED BY <2>1, <2>2, Quiet
<1>4. ASSUME NEW u \in Threads, AllocScan(l, t, u) PROVE Places'
  <2>1. /\ Running(l, t) /\ stack[t] = <<>> /\ Push(t, <<"alloc_claim">>) /\ t \in Creators
        /\ ut_state[u] = "UT_NO_STATE" /\ newthr' = [newthr EXCEPT ![t] = u]
        /\ UNCHANGED <<curthr, ut_state, runq, waitq, wakee, swarg>>
    BY <1>4 DEF AllocScan, AllocFound, InClient, Running, cpuVars, runqVars, waitVars
  <2>2. \A v \in Threads \ {t} : stack'[v] = stack[v]
    BY <2>1, OtherStacks
  <2>3. swarg[t].queue = NoObj /\ ut_state[t] \notin {"UT_NO_STATE", "UT_TRANSITION"}
    BY <2>1, NotAsleep DEF PlaceInv, TypeInv, ThreadsExist, NewbornOK
  <2>4. newthr'[t] = u /\ \A v \in Threads \ {t} : newthr'[v] = newthr[v]
    BY <2>1, TypesOf DEF PlaceInv, PlaceTypes
  <2> QED BY <2>1, <2>2, <2>3, <2>4, Stay
<1> QED BY <1>1, <1>2, <1>3, <1>4 DEF ClientStep

-----------------------------------------------------------------------------
(* uthread_create.                                                         *)

\* The thread that t creates is not yet anywhere.
LEMMA Newborn ==
    ASSUME PlaceInv, NEW t \in Threads, stack[t] # <<>>,
           Head(stack[t]) \in {"alloc_claim", "create_init", "startonrunq"}
    PROVE  /\ newthr[t] \in Threads /\ newthr[t] # t /\ OnNoLwp(newthr[t])
           /\ ut_state[newthr[t]] \in {"UT_NO_STATE", "UT_TRANSITION"}
           /\ swarg[newthr[t]].queue = NoObj /\ swarg[t].queue = NoObj
<1>1. newthr[t] \in Threads /\ newthr[t] # t
  BY TypesOf DEF PlaceInv, TypeInv, ArgumentsOK, ArgumentsOf, NeedsNewthr, Pending, ThreadsExist, PlaceTypes
<1>2. ut_state[newthr[t]] \in {"UT_NO_STATE", "UT_TRANSITION"}
  BY <1>1, TypesOf DEF PlaceInv, NewbornOK
<1>3. OnNoLwp(newthr[t])
  BY <1>1, <1>2 DEF PlaceInv, TypeInv, ThreadsExist, NewbornOK, OnNoLwp, Running
<1>4. swarg[newthr[t]].queue = NoObj /\ swarg[t].queue = NoObj
  BY <1>1, <1>2, NotAsleep
<1> QED BY <1>1, <1>2, <1>3, <1>4

LEMMA AllocPlace ==
    ASSUME PlaceInv, PlaceTypes', NEW l \in LWPs, NEW t \in Threads,
           AllocClaim(l, t) \/ CreateInit(l, t) \/ AllocStackFails(l, t)
    PROVE  Places'
<1>0. PlaceTypes
  BY TypesOf DEF PlaceInv
<1>1. Running(l, t) /\ stack[t] # <<>> /\ Head(stack[t]) \in {"alloc_claim", "create_init"}
  BY DEF AllocClaim, CreateInit, AllocStackFails, At
<1>2. PICK u \in Threads \ {t} : u = newthr[t]
  BY <1>1, Newborn
<1>3. /\ ut_state[u] \in {"UT_NO_STATE", "UT_TRANSITION"} /\ swarg[u].queue = NoObj /\ swarg[t].queue = NoObj
      /\ ut_state[t] \notin {"UT_NO_STATE", "UT_TRANSITION"}
  BY <1>1, <1>2, Newborn DEF PlaceInv, TypeInv, ThreadsExist, NewbornOK
<1>4. CASE AllocClaim(l, t)
  <2>1. /\ ut_state' = [ut_state EXCEPT ![u] = "UT_TRANSITION"] /\ Continue(t, <<"create_init">>)
        /\ UNCHANGED <<curthr, runq, waitq, wakee, newthr, swarg>>
    BY <1>2, <1>4 DEF AllocClaim, cpuVars, runqVars, waitVars, argVars
  <2>2. \A v \in Threads \ {t} : stack'[v] = stack[v]
    BY <2>1, OtherStacks
  <2>3. ut_state'[u] = "UT_TRANSITION" /\ \A v \in Threads \ {u} : ut_state'[v] = ut_state[v]
    BY <1>0, <2>1 DEF PlaceTypes
  <2> QED BY <1>1, <1>2, <1>3, <2>1, <2>2, <2>3, Stay
<1>5. CASE CreateInit(l, t)
  <2>1. /\ stack' = [stack EXCEPT ![u] = <<"nopreempt_off">>, ![t] = <<"startonrunq">> \o Tail(@)]
        /\ waitq' = [waitq EXCEPT ![u] = <<>>]
        /\ UNCHANGED <<curthr, ut_state, runq, wakee, newthr, swarg>>
    BY <1>2, <1>5 DEF CreateInit, cpuVars, runqVars, waitVars, argVars
  <2>2. \A v \in Threads \ {t} : stack'[v] = stack[v] \/ v = u
    BY <1>0, <2>1 DEF PlaceTypes
  <2>3. \A o \in Objs : waitq'[o] \in {waitq[o], <<>>}
    BY <1>0, <2>1 DEF PlaceTypes
  <2> QED BY <1>1, <1>2, <1>3, <2>1, <2>2, <2>3, Stay
<1>6. CASE AllocStackFails(l, t)
  <2>1. /\ newthr' = [newthr EXCEPT ![t] = NoThread] /\ Continue(t, <<>>)
        /\ UNCHANGED <<curthr, ut_state, runq, waitq, wakee, swarg>>
    BY <1>6 DEF AllocStackFails, cpuVars, thrVars, runqVars, waitVars
  <2>2. \A v \in Threads \ {t} : stack'[v] = stack[v]
    BY <2>1, OtherStacks
  <2>3. \A v \in Threads : newthr'[v] \in {newthr[v], NoThread}
    BY <1>0, <2>1 DEF PlaceTypes
  <2> QED BY <1>1, <1>2, <1>3, <2>1, <2>2, <2>3, Stay
<1> QED BY <1>4, <1>5, <1>6

-----------------------------------------------------------------------------
(* A thread off every LWP and queue becomes runnable and is queued.        *)

LEMMA MadeRunnable ==
    ASSUME PlaceInv, PlaceTypes', NEW l \in LWPs, NEW t \in Threads, Running(l, t),
           NEW u \in Threads, NEW p, OnNoLwp(u), ut_state[u] # "UT_RUNNABLE",
           \A o \in Objs : \A i \in 1..Len(waitq[o]) : waitq[o][i] # u,
           runq' = Enqueued(runq, p, u), ut_state' = [ut_state EXCEPT ![u] = "UT_RUNNABLE"],
           UNCHANGED <<curthr, waitq, swarg>>,
           \A v \in Threads : wakee'[v] \in {wakee[v], NoThread} /\ (wakee[v] = u => wakee'[v] = NoThread),
           \A v \in Threads : newthr'[v] \in {newthr[v], NoThread} /\ (newthr[v] = u => newthr'[v] = NoThread),
           swarg[t].queue = NoObj, \A v \in Threads \ {t} : stack'[v] = stack[v]
    PROVE  Places'
<1>0. TypeInv /\ PlaceTypes /\ NoThread \notin Threads
  BY TypesOf DEF PlaceInv
<1>1. ut_state'[u] = "UT_RUNNABLE" /\ \A v \in Threads \ {u} : ut_state'[v] = ut_state[v]
  BY <1>0 DEF PlaceTypes
<1>2. OneLwp'
  BY DEF PlaceInv, OneLwp
<1>3. RunqOK'
  <2>1. Distinct(Prios, runq, OffLwps("UT_RUNNABLE"))
    BY <1>0, PlacesDistinct DEF PlaceInv
  <2>2. \A q \in Prios : \A i \in 1..Len(runq[q]) : runq[q][i] # u
    BY DEF PlaceInv, RunqOK
  <2>3. Distinct(Prios, runq', OffLwps("UT_RUNNABLE") \cup {u})
    BY <1>0, <2>1, <2>2, DistinctAppend DEF Enqueued, PlaceTypes
  <2>4. OffLwps("UT_RUNNABLE") \cup {u} \subseteq OffLwps("UT_RUNNABLE")'
    BY <1>1 DEF OffLwps, OnNoLwp
  <2>5. Distinct(Prios, runq', OffLwps("UT_RUNNABLE")')
    BY <2>3, <2>4 DEF Distinct
  <2> QED BY <2>5, PlacesDistinctNext
<1>4. WaitqOK'
  <2>1. Distinct(Objs, waitq, OffLwps("UT_WAIT"))
    BY <1>0, PlacesDistinct DEF PlaceInv
  <2>2. OffLwps("UT_WAIT") \ {u} \subseteq OffLwps("UT_WAIT")'
    BY <1>1 DEF OffLwps, OnNoLwp
  <2>3. Distinct(Objs, waitq', OffLwps("UT_WAIT")')
    BY <2>1, <2>2 DEF Distinct
  <2> QED BY <2>3, PlacesDistinctNext
<1>5. WakeeOK'
  <2>1. \A v \in Threads : wakee'[v] # NoThread => wakee'[v] = wakee[v] /\ wakee[v] \in Threads \ {u}
    BY <1>0 DEF PlaceTypes
  <2> QED BY <1>1, <2>1 DEF PlaceInv, WakeeOK, OnNoLwp
<1>6. SleeperOK'
  <2>1. SUFFICES ASSUME NEW v \in Threads, swarg[v].queue # NoObj
                 PROVE  /\ ut_state'[v] = "UT_WAIT" /\ \E k \in LWPs : Running(k, v)'
                        /\ stack'[v] # <<>> /\ Head(stack'[v]) = "switch"
    BY DEF SleeperOK
  <2>2. /\ ut_state[v] = "UT_WAIT" /\ \E k \in LWPs : Running(k, v)
        /\ stack[v] # <<>> /\ Head(stack[v]) = "switch"
    BY <2>1 DEF PlaceInv, SleeperOK
  <2>3. v # u /\ v # t
    BY <2>1, <2>2 DEF OnNoLwp, Running
  <2> QED BY <1>1, <2>2, <2>3 DEF Running
<1>7. NewbornOK'
  <2>1. ASSUME NEW v \in Threads, newthr'[v] # NoThread
        PROVE  v \in Creators /\ ut_state'[newthr'[v]] \in {"UT_NO_STATE", "UT_TRANSITION"}
    <3>1. newthr'[v] = newthr[v] /\ newthr[v] \in Threads \ {u}
      BY <1>0, <2>1 DEF PlaceTypes
    <3> QED BY <1>1, <2>1, <3>1 DEF PlaceInv, NewbornOK
  <2>2. ASSUME NEW k \in LWPs, NEW v \in Threads, Running(k, v)'
        PROVE  ut_state'[v] # "UT_TRANSITION"
    <3>1. v # u /\ Running(k, v)
      BY <2>2 DEF Running, OnNoLwp
    <3> QED BY <1>1, <3>1 DEF PlaceInv, NewbornOK
  <2> QED BY <2>1, <2>2 DEF NewbornOK
<1> QED BY <1>2, <1>3, <1>4, <1>5, <1>6, <1>7 DEF Places

\* uthread_wake finds the thread waiting.
LEMMA WakePlace ==
    ASSUME PlaceInv, PlaceTypes', NEW l \in LWPs, NEW t \in Threads, Wake(l, t)
    PROVE  Places'
<1>0. TypeInv /\ PlaceTypes
  BY TypesOf DEF PlaceInv
<1>1. Running(l, t) /\ stack[t] # <<>> /\ Head(stack[t]) = "wake"
  BY DEF Wake, At
<1>2. PICK u \in Threads : u = wakee[t]
  BY <1>0, <1>1 DEF TypeInv, ArgumentsOK, ArgumentsOf, Pending, PlaceTypes
<1>3. /\ ut_state[u] = "UT_WAIT" /\ OnNoLwp(u)
      /\ \A v \in Threads : wakee[v] = u => v = t
      /\ \A o \in Objs : \A i \in 1..Len(waitq[o]) : waitq[o][i] # u
  BY <1>2, TypesOf DEF PlaceInv, WakeeOK
<1>4. WakeQueues(u) /\ wakee' = [wakee EXCEPT ![t] = NoThread] /\ UNCHANGED <<curthr, waitq, swarg, newthr>>
  BY <1>2, <1>3 DEF Wake, MakeRunnable, waitVars
<1>5. \A v \in Threads : wakee'[v] \in {wakee[v], NoThread} /\ (wakee[v] = u => wakee'[v] = NoThread)
  BY <1>0, <1>3, <1>4 DEF PlaceTypes
<1>6. \A v \in Threads : newthr'[v] \in {newthr[v], NoThread} /\ (newthr[v] = u => newthr'[v] = NoThread)
  BY <1>3, <1>4, TypesOf DEF PlaceInv, NewbornOK
<1>7. \A v \in Threads \ {t} : stack'[v] = stack[v]
  <2>1. Continue(t, <<"wake_unlock">>) \/ Continue(t, <<>>)
    BY DEF Wake
  <2>2. CASE Continue(t, <<"wake_unlock">>)
    BY <2>2, OtherStacks
  <2>3. CASE Continue(t, <<>>)
    BY <2>3, OtherStacks
  <2> QED BY <2>1, <2>2, <2>3
<1>8. swarg[t].queue = NoObj
  BY <1>1, NotAsleep
<1>9. runq' = Enqueued(runq, ut_prio[u], u) /\ ut_state' = [ut_state EXCEPT ![u] = "UT_RUNNABLE"]
  BY <1>4 DEF WakeQueues
<1> QED BY <1>1, <1>3, <1>4, <1>5, <1>6, <1>7, <1>8, <1>9, MadeRunnable

\* uthread_startonrunq queues the thread that t, the only creator, has made.
LEMMA StartPlace ==
    ASSUME PlaceInv, PlaceTypes', Disciplined, NEW l \in LWPs, NEW t \in Threads, NEW prio \in Prios,
           StartOnRunq(l, t, prio)
    PROVE  Places'
<1>0. PlaceTypes /\ NoThread \notin Threads
  BY TypesOf DEF PlaceInv
<1>1. Running(l, t) /\ stack[t] # <<>> /\ Head(stack[t]) = "startonrunq"
  BY DEF StartOnRunq, At
<1>2. PICK u \in Threads : u = newthr[t]
  BY <1>1, Newborn
<1>3. /\ OnNoLwp(u) /\ ut_state[u] \in {"UT_NO_STATE", "UT_TRANSITION"} /\ swarg[t].queue = NoObj
  BY <1>1, <1>2, Newborn
<1>4. CASE ut_state[u] = "UT_TRANSITION"
  <2>1. /\ runq' = Enqueued(runq, prio, u) /\ ut_state' = [ut_state EXCEPT ![u] = "UT_RUNNABLE"]
        /\ newthr' = [newthr EXCEPT ![t] = NoThread] /\ Continue(t, <<>>)
        /\ UNCHANGED <<curthr, waitq, swarg, wakee>>
    BY <1>2, <1>4 DEF StartOnRunq, waitVars
  <2>2. \A o \in Objs : \A i \in 1..Len(waitq[o]) : waitq[o][i] # u
    BY <1>3 DEF PlaceInv, WaitqOK
  <2>3. \A v \in Threads : wakee[v] # u
    BY <1>0, <1>3 DEF PlaceInv, WakeeOK
  <2>4. \A v \in Threads : newthr[v] = u => v = t
    BY <1>0, <1>2 DEF PlaceInv, NewbornOK, Disciplined
  <2>5. \A v \in Threads : newthr'[v] \in {newthr[v], NoThread} /\ (newthr[v] = u => newthr'[v] = NoThread)
    BY <1>0, <2>1, <2>4 DEF PlaceTypes
  <2>6. \A v \in Threads \ {t} : stack'[v] = stack[v]
    BY <2>1, OtherStacks
  <2> QED BY <1>1, <1>3, <2>1, <2>2, <2>3, <2>5, <2>6, MadeRunnable
<1>5. CASE ut_state[u] # "UT_TRANSITION"
  <2>1. UNCHANGED <<stack, curthr, ut_state, runq, waitq, wakee, newthr, swarg>>
    BY <1>2, <1>5 DEF StartOnRunq, waitVars
  <2> QED BY <1>1, <2>1, Quiet
<1> QED BY <1>4, <1>5

-----------------------------------------------------------------------------
(* uthread_setprio moves a thread from one run queue to another.           *)

LEMMA RequeueDistinct ==
    ASSUME PlaceInv, NEW u \in Threads, ut_state[u] = "UT_RUNNABLE", NEW from, NEW to,
           RequeueAs(u, from, to)
    PROVE  Distinct(Prios, runq', OffLwps("UT_RUNNABLE"))
<1>0. PlaceTypes
  BY TypesOf DEF PlaceInv
<1>1. runq \in [Prios -> Seq(Threads)] /\ Distinct(Prios, runq, OffLwps("UT_RUNNABLE"))
  BY <1>0, PlacesDistinct DEF PlaceInv, PlaceTypes
<1>2. CASE UNCHANGED runq
  BY <1>1, <1>2
<1>3. ASSUME NEW p \in Prios, NEW i \in 1..Len(runq[p]), runq[p][i] = u, NEW g,
             g = [runq EXCEPT ![p] = RemoveAt(@, i)], runq' = Enqueued(g, to, u)
      PROVE  Distinct(Prios, runq', OffLwps("UT_RUNNABLE"))
  <2>1. g \in [Prios -> Seq(Threads)]
    BY <1>1, <1>3, RemoveAtType
  <2>2. Distinct(Prios, g, OffLwps("UT_RUNNABLE") \ {u})
    BY <1>1, <1>3, DistinctRemove
  <2>3. \A q \in Prios : \A j \in 1..Len(g[q]) : g[q][j] # u
    BY <2>2 DEF Distinct
  <2>4. Distinct(Prios, runq', (OffLwps("UT_RUNNABLE") \ {u}) \cup {u})
    BY <1>3, <2>1, <2>2, <2>3, DistinctAppend DEF Enqueued
  <2>5. (OffLwps("UT_RUNNABLE") \ {u}) \cup {u} = OffLwps("UT_RUNNABLE")
    BY <1>1, <1>3 DEF Distinct
  <2> QED BY <2>4, <2>5
<1> QED BY <1>2, <1>3 DEF RequeueAs

LEMMA SetprioPlace ==
    ASSUME PlaceInv, PlaceTypes', NEW l \in LWPs, NEW t \in Threads, SetprioLock(l, t)
    PROVE  Places'
<1>0. TypeInv /\ PlaceTypes
  BY TypesOf DEF PlaceInv
<1>1. Running(l, t) /\ stack[t] # <<>> /\ Head(stack[t]) = "setprio_lock"
  BY DEF SetprioLock, At
<1>2. PICK u \in Threads : u = sparg[t].thr
  BY <1>1 DEF PlaceInv, TypeInv, ArgumentsOK, ArgumentsOf, Pending, SyncTypeOK, SchedTypes
<1>3. /\ UNCHANGED <<curthr, waitq, wakee, newthr, swarg>>
      /\ (ut_state[u] = "UT_RUNNABLE" /\ Requeue(u, sparg[t].old)) \/ UNCHANGED runq
      /\ \/ YieldEnter(t) /\ Continue(t, YieldFrames)
         \/ UNCHANGED ut_state /\ Continue(t, <<>>)
  BY <1>2 DEF SetprioLock, cpuVars, waitVars
<1>4. UNCHANGED runq \/ Distinct(Prios, runq', OffLwps("UT_RUNNABLE"))
  BY <1>2, <1>3, RequeueDistinct DEF Requeue
<1>5. \A v \in Threads \ {t} : stack'[v] = stack[v]
  <2>1. CASE Continue(t, YieldFrames)
    BY <2>1, OtherStacks
  <2>2. CASE Continue(t, <<>>)
    BY <2>2, OtherStacks
  <2> QED BY <1>3, <2>1, <2>2
<1>6. /\ ut_state'[t] \notin {"UT_NO_STATE", "UT_TRANSITION"}
      /\ \A v \in Threads \ {t} : ut_state'[v] = ut_state[v]
  <2>1. ut_state[t] \notin {"UT_NO_STATE", "UT_TRANSITION"}
    BY <1>1 DEF PlaceInv, TypeInv, ThreadsExist, NewbornOK
  <2>2. UNCHANGED ut_state \/ ut_state' = [ut_state EXCEPT ![t] = "UT_RUNNABLE"]
    BY <1>3 DEF YieldEnter
  <2> QED BY <1>0, <2>1, <2>2 DEF PlaceTypes
<1>7. swarg[t].queue = NoObj
  BY <1>1, NotAsleep
<1> QED BY <1>1, <1>3, <1>4, <1>5, <1>6, <1>7, Stay

-----------------------------------------------------------------------------
(* An LWP leaves the stack it was on and scans the run queues.             *)

\* The threads that LWP l may find on a run queue.
Candidates(l, st) == {u \in Threads : st[u] = "UT_RUNNABLE" /\ \A k \in LWPs \ {l} : curthr[k] # u}

\* LWP l has taken a thread that was runnable in st, or none.
Dispatched(l, st) ==
    /\ OneLwp' /\ RunqOK'
    /\ \A k \in LWPs \ {l} : curthr'[k] = curthr[k]
    /\ curthr'[l] # NoThread =>
          /\ curthr'[l] \in Threads /\ st[curthr'[l]] = "UT_RUNNABLE"
          /\ ut_state'[curthr'[l]] = "UT_ON_CPU"
    /\ \A u \in Threads : u # curthr'[l] => ut_state'[u] = st[u]

\* What a scan of the queues rq, with the threads in states st, leaves.
LEMMA DispatchPlace ==
    ASSUME NEW l \in LWPs, NEW rq \in [Prios -> Seq(Threads)], NEW sz, NEW st \in [Threads -> UtStates], NEW lw,
           NoThread \notin Threads, curthr \in [LWPs -> Threads \cup {NoThread}], OneLwp,
           Distinct(Prios, rq, Candidates(l, st)),
           Dispatch(l, rq, sz, st, lw)
    PROVE  Dispatched(l, st)
<1> DEFINE S == Candidates(l, st)
<1>1. CASE PickThread(l, rq, sz, st, lw)
  <2>1. PICK p \in Prios :
          /\ rq[p] # <<>>
          /\ curthr' = [curthr EXCEPT ![l] = Head(rq[p])]
          /\ runq' = [rq EXCEPT ![p] = Tail(@)]
          /\ ut_state' = [st EXCEPT ![Head(rq[p])] = "UT_ON_CPU"]
    BY <1>1 DEF PickThread
  <2>2. Distinct(Prios, runq', S \ {Head(rq[p])}) /\ Head(rq[p]) \in S
    BY <2>1, DistinctTail
  <2>3. PICK u \in Threads : u = Head(rq[p]) /\ u \in S /\ st[u] = "UT_RUNNABLE" /\ \A k \in LWPs \ {l} : curthr[k] # u
    BY <2>2 DEF Candidates
  <2>4. /\ curthr'[l] = u /\ \A k \in LWPs \ {l} : curthr'[k] = curthr[k]
        /\ ut_state'[u] = "UT_ON_CPU" /\ \A v \in Threads : v # u => ut_state'[v] = st[v]
    BY <2>1, <2>3
  <2>5. S \ {u} \subseteq OffLwps("UT_RUNNABLE")'
    BY <2>4 DEF OffLwps, OnNoLwp, Candidates
  <2>6. RunqOK'
    <3>0. Distinct(Prios, runq', S \ {u})
      BY <2>2, <2>3
    <3> HIDE DEF S
    <3>1. Distinct(Prios, runq', OffLwps("UT_RUNNABLE")')
      BY <2>5, <3>0 DEF Distinct
    <3> QED BY <3>1, PlacesDistinctNext
  <2>7. OneLwp'
    BY <2>3, <2>4 DEF OneLwp
  <2> QED BY <2>3, <2>4, <2>6, <2>7 DEF Dispatched
<1>2. CASE Park(l, rq, sz, st, lw) \/ BadQueue(l, rq, sz, st, lw)
  <2>1. curthr' = [curthr EXCEPT ![l] = NoThread] /\ runq' = rq /\ ut_state' = st
    BY <1>2 DEF Park, BadQueue
  <2>2. curthr'[l] = NoThread /\ \A k \in LWPs \ {l} : curthr'[k] = curthr[k]
    BY <2>1
  <2>3. S \subseteq OffLwps("UT_RUNNABLE")'
    BY <2>1, <2>2 DEF OffLwps, OnNoLwp, Candidates
  <2>4. RunqOK'
    <3>0. Distinct(Prios, runq', S)
      BY <2>1
    <3> HIDE DEF S
    <3>1. Distinct(Prios, runq', OffLwps("UT_RUNNABLE")')
      BY <2>3, <3>0 DEF Distinct
    <3> QED BY <3>1, PlacesDistinctNext
  <2>5. OneLwp'
    BY <2>2 DEF OneLwp
  <2> QED BY <2>1, <2>2, <2>4, <2>5 DEF Dispatched
<1> QED BY <1>1, <1>2 DEF Dispatch

\* An LWP on its own stack picks a thread.
LEMMA ScanPlace ==
    ASSUME PlaceInv, PlaceTypes', NEW l \in LWPs, curthr[l] = NoThread,
           Dispatch(l, runq, tq_size, ut_state, lwp),
           UNCHANGED <<waitq, stack, swarg, wakee, newthr>>
    PROVE  Places'
<1>0. TypeInv /\ PlaceTypes /\ NoThread \notin Threads
  BY TypesOf DEF PlaceInv
<1>1. Distinct(Prios, runq, Candidates(l, ut_state))
  BY <1>0 DEF PlaceInv, RunqOK, PlaceTypes, Distinct, OnNoLwp, Candidates
<1>2. /\ OneLwp' /\ RunqOK'
      /\ \A k \in LWPs \ {l} : curthr'[k] = curthr[k]
      /\ curthr'[l] # NoThread =>
            /\ curthr'[l] \in Threads /\ ut_state[curthr'[l]] = "UT_RUNNABLE"
            /\ ut_state'[curthr'[l]] = "UT_ON_CPU"
      /\ \A u \in Threads : u # curthr'[l] => ut_state'[u] = ut_state[u]
  <2>1. /\ curthr \in [LWPs -> Threads \cup {NoThread}] /\ OneLwp
        /\ runq \in [Prios -> Seq(Threads)] /\ ut_state \in [Threads -> UtStates]
    BY <1>0 DEF PlaceInv, PlaceTypes
  <2>2. Dispatched(l, ut_state)
    BY <1>0, <1>1, <2>1, DispatchPlace
  <2> QED BY <2>2 DEF Dispatched
<1>3. \A u \in Threads : ut_state[u] # "UT_RUNNABLE" => ut_state'[u] = ut_state[u] /\ curthr'[l] # u
  BY <1>0, <1>2
<1>4. \A u \in Threads : ut_state[u] # "UT_RUNNABLE" /\ OnNoLwp(u) => OnNoLwp(u)'
  BY <1>2, <1>3 DEF OnNoLwp
<1>5. WaitqOK'
  BY <1>0, <1>3, <1>4 DEF PlaceInv, WaitqOK, PlaceTypes
<1>6. WakeeOK'
  BY <1>0, <1>3, <1>4 DEF PlaceInv, WakeeOK, PlaceTypes
<1>7. SleeperOK'
  <2>1. SUFFICES ASSUME NEW v \in Threads, swarg[v].queue # NoObj
                 PROVE  /\ ut_state'[v] = "UT_WAIT" /\ \E k \in LWPs : Running(k, v)'
                        /\ stack[v] # <<>> /\ Head(stack[v]) = "switch"
    BY DEF SleeperOK
  <2>2. /\ ut_state[v] = "UT_WAIT" /\ \E k \in LWPs : Running(k, v)
        /\ stack[v] # <<>> /\ Head(stack[v]) = "switch"
    BY <2>1 DEF PlaceInv, SleeperOK
  <2>3. PICK k \in LWPs \ {l} : curthr[k] = v
    BY <1>0, <2>2 DEF Running
  <2> QED BY <1>2, <1>3, <2>2, <2>3 DEF Running
<1>8. NewbornOK'
  <2>1. \A v \in Threads : newthr[v] # NoThread =>
           v \in Creators /\ ut_state'[newthr[v]] \in {"UT_NO_STATE", "UT_TRANSITION"}
    BY <1>0, <1>3 DEF PlaceInv, NewbornOK, PlaceTypes
  <2>2. ASSUME NEW k \in LWPs, NEW v \in Threads, Running(k, v)'
        PROVE  ut_state'[v] # "UT_TRANSITION"
    <3>1. CASE v = curthr'[l]
      BY <1>0, <1>2, <3>1
    <3>2. CASE v # curthr'[l]
      <4>1. k # l /\ Running(k, v)
        BY <1>2, <2>2, <3>2 DEF Running
      <4> QED BY <1>2, <3>2, <4>1 DEF PlaceInv, NewbornOK
    <3> QED BY <3>1, <3>2
  <2> QED BY <2>1, <2>2 DEF NewbornOK
<1> QED BY <1>2, <1>5, <1>6, <1>7, <1>8 DEF Places

\* Thread t leaves its stack, goes to a run queue, a wait queue or nowhere,
\* and LWP l picks a thread.
LEMMA SwitchPlace ==
    ASSUME PlaceInv, PlaceTypes', NEW l \in LWPs, NEW t \in Threads, Switch(l, t)
    PROVE  Places'
<1> DEFINE a == swarg[t]
           save == a.saveonrq /\ a.queue = NoObj
           rq == IF save THEN Enqueued(runq, ut_prio[t], t) ELSE runq
           sz == IF save THEN SizeUp(tq_size, ut_prio[t]) ELSE tq_size
           st == IF save THEN [ut_state EXCEPT ![t] = "UT_RUNNABLE"] ELSE ut_state
<1>0. TypeInv /\ PlaceTypes /\ NoThread \notin Threads /\ NoObj \notin Objs
  BY TypesOf DEF PlaceInv
<1>1. curthr[l] = t
  BY DEF Switch, At, Running
<1>2. \A k \in LWPs \ {l} : curthr[k] # t
  BY <1>0, <1>1 DEF PlaceInv, OneLwp
<1>3. \E lw : Dispatch(l, rq, sz, st, lw)
  BY DEF Switch
<1>4. /\ waitq' = IF a.queue = NoObj THEN waitq ELSE [waitq EXCEPT ![a.queue] = Append(@, t)]
      /\ swarg' = [swarg EXCEPT ![t] = NoSwitch] /\ UNCHANGED <<wakee, newthr>>
      /\ \A v \in Threads \ {t} : stack'[v] = stack[v]
  <2>1. Continue(t, <<>>)
    BY DEF Switch
  <2> QED BY <2>1, OtherStacks DEF Switch
<1>5. /\ st \in [Threads -> UtStates] /\ \A v \in Threads \ {t} : st[v] = ut_state[v]
      /\ save => st[t] = "UT_RUNNABLE"
      /\ a.queue # NoObj => st[t] = "UT_WAIT"
      /\ st[t] \notin {"UT_NO_STATE", "UT_TRANSITION"}
  <2>1. ut_state[t] \notin {"UT_NO_STATE", "UT_TRANSITION"}
    BY <1>1 DEF PlaceInv, TypeInv, ThreadsExist, NewbornOK, Running
  <2>2. a.queue # NoObj => ut_state[t] = "UT_WAIT"
    BY DEF PlaceInv, SleeperOK
  <2> QED BY <1>0, <2>1, <2>2 DEF PlaceTypes, UtStates
<1>6. /\ rq \in [Prios -> Seq(Threads)]
      /\ Distinct(Prios, rq, Candidates(l, st))
  <2>1. runq \in [Prios -> Seq(Threads)] /\ Distinct(Prios, runq, OffLwps("UT_RUNNABLE"))
    BY <1>0, PlacesDistinct DEF PlaceInv, PlaceTypes
  <2>2. OffLwps("UT_RUNNABLE") \subseteq Candidates(l, st)
    BY <1>1, <1>5 DEF OffLwps, OnNoLwp, Candidates
  <2>3. CASE save
    <3>1. rq = Enqueued(runq, ut_prio[t], t)
      BY <2>3
    <3>2. \A q \in Prios : \A i \in 1..Len(runq[q]) : runq[q][i] # t
      BY <1>1 DEF PlaceInv, RunqOK, OnNoLwp
    <3>3. Distinct(Prios, rq, OffLwps("UT_RUNNABLE") \cup {t})
      <4>1. PICK p : p = ut_prio[t]
        OBVIOUS
      <4>2. rq = [runq EXCEPT ![p] = Append(@, t)]
        BY <3>1, <4>1 DEF Enqueued
      <4> HIDE DEF rq
      <4> QED BY <2>1, <3>2, <4>2, DistinctAppend
    <3>4. rq \in [Prios -> Seq(Threads)]
      <4>1. PICK p : p = ut_prio[t]
        OBVIOUS
      <4>2. CASE p \in Prios
        BY <2>1, <3>1, <4>1, <4>2 DEF Enqueued
      <4>3. CASE p \notin Prios
        BY <2>1, <3>1, <4>1, <4>3 DEF Enqueued
      <4> QED BY <4>2, <4>3
    <3>5. t \in Candidates(l, st)
      BY <1>2, <1>5, <2>3 DEF Candidates
    <3> HIDE DEF rq, st
    <3> QED BY <2>2, <3>3, <3>4, <3>5 DEF Distinct
  <2>4. CASE ~save
    <3>1. rq = runq
      BY <2>4
    <3> HIDE DEF rq, st
    <3> QED BY <2>1, <2>2, <3>1 DEF Distinct
  <2> QED BY <2>3, <2>4
<1> HIDE DEF rq, sz, st, save
<1>7. /\ OneLwp' /\ RunqOK'
      /\ \A k \in LWPs \ {l} : curthr'[k] = curthr[k]
      /\ curthr'[l] # NoThread =>
            /\ curthr'[l] \in Threads /\ st[curthr'[l]] = "UT_RUNNABLE"
            /\ ut_state'[curthr'[l]] = "UT_ON_CPU"
      /\ \A u \in Threads : u # curthr'[l] => ut_state'[u] = st[u]
  <2>1. curthr \in [LWPs -> Threads \cup {NoThread}] /\ OneLwp
    BY <1>0 DEF PlaceInv, PlaceTypes
  <2>2. Dispatched(l, st)
    BY <1>0, <1>3, <1>5, <1>6, <2>1, DispatchPlace
  <2> QED BY <2>2 DEF Dispatched
<1>8. \A u \in Threads \ {t} : ut_state[u] # "UT_RUNNABLE" => ut_state'[u] = ut_state[u] /\ curthr'[l] # u
  BY <1>0, <1>5, <1>7
<1>9. \A u \in Threads : ut_state[u] # "UT_RUNNABLE" /\ OnNoLwp(u) => OnNoLwp(u)' /\ u # t
  BY <1>1, <1>7, <1>8 DEF OnNoLwp
<1>10. a.queue # NoObj => ut_state'[t] = "UT_WAIT" /\ OnNoLwp(t)'
  BY <1>0, <1>2, <1>5, <1>7 DEF OnNoLwp
<1>11. WaitqOK'
  <2>1. waitq \in [Objs -> Seq(Threads)] /\ Distinct(Objs, waitq, OffLwps("UT_WAIT"))
    BY <1>0, PlacesDistinct DEF PlaceInv, PlaceTypes
  <2>2. OffLwps("UT_WAIT") \subseteq OffLwps("UT_WAIT")'
    BY <1>8, <1>9 DEF OffLwps
  <2>3. CASE a.queue = NoObj
    <3>1. Distinct(Objs, waitq', OffLwps("UT_WAIT")')
      BY <1>4, <2>1, <2>2, <2>3 DEF Distinct
    <3> QED BY <3>1, PlacesDistinctNext
  <2>4. CASE a.queue # NoObj
    <3>1. \A o \in Objs : \A i \in 1..Len(waitq[o]) : waitq[o][i] # t
      BY <1>1 DEF PlaceInv, WaitqOK, OnNoLwp
    <3>2. PICK o : o = a.queue
      OBVIOUS
    <3>3. Distinct(Objs, waitq', OffLwps("UT_WAIT") \cup {t})
      BY <1>4, <2>1, <2>4, <3>1, DistinctAppend
    <3>4. t \in OffLwps("UT_WAIT")'
      BY <1>10, <2>4 DEF OffLwps
    <3>5. Distinct(Objs, waitq', OffLwps("UT_WAIT")')
      BY <2>2, <3>3, <3>4 DEF Distinct
    <3> QED BY <3>5, PlacesDistinctNext
  <2> QED BY <2>3, <2>4
<1>12. WakeeOK'
  <2>1. SUFFICES ASSUME NEW v \in Threads, wakee[v] # NoThread
                 PROVE  /\ ut_state'[wakee[v]] = "UT_WAIT" /\ OnNoLwp(wakee[v])'
                        /\ \A u \in Threads : wakee[u] = wakee[v] => u = v
                        /\ \A o \in Objs : \A i \in 1..Len(waitq'[o]) : waitq'[o][i] # wakee[v]
    <3>1. wakee' = wakee
      BY <1>4
    <3> QED BY <3>1 DEF WakeeOK, OnNoLwp
  <2>2. PICK w \in Threads : w = wakee[v]
    BY <1>0, <2>1 DEF PlaceTypes
  <2>3. /\ ut_state[w] = "UT_WAIT" /\ OnNoLwp(w)
        /\ \A u \in Threads : wakee[u] = w => u = v
        /\ \A o \in Objs : \A i \in 1..Len(waitq[o]) : waitq[o][i] # w
    BY <2>1, <2>2 DEF PlaceInv, WakeeOK
  <2>4. ut_state'[w] = "UT_WAIT" /\ OnNoLwp(w)' /\ w # t
    BY <1>8, <1>9, <2>3
  <2>5. \A o \in Objs : \A i \in 1..Len(waitq'[o]) : waitq'[o][i] # w
    <3>1. CASE a.queue = NoObj
      BY <1>4, <2>3, <3>1
    <3>2. ASSUME NEW o \in Objs, NEW i \in 1..Len(waitq'[o]), a.queue # NoObj
          PROVE  waitq'[o][i] # w
      <4>1. waitq[o] \in Seq(Threads) /\ waitq' = [waitq EXCEPT ![a.queue] = Append(@, t)]
        BY <1>0, <1>4, <3>2 DEF PlaceTypes
      <4>2. waitq'[o] = waitq[o] \/ waitq'[o] = Append(waitq[o], t)
        BY <1>0, <4>1 DEF PlaceTypes
      <4>3. CASE waitq'[o] = waitq[o]
        BY <2>3, <3>2, <4>3
      <4>4. CASE waitq'[o] = Append(waitq[o], t)
        BY <2>3, <2>4, <3>2, <4>1, <4>4
      <4> QED BY <4>2, <4>3, <4>4
    <3> QED BY <3>1, <3>2
  <2> QED BY <1>4, <2>2, <2>3, <2>4, <2>5 DEF OnNoLwp
<1>13. SleeperOK'
  <2>1. SUFFICES ASSUME NEW v \in Threads, swarg'[v].queue # NoObj
                 PROVE  /\ ut_state'[v] = "UT_WAIT" /\ \E k \in LWPs : Running(k, v)'
                        /\ stack'[v] # <<>> /\ Head(stack'[v]) = "switch"
    BY DEF SleeperOK
  <2>2. v # t /\ swarg'[v] = swarg[v]
    BY <1>0, <1>4, <2>1 DEF PlaceTypes, NoSwitch
  <2>3. /\ ut_state[v] = "UT_WAIT" /\ \E k \in LWPs : Running(k, v)
        /\ stack[v] # <<>> /\ Head(stack[v]) = "switch"
    BY <2>1, <2>2 DEF PlaceInv, SleeperOK
  <2>4. PICK k \in LWPs \ {l} : curthr[k] = v
    BY <1>1, <2>2, <2>3 DEF Running
  <2> QED BY <1>4, <1>7, <1>8, <2>2, <2>3, <2>4 DEF Running
<1>14. NewbornOK'
  <2>1. ASSUME NEW v \in Threads, newthr[v] # NoThread
        PROVE  v \in Creators /\ ut_state'[newthr[v]] \in {"UT_NO_STATE", "UT_TRANSITION"}
    <3>1. newthr[v] \in Threads /\ v \in Creators /\ ut_state[newthr[v]] \in {"UT_NO_STATE", "UT_TRANSITION"}
      BY <1>0, <2>1 DEF PlaceInv, NewbornOK, PlaceTypes
    <3>2. newthr[v] # t
      BY <1>1, <3>1 DEF PlaceInv, TypeInv, ThreadsExist, NewbornOK, Running
    <3> QED BY <1>8, <3>1, <3>2
  <2>2. ASSUME NEW k \in LWPs, NEW v \in Threads, Running(k, v)'
        PROVE  ut_state'[v] # "UT_TRANSITION"
    <3>1. CASE v = curthr'[l]
      BY <1>0, <1>7, <3>1
    <3>2. CASE v # curthr'[l]
      <4>1. k # l /\ Running(k, v) /\ v # t
        BY <1>2, <1>7, <2>2, <3>2 DEF Running
      <4> QED BY <1>5, <1>7, <3>2, <4>1 DEF PlaceInv, NewbornOK
    <3> QED BY <3>1, <3>2
  <2> QED BY <1>4, <2>1, <2>2 DEF NewbornOK
<1> QED BY <1>7, <1>11, <1>12, <1>13, <1>14 DEF Places

LEMMA LwpPlace ==
    ASSUME PlaceInv, PlaceTypes', NEW l \in LWPs, LwpStart(l) \/ Unpark(l), curthr[l] = NoThread
    PROVE  Places'
<1>1. UNCHANGED <<waitq, stack, swarg, wakee, newthr>>
  BY DEF LwpStart, Unpark, waitVars, argVars
<1>2. CASE Dispatch(l, runq, tq_size, ut_state, lwp)
  BY <1>1, <1>2, ScanPlace
<1>3. CASE UNCHANGED <<curthr, runq, ut_state>>
  BY <1>1, <1>3 DEF PlaceInv, Places, OneLwp, RunqOK, WaitqOK, WakeeOK, SleeperOK, NewbornOK, OnNoLwp, Running
<1> QED BY <1>2, <1>3 DEF LwpStart, Unpark

-----------------------------------------------------------------------------
(* Mutexes and condition variables.                                        *)

\* Thread t takes the oldest waiter off a wait queue, to wake it.
LEMMA Dequeued ==
    ASSUME PlaceInv, PlaceTypes', NEW l \in LWPs, NEW t \in Threads, Running(l, t),
           NEW o \in Objs, waitq[o] # <<>>,
           waitq' = [waitq EXCEPT ![o] = Tail(@)], wakee' = [wakee EXCEPT ![t] = Head(waitq[o])],
           UNCHANGED <<curthr, ut_state, runq, newthr, swarg>>,
           swarg[t].queue = NoObj, \A v \in Threads \ {t} : stack'[v] = stack[v]
    PROVE  Places'
<1>0. TypeInv /\ PlaceTypes /\ NoThread \notin Threads
  BY TypesOf DEF PlaceInv
<1>1. waitq \in [Objs -> Seq(Threads)] /\ Distinct(Objs, waitq, OffLwps("UT_WAIT"))
  BY <1>0, PlacesDistinct DEF PlaceInv, PlaceTypes
<1>2. PICK h \in Threads : h = Head(waitq[o]) /\ h = waitq[o][1] /\ 1 \in 1..Len(waitq[o])
  BY <1>1
<1>3. /\ Distinct(Objs, waitq', OffLwps("UT_WAIT") \ {h}) /\ h \in OffLwps("UT_WAIT")
  <2>1. PICK S : S = OffLwps("UT_WAIT")
    OBVIOUS
  <2>2. Distinct(Objs, waitq', S \ {Head(waitq[o])}) /\ Head(waitq[o]) \in S
    BY <1>1, <2>1, DistinctTail
  <2> QED BY <1>2, <2>1, <2>2
<1>4. OffLwps("UT_WAIT")' = OffLwps("UT_WAIT")
  BY DEF OffLwps, OnNoLwp
<1>5. OneLwp' /\ RunqOK' /\ NewbornOK'
  BY DEF PlaceInv, OneLwp, RunqOK, NewbornOK, OnNoLwp, Running
<1>6. WaitqOK'
  <2>1. Distinct(Objs, waitq', OffLwps("UT_WAIT"))
    <3>1. PICK S, f : S = OffLwps("UT_WAIT") /\ f = waitq'
      OBVIOUS
    <3>2. Distinct(Objs, f, S \ {h})
      BY <1>3, <3>1
    <3>3. Distinct(Objs, f, S)
      BY <3>2 DEF Distinct
    <3> QED BY <3>1, <3>3
  <2>2. Distinct(Objs, waitq', OffLwps("UT_WAIT")')
    BY <1>4, <2>1
  <2> QED BY <2>2, PlacesDistinctNext
<1>7. WakeeOK'
  <2>1. wakee'[t] = h /\ \A v \in Threads \ {t} : wakee'[v] = wakee[v]
    BY <1>0, <1>2 DEF PlaceTypes
  <2>2. \A v \in Threads : wakee[v] # h
    BY <1>0, <1>2 DEF PlaceInv, WakeeOK
  <2>3. ASSUME NEW r \in Objs, NEW i \in 1..Len(waitq'[r])
        PROVE  /\ waitq'[r][i] # h
               /\ \E j \in 1..Len(waitq[r]) : waitq'[r][i] = waitq[r][j]
    <3>1. waitq'[r][i] # h
      BY <1>3, <2>3 DEF Distinct
    <3>2. CASE r = o
      <4>1. waitq'[r] = Tail(waitq[r]) /\ waitq[r] \in Seq(Threads) /\ waitq[r] # <<>>
        BY <1>1, <3>2
      <4>2. ASSUME NEW s \in Seq(Threads), s # <<>>, NEW j \in 1..Len(Tail(s))
            PROVE  j + 1 \in 1..Len(s) /\ Tail(s)[j] = s[j + 1]
        BY <4>2
      <4>3. i + 1 \in 1..Len(waitq[r]) /\ waitq'[r][i] = waitq[r][i + 1]
        BY <2>3, <4>1, <4>2
      <4> QED BY <3>1, <4>3
    <3>3. CASE r # o
      BY <1>1, <2>3, <3>1, <3>3
    <3> QED BY <3>2, <3>3
  <2>4. ut_state[h] = "UT_WAIT" /\ OnNoLwp(h)
    BY <1>3 DEF OffLwps
  <2>5. ASSUME NEW v \in Threads, wakee'[v] # NoThread
        PROVE  /\ ut_state[wakee'[v]] = "UT_WAIT" /\ \A k \in LWPs : curthr[k] # wakee'[v]
               /\ \A u \in Threads : wakee'[u] = wakee'[v] => u = v
               /\ \A r \in Objs : \A i \in 1..Len(waitq'[r]) : waitq'[r][i] # wakee'[v]
    <3>1. CASE v = t
      <4>1. wakee'[v] = h
        BY <2>1, <3>1
      <4>2. \A u \in Threads : wakee'[u] = h => u = t
        BY <2>1, <2>2
      <4>3. \A k \in LWPs : curthr[k] # h
        BY <2>4 DEF OnNoLwp
      <4> QED BY <2>3, <2>4, <3>1, <4>1, <4>2, <4>3
    <3>2. CASE v # t
      <4>1. /\ ut_state[wakee[v]] = "UT_WAIT" /\ \A k \in LWPs : curthr[k] # wakee[v]
            /\ \A u \in Threads : wakee[u] = wakee[v] => u = v
            /\ \A r \in Objs : \A j \in 1..Len(waitq[r]) : waitq[r][j] # wakee[v]
        BY <2>1, <2>5, <3>2 DEF PlaceInv, WakeeOK, OnNoLwp
      <4>2. \A r \in Objs : \A i \in 1..Len(waitq'[r]) : waitq'[r][i] # wakee[v]
        BY <2>3, <4>1
      <4> QED BY <2>1, <2>2, <3>2, <4>1, <4>2
    <3> QED BY <3>1, <3>2
  <2> QED BY <2>5 DEF WakeeOK, OnNoLwp
<1>8. SleeperOK'
  <2>1. \A v \in Threads : swarg'[v].queue # NoObj => v # t /\ swarg[v].queue # NoObj
    OBVIOUS
  <2> QED BY <2>1 DEF PlaceInv, SleeperOK, Running
<1> QED BY <1>5, <1>6, <1>7, <1>8 DEF Places

LEMMA SyncClientPlace ==
    ASSUME PlaceInv, PlaceTypes', NEW l \in LWPs, NEW t \in Threads, SyncClientStep(l, t)
    PROVE  Places'
<1>1. ASSUME NEW label, Enter(t, label), InClient(l, t), EntryUnchanged
      PROVE  Places'
  <2>1. Push(t, <<label>>) /\ Running(l, t) /\ stack[t] = <<>>
    BY <1>1 DEF Enter, InClient, Running
  <2>2. UNCHANGED <<curthr, ut_state, runq, waitq, wakee, newthr, swarg>>
    BY <1>1 DEF EntryUnchanged, cpuVars, runqVars, waitVars, argVars
  <2>3. \A v \in Threads \ {t} : stack'[v] = stack[v]
    BY <2>1, OtherStacks
  <2> QED BY <2>1, <2>2, <2>3, Quiet
<1>2. \E label : Enter(t, label) /\ InClient(l, t) /\ EntryUnchanged
  BY DEF SyncClientStep, UthreadMtxLock, UthreadMtxTrylock, UthreadMtxUnlock, UthreadCondWait,
         UthreadCondSignal, UthreadCondBroadcast
<1> QED BY <1>1, <1>2

\* The steps in which a thread neither goes to sleep nor wakes another.
LEMMA QuietSyncLemma ==
    ASSUME PlaceInv, PlaceTypes', NEW l \in LWPs, NEW t \in Threads,
           MtxLocked(l, t) \/ MtxTrylock(l, t) \/ CondWait(l, t) \/ CondRelock(l, t)
    PROVE  Places'
<1>1. /\ Running(l, t) /\ stack[t] # <<>> /\ Head(stack[t]) # "switch"
      /\ UNCHANGED <<curthr, ut_state, runq, waitq, wakee, newthr, swarg>>
  BY DEF MtxLocked, MtxTrylock, CondWait, CondRelock, At, cpuVars, runqVars, waitVars, argVars
<1>2. \E fs : Continue(t, fs)
  BY DEF MtxLocked, MtxTrylock, CondWait, CondRelock
<1>3. \A v \in Threads \ {t} : stack'[v] = stack[v]
  BY <1>2, OtherStacks
<1> QED BY <1>1, <1>3, Quiet

\* A thread falls asleep while it still runs, and says where to queue it.
LEMMA FallAsleep ==
    ASSUME PlaceInv, PlaceTypes', NEW l \in LWPs, NEW t \in Threads, Running(l, t), stack[t] # <<>>,
           NEW a, swarg' = [swarg EXCEPT ![t] = a], ut_state' = [ut_state EXCEPT ![t] = "UT_WAIT"],
           NEW g \in AllLabels, Continue(t, <<"switch", g>>),
           UNCHANGED <<curthr, runq, waitq, wakee, newthr>>
    PROVE  Places'
<1>1. stack'[t] # <<>> /\ Head(stack'[t]) = "switch" /\ \A v \in Threads \ {t} : stack'[v] = stack[v]
  BY LabelNames, AfterContinue DEF PlaceInv
<1>2. \A v \in Threads \ {t} : swarg'[v] = swarg[v]
  BY TypesOf DEF PlaceInv, PlaceTypes
<1> QED BY <1>1, <1>2, Restate

LEMMA SleepPlace ==
    ASSUME PlaceInv, PlaceTypes', NEW l \in LWPs, NEW t \in Threads, MtxLock(l, t) \/ CondSleep(l, t)
    PROVE  Places'
<1>1. /\ Running(l, t) /\ stack[t] # <<>> /\ Head(stack[t]) # "switch"
      /\ UNCHANGED <<curthr, runq, wakee, newthr>>
  BY DEF MtxLock, CondSleep, At, cpuVars, runqVars
<1>2. CASE MtxLock(l, t) /\ Continue(t, <<>>) /\ UNCHANGED <<ut_state, waitq, swarg>>
  <2>1. \A v \in Threads \ {t} : stack'[v] = stack[v]
    BY <1>2, OtherStacks
  <2> QED BY <1>1, <1>2, <2>1, Quiet
<1>3. CASE MtxSleep(l, t, marg[t]) /\ Continue(t, SleepFrames(t))
  <2>1. PICK g \in AllLabels : SleepFrames(t) = <<"switch", g>>
    BY LabelNames DEF SleepFrames
  <2>2. Continue(t, <<"switch", g>>)
    BY <1>3, <2>1
  <2>3. PICK a : swarg' = [swarg EXCEPT ![t] = a]
    BY <1>3 DEF MtxSleep
  <2>4. ut_state' = [ut_state EXCEPT ![t] = "UT_WAIT"] /\ UNCHANGED waitq
    BY <1>3 DEF MtxSleep
  <2> QED BY <1>1, <2>2, <2>3, <2>4, FallAsleep
<1>4. CASE CondSleep(l, t)
  <2>1. PICK a : swarg' = [swarg EXCEPT ![t] = a]
    BY <1>4 DEF CondSleep
  <2>2. ut_state' = [ut_state EXCEPT ![t] = "UT_WAIT"] /\ UNCHANGED waitq /\ Continue(t, <<"switch", "cond_relock">>)
    BY <1>4 DEF CondSleep, waitVars
  <2>3. "cond_relock" \in AllLabels
    BY LabelNames
  <2> QED BY <1>1, <2>1, <2>2, <2>3, FallAsleep
<1>5. MtxLock(l, t) =>
         \/ Continue(t, <<>>) /\ UNCHANGED <<ut_state, waitq, swarg>>
         \/ MtxSleep(l, t, marg[t]) /\ Continue(t, SleepFrames(t))
  BY DEF MtxLock
<1> QED BY <1>2, <1>3, <1>4, <1>5

LEMMA WakeNextPlace ==
    ASSUME PlaceInv, PlaceTypes', NEW l \in LWPs, NEW t \in Threads,
           MtxUnlock(l, t) \/ CondSignal(l, t) \/ CondBroadcast(l, t)
    PROVE  Places'
<1>1. /\ Running(l, t) /\ stack[t] # <<>>
      /\ Head(stack[t]) \in {"mtx_unlock", "cond_signal", "cond_broadcast"}
      /\ UNCHANGED <<curthr, ut_state, runq, newthr, swarg>>
  BY DEF MtxUnlock, CondSignal, CondBroadcast, At, cpuVars, runqVars
<1>2. \A v \in Threads \ {t} : stack'[v] = stack[v]
  <2>1. \E fs : Continue(t, fs)
    BY DEF MtxUnlock, CondSignal, CondBroadcast, WakeOldest, PassOn
  <2> QED BY <2>1, OtherStacks
<1>3. swarg[t].queue = NoObj
  BY <1>1, NotAsleep
<1>4. PICK o \in Objs :
         \/ UNCHANGED <<waitq, wakee>>
         \/ /\ waitq[o] # <<>> /\ waitq' = [waitq EXCEPT ![o] = Tail(@)]
            /\ wakee' = [wakee EXCEPT ![t] = Head(waitq[o])]
  <2>0. Mutexes \cup Conds \subseteq Objs
    BY SyncAssumption DEF Objs
  <2>1. CASE MtxUnlock(l, t)
    <3>1. marg[t] \in Objs
      BY <2>0, <2>1 DEF MtxUnlock, At, PlaceInv, TypeInv, ArgumentsOK, ArgumentsOf, NeedsMutex, Pending, SyncTypeOK
    <3> QED BY <2>1, <3>1 DEF MtxUnlock, PassOn
  <2>2. CASE CondSignal(l, t) \/ CondBroadcast(l, t)
    <3>1. carg[t] \in Objs
      BY <2>0, <2>2 DEF CondSignal, CondBroadcast, At, PlaceInv, TypeInv, ArgumentsOK, ArgumentsOf, NeedsCond, Pending, SyncTypeOK
    <3> QED BY <2>2, <3>1 DEF CondSignal, CondBroadcast, WakeOldest
  <2> QED BY <2>1, <2>2
<1>5. CASE UNCHANGED <<waitq, wakee>>
  BY <1>1, <1>2, <1>5, Quiet
<1>6. CASE ~UNCHANGED <<waitq, wakee>>
  BY <1>1, <1>2, <1>3, <1>4, <1>6, Dequeued
<1> QED BY <1>5, <1>6

-----------------------------------------------------------------------------
(* LWPs.                                                                   *)

LEMMA ReleaseKeeps ==
    ASSUME NEW lw \in [LWPs -> {"unborn", "running", "parked", "signalled"}], NEW rq,
           NEW lw2 \in Released(rq, lw), NEW k \in LWPs
    PROVE  lw[k] = "running" => lw2[k] = "running"
  BY DEF Released, LwpRelease

LEMMA DispatchLwp ==
    ASSUME LwpOK, NEW l \in LWPs, NEW rq, NEW sz, NEW st,
           NEW lw \in [LWPs -> {"unborn", "running", "parked", "signalled"}],
           curthr \in [LWPs -> Threads \cup {NoThread}],
           \A k \in LWPs : lwp[k] = "running" => lw[k] = "running",
           Dispatch(l, rq, sz, st, lw)
    PROVE  LwpOK'
<1>1. CASE PickThread(l, rq, sz, st, lw)
  <2>1. \E h : curthr' = [curthr EXCEPT ![l] = h] /\ lwp' = [lw EXCEPT ![l] = "running"]
    BY <1>1 DEF PickThread
  <2> QED BY <2>1 DEF LwpOK
<1>2. CASE Park(l, rq, sz, st, lw)
  BY <1>2 DEF Park, LwpOK
<1>3. CASE BadQueue(l, rq, sz, st, lw)
  BY <1>3 DEF BadQueue, LwpOK
<1> QED BY <1>1, <1>2, <1>3 DEF Dispatch

LEMMA LwpTypes ==
    ASSUME TypeInv
    PROVE  /\ lwp \in [LWPs -> {"unborn", "running", "parked", "signalled"}]
           /\ curthr \in [LWPs -> Threads \cup {NoThread}]
  BY DEF TypeInv, SyncTypeOK, SchedTypes

LEMMA LwpStepOK ==
    ASSUME TypeInv, LwpOK, NEW l \in LWPs, LwpStep(l)
    PROVE  LwpOK'
<1>1. CASE Dispatch(l, runq, tq_size, ut_state, lwp)
  BY <1>1, LwpTypes, DispatchLwp
<1>2. CASE UNCHANGED curthr /\ lwp[l] # "running" /\ \E s : lwp' = [lwp EXCEPT ![l] = s]
  BY <1>2, LwpTypes DEF LwpOK
<1> QED BY <1>1, <1>2 DEF LwpStep, LwpStart, Unpark, SpuriousWakeup

LEMMA LibraryStepOK ==
    ASSUME TypeInv, LwpOK, NEW l \in LWPs, NEW t \in Threads, LibraryStep(l, t)
    PROVE  LwpOK'
<1>1. CASE UNCHANGED cpuVars
  BY <1>1 DEF cpuVars, LwpOK
<1>2. CASE UNCHANGED curthr /\ \E rq : lwp' \in Released(rq, lwp)
  BY <1>2, LwpTypes, ReleaseKeeps DEF LwpOK
<1>3. CASE Switch(l, t)
  <2>1. PICK rq, sz, st, lw : Dispatch(l, rq, sz, st, lw) /\ (lw = lwp \/ lw \in Released(runq, lwp))
    BY <1>3 DEF Switch
  <2>2. /\ lw \in [LWPs -> {"unborn", "running", "parked", "signalled"}]
        /\ \A k \in LWPs : lwp[k] = "running" => lw[k] = "running"
    BY <2>1, LwpTypes, ReleasedType, ReleaseKeeps
  <2> QED BY <2>1, <2>2, LwpTypes, DispatchLwp
<1>4. SwitchAborts(l, t) \/ Return(l, t) \/ YieldLock(l, t) \/ WakeUnlock(l, t) \/ SetprioWrite(l, t)
        \/ SetprioLock(l, t) \/ AllocClaim(l, t) \/ CreateInit(l, t) \/ AllocStackFails(l, t)
      => UNCHANGED cpuVars
  BY DEF SwitchAborts, Return, YieldLock, WakeUnlock, SetprioWrite, SetprioLock, AllocClaim, CreateInit,
         AllocStackFails
<1>5. Wake(l, t) => UNCHANGED cpuVars \/ (UNCHANGED curthr /\ \E rq : lwp' \in Released(rq, lwp))
  BY DEF Wake, MakeRunnable, WakeQueues, cpuVars
<1>6. ASSUME NEW prio \in Prios, StartOnRunq(l, t, prio)
      PROVE  UNCHANGED cpuVars \/ (UNCHANGED curthr /\ \E rq : lwp' \in Released(rq, lwp))
  BY <1>6 DEF StartOnRunq, cpuVars
<1> QED BY <1>1, <1>2, <1>3, <1>4, <1>5, <1>6 DEF LibraryStep

LEMMA OtherStepOK ==
    ASSUME LwpOK, NEW l \in LWPs, NEW t \in Threads,
           ClientStep(l, t) \/ ClockInterrupt(l, t) \/ SyncLibraryStep(l, t) \/ SyncClientStep(l, t)
    PROVE  LwpOK'
<1>1. ClientStep(l, t) \/ ClockInterrupt(l, t) => UNCHANGED cpuVars
  BY DEF ClientStep, ClockInterrupt, UthreadYield, UthreadBlock, UthreadWake, AllocScan, AllocFound, SetprioRead
<1>2. SyncLibraryStep(l, t) => UNCHANGED cpuVars
  BY DEF SyncLibraryStep, MtxLock, MtxLocked, MtxTrylock, MtxUnlock, CondWait, CondSleep, CondRelock,
         CondSignal, CondBroadcast
<1>3. SyncClientStep(l, t) => UNCHANGED cpuVars
  BY DEF SyncClientStep, UthreadMtxLock, UthreadMtxTrylock, UthreadMtxUnlock, UthreadCondWait,
         UthreadCondSignal, UthreadCondBroadcast, EntryUnchanged
<1> QED BY <1>1, <1>2, <1>3 DEF cpuVars, LwpOK

-----------------------------------------------------------------------------
LEMMA PlaceInvInit == SyncInit => PlaceInv
<1> SUFFICES ASSUME SyncInit PROVE PlaceInv
  OBVIOUS
<1>0. TypeInv
  BY TypeInvInit
<1> USE SchedAssumption DEF SyncInit, SchedInit
<1>1. LwpOK /\ OneLwp
  BY DEF LwpOK, OneLwp
<1>2. \A l \in LWPs : curthr[l] = NoThread
  OBVIOUS
<1>3. RunqOK
  <2>1. MaxPrio \in Prios /\ \A p \in Prios : p # MaxPrio => runq[p] = <<>>
    BY DEF Prios
  <2>2. runq[MaxPrio] = Boot /\ Boot \in Seq(Threads)
    BY <2>1
  <2>3. \A i \in 1..Len(Boot) : Boot[i] \in Threads /\ ut_state[Boot[i]] = "UT_RUNNABLE"
    <3>1. \A i \in 1..Len(Boot) : Boot[i] \in Threads /\ Contains(Boot, Boot[i])
      BY <2>2 DEF Contains
    <3> QED BY <3>1
  <2>4. ASSUME NEW p \in Prios, NEW i \in 1..Len(runq[p])
        PROVE  p = MaxPrio /\ i \in 1..Len(Boot) /\ runq[p][i] = Boot[i]
    <3>1. p = MaxPrio
      BY <2>1, <2>4
    <3> QED BY <2>2, <2>4, <3>1
  <2>5. \A i, j \in 1..Len(Boot) : Boot[i] = Boot[j] => i = j
    OBVIOUS
  <2> QED BY <1>2, <2>3, <2>4, <2>5 DEF RunqOK, OnNoLwp
<1>4. WaitqOK
  BY DEF WaitqOK
<1>5. WakeeOK
  BY DEF WakeeOK
<1>6. SleeperOK
  BY DEF SleeperOK, NoSwitch
<1>7. NewbornOK
  BY <1>2 DEF NewbornOK, Running
<1> QED BY <1>0, <1>1, <1>3, <1>4, <1>5, <1>6, <1>7 DEF PlaceInv

LEMMA PlaceInvNext ==
    ASSUME Disciplined, PlaceInv, [SyncNext]_syncVars
    PROVE  PlaceInv'
<1>1. TypeInv /\ LwpOK /\ TypeInv'
  BY TypeInvNext DEF PlaceInv
<1>2. PlaceTypes'
  BY <1>1, TypesNext
<1>3. CASE UNCHANGED syncVars
  BY <1>1, <1>3 DEF PlaceInv, LwpOK, OneLwp, RunqOK, WaitqOK, WakeeOK, SleeperOK, NewbornOK, OnNoLwp, Running,
        syncVars, schedVars, cpuVars, thrVars, runqVars, waitVars, argVars
<1>4. ASSUME NEW l \in LWPs, LwpStep(l)
      PROVE  LwpOK' /\ Places'
  <2>1. LwpOK'
    BY <1>1, <1>4, LwpStepOK
  <2>2. CASE SpuriousWakeup(l)
    <3>1. UNCHANGED <<curthr, ut_state, runq, waitq, stack, swarg, wakee, newthr>>
      BY <2>2 DEF SpuriousWakeup, thrVars, runqVars, waitVars, argVars
    <3> QED BY <2>1, <3>1 DEF PlaceInv, Places, OneLwp, RunqOK, WaitqOK, WakeeOK, SleeperOK, NewbornOK, OnNoLwp, Running
  <2>3. CASE LwpStart(l) \/ Unpark(l)
    <3>1. curthr[l] = NoThread
      BY <1>1, <2>3 DEF LwpOK, LwpStart, Unpark
    <3> QED BY <1>2, <2>1, <2>3, <3>1, LwpPlace
  <2> QED BY <1>4, <2>2, <2>3 DEF LwpStep
<1>5. ASSUME NEW l \in LWPs, NEW t \in Threads, LibraryStep(l, t)
      PROVE  LwpOK' /\ Places'
  <2>1. LwpOK'
    BY <1>1, <1>5, LibraryStepOK
  <2>2. Places'
    BY <1>2, <1>5, SwitchPlace, QuietSchedLemma, YieldLockPlace, WakePlace, SetprioPlace, AllocPlace, StartPlace
       DEF LibraryStep
  <2> QED BY <2>1, <2>2
<1>6. ASSUME NEW l \in LWPs, NEW t \in Threads, ClientStep(l, t) \/ ClockInterrupt(l, t)
      PROVE  LwpOK' /\ Places'
  BY <1>1, <1>2, <1>6, OtherStepOK, SchedClientLemma
<1>7. ASSUME NEW l \in LWPs, NEW t \in Threads, SyncLibraryStep(l, t)
      PROVE  LwpOK' /\ Places'
  <2>1. LwpOK'
    BY <1>1, <1>7, OtherStepOK
  <2>2. Places'
    BY <1>2, <1>7, QuietSyncLemma, SleepPlace, WakeNextPlace DEF SyncLibraryStep
  <2> QED BY <2>1, <2>2
<1>8. ASSUME NEW l \in LWPs, NEW t \in Threads, SyncClientStep(l, t)
      PROVE  LwpOK' /\ Places'
  BY <1>1, <1>2, <1>8, OtherStepOK, SyncClientPlace
<1>9. CASE SyncNext
  <2>1. LwpOK' /\ Places'
    BY <1>4, <1>5, <1>6, <1>7, <1>8, <1>9 DEF SyncNext, SchedNext
  <2> QED BY <1>1, <2>1 DEF PlaceInv, Places
<1> QED BY <1>3, <1>9

LEMMA PlaceInvImplies == PlaceInv => ThreadInOnePlace
<1> SUFFICES ASSUME PlaceInv PROVE ThreadInOnePlace
  OBVIOUS
<1>0. PlaceTypes /\ NoThread \notin Threads
  BY TypesOf DEF PlaceInv
<1>1. OneStackOneLwp
  BY DEF PlaceInv, OneLwp, RunqOK, OneStackOneLwp, OnNoLwp
<1>2. ASSUME NEW v, ut_state[v] = "UT_WAIT", NEW p \in Prios
      PROVE  ~Contains(runq[p], v)
  BY <1>0, <1>2 DEF PlaceInv, RunqOK, Contains
<1>3. ASSUME NEW o \in Objs, NEW i \in 1..Len(waitq[o])
      PROVE  /\ \A l \in LWPs : curthr[l] # waitq[o][i]
             /\ \A p \in Prios : ~Contains(runq[p], waitq[o][i])
             /\ \A r \in Objs : \A j \in 1..Len(waitq[r]) : waitq[o][i] = waitq[r][j] => o = r /\ i = j
             /\ \A u \in Threads : wakee[u] # waitq[o][i]
  <2>1. /\ ut_state[waitq[o][i]] = "UT_WAIT" /\ \A l \in LWPs : curthr[l] # waitq[o][i]
        /\ \A r \in Objs : \A j \in 1..Len(waitq[r]) : waitq[o][i] = waitq[r][j] => o = r /\ i = j
    BY <1>3 DEF PlaceInv, WaitqOK, OnNoLwp
  <2>2. waitq[o][i] \in Threads
    BY <1>0, <1>3 DEF PlaceTypes
  <2>3. \A u \in Threads : wakee[u] # waitq[o][i]
    BY <1>0, <1>3, <2>2 DEF PlaceInv, WakeeOK
  <2> QED BY <1>2, <2>1, <2>3
<1>4. ASSUME NEW t \in Threads, wakee[t] # NoThread
      PROVE  /\ \A u \in Threads : wakee[t] = wakee[u] => t = u
             /\ \A l \in LWPs : curthr[l] # wakee[t]
             /\ \A p \in Prios : ~Contains(runq[p], wakee[t])
  <2>1. /\ ut_state[wakee[t]] = "UT_WAIT" /\ \A l \in LWPs : curthr[l] # wakee[t]
        /\ \A u \in Threads : wakee[t] = wakee[u] => t = u
    BY <1>4 DEF PlaceInv, WakeeOK, OnNoLwp
  <2> QED BY <1>2, <2>1
<1> QED BY <1>1, <1>3, <1>4 DEF ThreadInOnePlace

\* Whatever the interleaving of the LWPs, no thread is ever in two of these
\* places or twice in one: an LWP, a run queue, a wait queue, and the hands of
\* the thread about to wake it.
THEOREM PlaceCorrect ==
    ASSUME Disciplined
    PROVE  SyncSpec => []ThreadInOnePlace
<1>1. SyncInit => PlaceInv
  BY PlaceInvInit
<1>2. PlaceInv /\ [SyncNext]_syncVars => PlaceInv'
  BY PlaceInvNext
<1>3. PlaceInv => ThreadInOnePlace
  BY PlaceInvImplies
<1> QED BY <1>1, <1>2, <1>3, PTL DEF SyncSpec
==============================================================================
