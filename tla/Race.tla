---------------------------------- MODULE Race ----------------------------------
(***************************************************************************)
(* The relay race of systems/cs033/lab12: two teams of two threads.  The   *)
(* first of a team runs and broadcasts its condition; the second waits for *)
(* that, runs, and announces under the race mutex whether its team is the  *)
(* first.  The wait has no flag and no lock around it, so the broadcast    *)
(* may come before it, and it may end by itself.                           *)
(***************************************************************************)
EXTENDS Naturals

CONSTANTS Teams, Nobody

VARIABLES a, b,            \* where the two racers of each team are
          mutex,           \* of the race
          saw,             \* what announce read of someone_finished
          someone_finished,
          gold, silver,    \* the teams announced as first and as second
          joined           \* how many of the two of each team main has joined

raceVars == <<a, b, mutex, saw, someone_finished, gold, silver, joined>>

Init ==
    /\ a = [t \in Teams |-> "barrier"] /\ b = [t \in Teams |-> "barrier"]
    /\ mutex = Nobody
    /\ saw = [t \in Teams |-> FALSE]
    /\ someone_finished = FALSE
    /\ gold = {} /\ silver = {}
    /\ joined = [t \in Teams |-> 0]

\* All four are there.
Barrier ==
    /\ \A t \in Teams : a[t] = "barrier" /\ b[t] = "barrier"
    /\ a' = [t \in Teams |-> "run"] /\ b' = [t \in Teams |-> "wait"]
    /\ UNCHANGED <<mutex, saw, someone_finished, gold, silver, joined>>

\* run_racer_a: calculate, finished = 1, and the broadcast, which wakes the other if it waits.
Broadcast(t) ==
    /\ a[t] = "run"
    /\ a' = [a EXCEPT ![t] = "done"]
    /\ b' = [b EXCEPT ![t] = IF @ = "asleep" THEN "run" ELSE @]
    /\ UNCHANGED <<mutex, saw, someone_finished, gold, silver, joined>>

To(t, from, to) == b[t] = from /\ b' = [b EXCEPT ![t] = to]

CondWait(t) == To(t, "wait", "asleep")
               /\ UNCHANGED <<a, mutex, saw, someone_finished, gold, silver, joined>>

\* pthread_cond_wait may return by itself.
Spurious(t) == To(t, "asleep", "run")
               /\ UNCHANGED <<a, mutex, saw, someone_finished, gold, silver, joined>>

\* Mutant of Lock: the race mutex is not taken.
NoLock(t) == /\ To(t, "run", "announce")
             /\ UNCHANGED <<a, mutex, saw, someone_finished, gold, silver, joined>>

Lock(t) ==
    /\ To(t, "run", "announce") /\ mutex = Nobody
    /\ mutex' = t
    /\ UNCHANGED <<a, saw, someone_finished, gold, silver, joined>>

Read(t) == /\ To(t, "announce", "print")
           /\ saw' = [saw EXCEPT ![t] = someone_finished]
           /\ UNCHANGED <<a, mutex, someone_finished, gold, silver, joined>>

Announce(t) ==
    /\ To(t, "print", "unlock")
    /\ someone_finished' = TRUE
    /\ IF saw[t] THEN silver' = silver \cup {t} /\ UNCHANGED gold
       ELSE gold' = gold \cup {t} /\ UNCHANGED silver
    /\ UNCHANGED <<a, mutex, saw, joined>>

Unlock(t) == /\ To(t, "unlock", "done")
             /\ mutex' = Nobody
             /\ UNCHANGED <<a, saw, someone_finished, gold, silver, joined>>

\* main joins the first racers, and then the second ones; in which order the teams come
\* does not matter, as it waits for all.
Join(t) ==
    /\ \/ joined[t] = 0 /\ a[t] = "done"
       \/ joined[t] = 1 /\ b[t] = "done" /\ \A s \in Teams : joined[s] > 0
    /\ joined' = [joined EXCEPT ![t] = @ + 1]
    /\ UNCHANGED <<a, b, mutex, saw, someone_finished, gold, silver>>

Next == \/ Barrier
        \/ \E t \in Teams : \/ Broadcast(t) \/ CondWait(t) \/ Spurious(t)
                            \/ Lock(t) \/ Read(t) \/ Announce(t) \/ Unlock(t)
                            \/ Join(t)

Spec == Init /\ [][Next]_raceVars

------------------------------------------------------------------------------

Idle(t)   == a[t] = "done" /\ b[t] \in {"asleep", "done"}
AllJoined == \A t \in Teams : joined[t] = 2

\* At most one team is announced as the first, and a second only after a first
\* (race.c:181-190), although the flag is read and set in two steps.
OneWinner == (\A s, t \in gold : s = t) /\ (silver # {} => gold # {})

\* When nobody runs the mutex is free, and if nobody sleeps all have been announced.
NoHang ==
    (\A t \in Teams : Idle(t)) =>
        /\ mutex = Nobody
        /\ (\A t \in Teams : b[t] # "asleep") => gold # {} /\ gold \cup silver = Teams

\* The race has one winner; when main goes on, one has won and the others have not; and
\* the race hangs only because a racer waits for a broadcast that was over before it began
\* to wait.
RaceDecided ==
    /\ OneWinner
    /\ AllJoined => gold \cup silver = Teams /\ gold \cap silver = {} /\ gold # {}
    /\ NoHang
=================================================================================
