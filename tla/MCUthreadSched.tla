--------------------------- MODULE MCUthreadSched ---------------------------
(* Small instances of the scheduler for TLC.                               *)
EXTENDS UthreadSched

CONSTANTS t1,
          MaxDrift  \* bound on |tq_size - length| of a run queue

MCBoot == <<t1>>
Symmetry == Permutations(LWPs) \cup Permutations(Threads \ {t1})

\* A lost race of uthread_setprio adds one to the difference, without end.
DriftBounded == \A p \in Prios : tq_size[p] - Len(runq[p]) \in -MaxDrift..MaxDrift
=============================================================================
