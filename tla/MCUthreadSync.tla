---------------------------- MODULE MCUthreadSync ----------------------------
(* Small instances of the mutexes and condition variables for TLC.         *)
EXTENDS UthreadMonitor, UthreadInv

CONSTANTS t1

MCBoot == <<t1>>
MCSyncObjs == Mutexes \cup Conds
Symmetry == Permutations(LWPs) \cup Permutations(Threads \ {t1})
=============================================================================
