---------------------------- MODULE MCUthreadLife ----------------------------
(* Small instances of the life cycle for TLC.                              *)
EXTENDS UthreadLife

CONSTANTS t1, t2

MCBoot     == <<t1, Reaper>>
MCSyncObjs == {reap_mtx, reap_cond}
\* Main and the reaper are born detached.  A child may detach itself.
Children   == Threads \ {t1, Reaper}
AllPairs   == {p \in (Threads \ {Reaper}) \X Children : p[1] # p[2]}
SelfPairs  == {<<u, u>> : u \in Children}
MainJoins  == {<<t1, t2>>}
BothPairs  == AllPairs \cup SelfPairs
=============================================================================
