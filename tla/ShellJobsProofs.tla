---------------------------- MODULE ShellJobsProofs ----------------------------
(***************************************************************************)
(* The job table of shell_2 is exact and its terminal in the right hands,  *)
(* for any number of children and any behaviour of theirs.                 *)
(***************************************************************************)
EXTENDS ShellJobs, TLAPS

\* Neither the shell nor -1 is a child.
PidsApart == Shell \notin Pids /\ NoPid \notin Pids

Procs   == {"none", "forked", "grouped", "run", "stop", "dead"}
Events  == {"none"} \cup Ends \cup Changes
Entries == [pid : Pids, jid : Int, state : {"Running", "Stopped"}]

ShTypeOK ==
    /\ proc \in [Pids -> Procs] /\ event \in [Pids -> Events] /\ fore \in [Pids -> BOOLEAN]
    /\ term \in Pids \cup {Shell} /\ current \in Pids \cup {NoPid} /\ pid \in Pids \cup {NoPid}
    /\ job_list \in Seq(Entries) /\ count \in Int
    /\ pc \in {"read", "wait", "fg", "sweep", "exited"} /\ nohang \in BOOLEAN

\* What a status that waitpid has not reported says of its child.
EventRight(p) ==
    /\ proc[p] = "dead" <=> event[p] \in Ends
    /\ event[p] = "stopped" => proc[p] = "stop"
    /\ event[p] = "continued" => proc[p] = "run"

\* Only the child that the shell waits for is about to take the terminal.
ForeRight(p) == fore[p] => pc = "wait" /\ pid = p /\ ~nohang /\ proc[p] = "forked"

\* The children not reaped are in the list, but for one that has just been forked.
JobOfEach ==
    /\ pc # "exited" => \A p \in Pids : Listed(p) <=> proc[p] # "none" /\ ~(pc = "wait" /\ p = pid)
    /\ pc = "exited" => job_list = <<>>

InOrder ==
    \A i, j \in DOMAIN job_list : i < j => /\ job_list[i].pid # job_list[j].pid
                                           /\ job_list[i].jid < job_list[j].jid

EntryRight(i) ==
    LET j == job_list[i] IN
    /\ j.jid < count
    /\ event[j.pid] = "none" => (j.state = "Stopped" <=> proc[j.pid] = "stop")

\* The iterator is at the head, or, in a sweep, at a job or past the last one.
IteratorRight ==
    /\ pc # "sweep" => current = HeadPid(job_list)
    /\ pc = "sweep" => current = NoPid \/ Listed(current)

WaitRight ==
    /\ pc \in {"read", "exited"} => pid = NoPid /\ term = Shell
    /\ term \in {Shell, pid}
    /\ pc \in {"wait", "fg"} =>
          pid \in Pids /\ proc[pid] # "none" /\ (proc[pid] = "stop" => event[pid] # "none")

ShellInv ==
    /\ ShTypeOK /\ (\A p \in Pids : EventRight(p) /\ ForeRight(p))
    /\ JobOfEach /\ InOrder /\ (\A i \in DOMAIN job_list : EntryRight(i))
    /\ IteratorRight /\ WaitRight

--------------------------------------------------------------------------------
(* The job list.                                                                *)

LEMMA ListFacts ==
    ASSUME ShellInv
    PROVE  /\ job_list \in Seq(Entries) /\ DOMAIN job_list = 1 .. Len(job_list) /\ Len(job_list) \in Nat
           /\ \A i \in 1 .. Len(job_list) : job_list[i] \in Entries /\ job_list[i].pid \in Pids
<1>1. job_list \in Seq(Entries)
  BY DEF ShellInv, ShTypeOK
<1>2. ASSUME NEW i \in 1 .. Len(job_list) PROVE job_list[i] \in Entries
  BY <1>1
<1>3. \A e \in Entries : e.pid \in Pids
  BY DEF Entries
<1> QED BY <1>1, <1>2, <1>3

LEMMA PlaceFacts ==
    ASSUME ShellInv, NEW p, Listed(p)
    PROVE  /\ Place(p) \in 1 .. Len(job_list) /\ job_list[Place(p)].pid = p
           /\ \A i \in 1 .. Len(job_list) : job_list[i].pid = p <=> i = Place(p)
<1>1. Place(p) \in 1 .. Len(job_list) /\ job_list[Place(p)].pid = p
  BY ListFacts DEF Place, Listed
<1>2. ASSUME NEW i \in 1 .. Len(job_list), job_list[i].pid = p PROVE i = Place(p)
  BY <1>1, <1>2, ListFacts DEF ShellInv, InOrder
<1> QED BY <1>1, <1>2

LEMMA UpdatedFacts ==
    ASSUME ShellInv, NEW p, NEW st \in {"Running", "Stopped"}
    PROVE  /\ Updated(job_list, p, st) \in Seq(Entries) /\ Len(Updated(job_list, p, st)) = Len(job_list)
           /\ \A i \in 1 .. Len(job_list) :
                 /\ Updated(job_list, p, st)[i].pid = job_list[i].pid
                 /\ Updated(job_list, p, st)[i].jid = job_list[i].jid
                 /\ Updated(job_list, p, st)[i].state =
                       IF job_list[i].pid = p THEN st ELSE job_list[i].state
<1> DEFINE u == Updated(job_list, p, st)
<1>1. u = [i \in 1 .. Len(job_list) |-> IF job_list[i].pid = p THEN [job_list[i] EXCEPT !.state = st]
                                       ELSE job_list[i]]
  BY ListFacts DEF Updated
<1>2. ASSUME NEW i \in 1 .. Len(job_list)
      PROVE  /\ u[i] \in Entries /\ u[i].pid = job_list[i].pid /\ u[i].jid = job_list[i].jid
             /\ u[i].state = IF job_list[i].pid = p THEN st ELSE job_list[i].state
  <2>1. job_list[i] \in Entries /\ u[i] = IF job_list[i].pid = p THEN [job_list[i] EXCEPT !.state = st]
                                        ELSE job_list[i]
    BY <1>1, ListFacts
  <2> HIDE DEF u
  <2> QED BY <2>1 DEF Entries
<1>3. u \in [1 .. Len(job_list) -> Entries]
  BY <1>1, <1>2
<1> HIDE DEF u
<1>4. u \in Seq(Entries) /\ Len(u) = Len(job_list)
  BY <1>3, ListFacts
<1> QED BY <1>2, <1>4 DEF u

LEMMA RemoveAtFacts ==
    ASSUME NEW S, NEW s \in Seq(S), NEW k \in 1 .. Len(s)
    PROVE  /\ RemoveAt(s, k) \in Seq(S) /\ Len(RemoveAt(s, k)) = Len(s) - 1
           /\ \A i \in 1 .. Len(s) - 1 : RemoveAt(s, k)[i] = s[IF i < k THEN i ELSE i + 1]
<1>1. Len(s) \in Nat /\ k \in Nat
  OBVIOUS
<1>2. /\ SubSeq(s, 1, k - 1) \in Seq(S) /\ Len(SubSeq(s, 1, k - 1)) = k - 1
      /\ \A j \in 1..(k - 1) : SubSeq(s, 1, k - 1)[j] = s[j]
  BY <1>1
<1>3. /\ SubSeq(s, k + 1, Len(s)) \in Seq(S) /\ Len(SubSeq(s, k + 1, Len(s))) = Len(s) - k
      /\ \A j \in 1..(Len(s) - k) : SubSeq(s, k + 1, Len(s))[j] = s[k + j]
  BY <1>1
<1> DEFINE a == SubSeq(s, 1, k - 1)
           b == SubSeq(s, k + 1, Len(s))
<1>4. RemoveAt(s, k) = a \o b
  BY DEF RemoveAt
<1> HIDE DEF a, b
<1>5. a \in Seq(S) /\ Len(a) = k - 1 /\ b \in Seq(S) /\ Len(b) = Len(s) - k
  BY <1>2, <1>3 DEF a, b
<1>6. a \o b \in Seq(S) /\ Len(a \o b) = Len(s) - 1
  BY <1>1, <1>5
<1>7. ASSUME NEW i \in 1 .. Len(s) - 1
      PROVE  (a \o b)[i] = s[IF i < k THEN i ELSE i + 1]
  <2>1. CASE i < k
    <3>1. i \in 1..(k - 1) /\ (a \o b)[i] = a[i]
      BY <1>1, <1>5, <2>1
    <3> QED BY <1>2, <2>1, <3>1 DEF a
  <2>2. CASE ~(i < k)
    <3>1. (a \o b)[i] = b[i - (k - 1)]
      BY <1>1, <1>5, <2>2
    <3>2. i - (k - 1) \in 1 .. Len(s) - k /\ k + (i - (k - 1)) = i + 1
      BY <1>1, <2>2
    <3>3. b[i - (k - 1)] = s[k + (i - (k - 1))]
      BY <1>3, <3>2 DEF b
    <3> QED BY <2>2, <3>1, <3>2, <3>3
  <2> QED BY <2>1, <2>2
<1> QED BY <1>4, <1>6, <1>7

LEMMA RemovedFacts ==
    ASSUME ShellInv, NEW p, Listed(p)
    PROVE  /\ Removed(p) \in Seq(Entries) /\ Len(Removed(p)) = Len(job_list) - 1
           /\ \A i \in 1 .. Len(job_list) - 1 :
                 Removed(p)[i] = job_list[IF i < Place(p) THEN i ELSE i + 1]
<1>1. Place(p) \in 1 .. Len(job_list) /\ job_list \in Seq(Entries)
  BY PlaceFacts, ListFacts
<1>2. Removed(p) = RemoveAt(job_list, Place(p))
  BY DEF Removed
<1> QED BY <1>1, <1>2, RemoveAtFacts

LEMMA AppendedFacts ==
    ASSUME ShellInv, NEW e \in Entries
    PROVE  /\ Append(job_list, e) \in Seq(Entries) /\ Len(Append(job_list, e)) = Len(job_list) + 1
           /\ \A i \in 1 .. Len(job_list) : Append(job_list, e)[i] = job_list[i]
           /\ Append(job_list, e)[Len(job_list) + 1] = e
BY ListFacts

\* What the three changes of the list do to what it means.
LEMMA SameOrder ==
    ASSUME ShellInv, job_list' \in Seq(Entries), Len(job_list') = Len(job_list),
           \A i \in 1 .. Len(job_list) : job_list'[i].pid = job_list[i].pid /\ job_list'[i].jid = job_list[i].jid
    PROVE  /\ InOrder' /\ HeadPid(job_list') = HeadPid(job_list)
           /\ \A q : Listed(q)' <=> Listed(q)
<1>1. DOMAIN job_list = 1 .. Len(job_list) /\ DOMAIN job_list' = 1 .. Len(job_list) /\ Len(job_list) \in Nat
  BY ListFacts
<1>2. InOrder'
  BY <1>1 DEF ShellInv, InOrder
<1>3. \A q : Listed(q)' <=> Listed(q)
  BY <1>1 DEF Listed
<1>4. HeadPid(job_list') = HeadPid(job_list)
  <2>1. job_list' = <<>> <=> job_list = <<>>
    BY ListFacts
  <2>2. job_list # <<>> => 1 \in 1 .. Len(job_list)
    BY ListFacts
  <2> QED BY <2>1, <2>2 DEF HeadPid
<1> QED BY <1>2, <1>3, <1>4

LEMMA JobUpdated ==
    ASSUME ShellInv, NEW p, NEW st \in {"Running", "Stopped"}, job_list' = Updated(job_list, p, st)
    PROVE  /\ job_list' \in Seq(Entries) /\ InOrder' /\ HeadPid(job_list') = HeadPid(job_list)
           /\ \A q : Listed(q)' <=> Listed(q)
           /\ \A i \in DOMAIN job_list' :
                 /\ i \in DOMAIN job_list
                 /\ job_list'[i].pid = job_list[i].pid /\ job_list'[i].jid = job_list[i].jid
                 /\ job_list'[i].state = IF job_list[i].pid = p THEN st ELSE job_list[i].state
<1>1. /\ job_list' \in Seq(Entries) /\ Len(job_list') = Len(job_list)
      /\ \A i \in 1 .. Len(job_list) :
            /\ job_list'[i].pid = job_list[i].pid /\ job_list'[i].jid = job_list[i].jid
            /\ job_list'[i].state = IF job_list[i].pid = p THEN st ELSE job_list[i].state
  BY UpdatedFacts
<1>2. DOMAIN job_list = 1 .. Len(job_list) /\ DOMAIN job_list' = 1 .. Len(job_list)
  BY <1>1, ListFacts
<1> QED BY <1>1, <1>2, SameOrder

LEMMA JobRemoved ==
    ASSUME ShellInv, NEW p, Listed(p), job_list' = Removed(p)
    PROVE  /\ job_list' \in Seq(Entries) /\ InOrder'
           /\ HeadPid(job_list') = IF HeadPid(job_list) = p THEN After(p) ELSE HeadPid(job_list)
           /\ \A q : Listed(q)' <=> Listed(q) /\ q # p
           /\ \A i \in DOMAIN job_list' : \E j \in DOMAIN job_list : job_list'[i] = job_list[j] /\ job_list[j].pid # p
<1> DEFINE n == Len(job_list)
           k == Place(p)
<1>1. /\ job_list' \in Seq(Entries) /\ Len(job_list') = n - 1
      /\ \A i \in 1 .. n - 1 : job_list'[i] = job_list[IF i < k THEN i ELSE i + 1]
  BY RemovedFacts
<1>2. /\ k \in 1 .. n /\ job_list[k].pid = p
      /\ \A i \in 1 .. n : job_list[i].pid = p <=> i = k
  BY PlaceFacts
<1>3. n \in Nat /\ DOMAIN job_list = 1 .. n /\ DOMAIN job_list' = 1 .. n - 1
  BY <1>1, ListFacts
<1>4. After(p) = IF k = n THEN NoPid ELSE job_list[k + 1].pid
  BY DEF After
<1>5. HeadPid(job_list) = job_list[1].pid
  BY <1>2, <1>3 DEF HeadPid
<1>6. HeadPid(job_list') = IF n = 1 THEN NoPid ELSE job_list'[1].pid
  BY <1>1, <1>2, <1>3 DEF HeadPid
<1> HIDE DEF n, k
<1>7. InOrder'
  <2>1. \A i, j \in 1 .. n : i < j => job_list[i].pid # job_list[j].pid /\ job_list[i].jid < job_list[j].jid
    BY <1>3 DEF ShellInv, InOrder
  <2>2. ASSUME NEW i \in 1 .. n - 1, NEW j \in 1 .. n - 1, i < j
        PROVE  job_list'[i].pid # job_list'[j].pid /\ job_list'[i].jid < job_list'[j].jid
    <3>1. PICK x \in 1 .. n, y \in 1 .. n : x < y /\ job_list'[i] = job_list[x] /\ job_list'[j] = job_list[y]
      BY <1>1, <1>2, <1>3, <2>2
    <3> QED BY <2>1, <3>1
  <2> QED BY <1>3, <2>2 DEF InOrder
<1>8. ASSUME NEW i \in 1 .. n - 1
      PROVE  \E j \in 1 .. n : job_list'[i] = job_list[j] /\ job_list[j].pid # p
  <2>1. PICK j \in 1 .. n : j # k /\ job_list'[i] = job_list[j]
    BY <1>1, <1>2, <1>3
  <2> QED BY <1>2, <2>1
<1>9. ASSUME NEW j \in 1 .. n, job_list[j].pid # p
      PROVE  \E i \in 1 .. n - 1 : job_list'[i] = job_list[j]
  <2>1. j # k
    BY <1>2, <1>9
  <2>2. CASE j < k
    BY <1>1, <1>2, <1>3, <2>2
  <2>3. CASE j > k
    <3>1. j - 1 \in 1 .. n - 1 /\ ~(j - 1 < k) /\ j - 1 + 1 = j
      BY <1>2, <1>3, <2>3
    <3> QED BY <1>1, <3>1
  <2> QED BY <1>2, <1>3, <2>1, <2>2, <2>3
<1>10. \A q : Listed(q)' <=> Listed(q) /\ q # p
  <2>1. ASSUME NEW q, Listed(q)' PROVE Listed(q) /\ q # p
    BY <1>3, <1>8, <2>1 DEF Listed
  <2>2. ASSUME NEW q, Listed(q), q # p PROVE Listed(q)'
    BY <1>3, <1>9, <2>2 DEF Listed
  <2> QED BY <2>1, <2>2
<1>11. HeadPid(job_list') = IF HeadPid(job_list) = p THEN After(p) ELSE HeadPid(job_list)
  <2>1. HeadPid(job_list) = p <=> k = 1
    <3>1. 1 \in 1 .. n
      BY <1>2, <1>3
    <3> QED BY <1>2, <1>5, <3>1
  <2>2. CASE n = 1
    BY <1>2, <1>4, <1>6, <2>1, <2>2
  <2>3. CASE n # 1
    <3>1. 1 \in 1 .. n - 1
      BY <1>2, <1>3, <2>3
    <3>2. job_list'[1] = job_list[IF k = 1 THEN 2 ELSE 1]
      BY <1>1, <1>2, <1>3, <3>1
    <3> QED BY <1>4, <1>5, <1>6, <2>1, <2>3, <3>2
  <2> QED BY <2>2, <2>3
<1> QED BY <1>1, <1>3, <1>7, <1>8, <1>10, <1>11

LEMMA JobAdded ==
    ASSUME ShellInv, NEW p \in Pids, NEW st \in {"Running", "Stopped"}, ~Listed(p), add_job(p, st)
    PROVE  /\ job_list' \in Seq(Entries) /\ InOrder'
           /\ current = HeadPid(job_list) => current' = HeadPid(job_list')
           /\ \A q : Listed(q)' <=> Listed(q) \/ q = p
           /\ \A i \in DOMAIN job_list' :
                 \/ i \in DOMAIN job_list /\ job_list'[i] = job_list[i]
                 \/ job_list'[i] = [pid |-> p, jid |-> count, state |-> st]
<1> DEFINE n == Len(job_list)
           e == [pid |-> p, jid |-> count, state |-> st]
<1>1. e \in Entries
  BY DEF ShellInv, ShTypeOK, Entries
<1>2. e.pid = p /\ e.jid = count
  OBVIOUS
<1> HIDE DEF e
<1>3. job_list' = Append(job_list, e) /\ current' = IF job_list = <<>> THEN p ELSE current
  BY DEF add_job, e
<1>4. /\ job_list' \in Seq(Entries) /\ Len(job_list') = n + 1 /\ job_list'[n + 1] = e
      /\ \A i \in 1 .. n : job_list'[i] = job_list[i]
  BY <1>1, <1>3, AppendedFacts
<1>5. n \in Nat /\ DOMAIN job_list = 1 .. n /\ DOMAIN job_list' = 1 .. n + 1 /\ (job_list = <<>> <=> n = 0)
  BY <1>4, ListFacts
<1> HIDE DEF n
<1>6. \A i \in 1 .. n + 1 : i \in 1 .. n \/ i = n + 1
  BY <1>5
<1>7. InOrder'
  <2>1. ASSUME NEW i \in 1 .. n + 1, NEW j \in 1 .. n + 1, i < j
        PROVE  job_list'[i].pid # job_list'[j].pid /\ job_list'[i].jid < job_list'[j].jid
    <3>1. i \in 1 .. n
      BY <1>5, <2>1
    <3>2. CASE j \in 1 .. n
      BY <1>4, <1>5, <2>1, <3>1, <3>2 DEF ShellInv, InOrder
    <3>3. CASE j = n + 1
      BY <1>2, <1>4, <1>5, <3>1, <3>3 DEF ShellInv, EntryRight, Listed
    <3> QED BY <1>6, <3>2, <3>3
  <2> QED BY <1>5, <2>1 DEF InOrder
<1>8. \A q : Listed(q)' <=> Listed(q) \/ q = p
  <2>1. ASSUME NEW q, Listed(q)' PROVE Listed(q) \/ q = p
    BY <1>2, <1>4, <1>5, <1>6, <2>1 DEF Listed
  <2>2. ASSUME NEW q, Listed(q) PROVE Listed(q)'
    BY <1>4, <1>5, <2>2 DEF Listed
  <2>3. n + 1 \in 1 .. n + 1
    BY <1>5
  <2>4. Listed(p)'
    BY <1>2, <1>4, <1>5, <2>3 DEF Listed
  <2> QED BY <2>1, <2>2, <2>4
<1>9. current = HeadPid(job_list) => current' = HeadPid(job_list')
  <2>1. HeadPid(job_list') = job_list'[1].pid
    BY <1>4, <1>5 DEF HeadPid
  <2>2. CASE n = 0
    BY <1>2, <1>3, <1>4, <1>5, <2>1, <2>2
  <2>3. CASE n # 0
    <3>1. 1 \in 1 .. n
      BY <1>5, <2>3
    <3> QED BY <1>3, <1>4, <1>5, <2>1, <2>3, <3>1 DEF HeadPid
  <2> QED BY <2>2, <2>3
<1> QED BY <1>4, <1>5, <1>6, <1>7, <1>8, <1>9 DEF e

--------------------------------------------------------------------------------
(* The steps.                                                                   *)

LEMMA InvInit == PidsApart /\ Init => ShellInv
<1> SUFFICES ASSUME PidsApart, Init PROVE ShellInv
  OBVIOUS
<1>1. ShTypeOK
  <2>1. proc \in [Pids -> Procs] /\ event \in [Pids -> Events] /\ fore \in [Pids -> BOOLEAN]
    BY DEF Init, Procs, Events
  <2>2. job_list \in Seq(Entries)
    BY DEF Init
  <2>3. /\ term \in Pids \cup {Shell} /\ current \in Pids \cup {NoPid} /\ pid \in Pids \cup {NoPid}
        /\ pc \in {"read", "wait", "fg", "sweep", "exited"}
    BY DEF Init
  <2>4. count \in Int
    BY DEF Init
  <2>5. nohang \in BOOLEAN
    BY DEF Init
  <2> QED BY <2>1, <2>2, <2>3, <2>4, <2>5 DEF ShTypeOK
<1>2. \A p \in Pids : EventRight(p) /\ ForeRight(p)
  BY DEF Init, EventRight, ForeRight, Ends, Exits
<1>3. job_list = <<>> /\ DOMAIN job_list = {} /\ current = NoPid /\ pc = "read" /\ pid = NoPid /\ term = Shell
  BY DEF Init
<1>4. JobOfEach
  BY <1>3 DEF Init, JobOfEach, Listed
<1>5. InOrder /\ (\A i \in DOMAIN job_list : EntryRight(i))
  BY <1>3 DEF InOrder
<1>6. IteratorRight /\ WaitRight
  BY <1>3 DEF IteratorRight, WaitRight, HeadPid
<1> QED BY <1>1, <1>2, <1>4, <1>5, <1>6 DEF ShellInv

\* A child that exists goes on, and does not die unseen.
LEMMA ChildStep ==
    ASSUME PidsApart, ShellInv, NEW p \in Pids, NEW a \in Procs, NEW e \in Events,
           proc[p] # "none", a # "none",
           proc' = [proc EXCEPT ![p] = a], event' = [event EXCEPT ![p] = e],
           EventRight(p)', e = "none" => event[p] = "none" /\ a # "stop" /\ proc[p] # "stop",
           fore' = fore \/ fore' = [fore EXCEPT ![p] = FALSE],
           fore'[p] => a = "forked",
           term' = term \/ (term' = p /\ fore[p]),
           UNCHANGED <<job_list, current, count, pc, pid, nohang>>
    PROVE  ShellInv'
<1>1. /\ proc' \in [Pids -> Procs] /\ proc'[p] = a /\ \A q \in Pids \ {p} : proc'[q] = proc[q]
      /\ event' \in [Pids -> Events] /\ event'[p] = e /\ \A q \in Pids \ {p} : event'[q] = event[q]
  BY DEF ShellInv, ShTypeOK
<1>2. fore' \in [Pids -> BOOLEAN] /\ \A q \in Pids : (fore'[q] => fore[q])
  BY DEF ShellInv, ShTypeOK
<1>3. ShTypeOK'
  BY <1>1, <1>2 DEF ShellInv, ShTypeOK
<1>4. \A q \in Pids : EventRight(q)' /\ ForeRight(q)'
  BY <1>1, <1>2 DEF ShellInv, EventRight, ForeRight
<1>5. JobOfEach' /\ InOrder'
  BY <1>1 DEF ShellInv, JobOfEach, InOrder, Listed
<1>6. ASSUME NEW i \in DOMAIN job_list' PROVE EntryRight(i)'
  <2>1. i \in DOMAIN job_list /\ job_list[i].pid \in Pids
    BY ListFacts
  <2> QED BY <1>1, <2>1 DEF ShellInv, EntryRight
<1>7. IteratorRight'
  BY DEF ShellInv, IteratorRight, Listed
<1>8. WaitRight'
  BY <1>1 DEF ShellInv, WaitRight, ForeRight, EventRight, PidsApart
<1> QED BY <1>3, <1>4, <1>5, <1>6, <1>7, <1>8 DEF ShellInv

LEMMA SetpgidKeeps == ASSUME PidsApart, ShellInv, NEW p \in Pids, setpgid(p) PROVE ShellInv'
<1>1. proc' = [proc EXCEPT ![p] = "grouped"] /\ event' = [event EXCEPT ![p] = event[p]]
  BY DEF setpgid, ShellInv, ShTypeOK
<1>2. event[p] = "none" /\ proc'[p] = "grouped" /\ event'[p] = "none"
  BY <1>1 DEF setpgid, ShellInv, ShTypeOK, EventRight, Events, Changes
<1>3. EventRight(p)' /\ fore'[p] = FALSE
  BY <1>2 DEF EventRight, Ends, Exits, setpgid, ShellInv, ShTypeOK
<1>4. "grouped" \in Procs /\ event[p] \in Events
  BY <1>2 DEF Procs, Events
<1> QED BY <1>1, <1>2, <1>3, <1>4, ChildStep DEF setpgid

LEMMA ExecvKeeps == ASSUME PidsApart, ShellInv, NEW p \in Pids, execv(p) PROVE ShellInv'
<1>1. event[p] = "none" /\ ~fore[p] /\ proc[p] = "grouped"
  BY DEF execv, ShellInv, ShTypeOK, EventRight, ForeRight, Events, Changes
<1>2. PICK a \in {"run", "dead"}, e \in {"none", "exit1"} :
         /\ proc' = [proc EXCEPT ![p] = a] /\ event' = [event EXCEPT ![p] = e]
         /\ a = "dead" <=> e = "exit1"
  <2>1. CASE proc' = [proc EXCEPT ![p] = "run"] /\ UNCHANGED event
    <3>1. event' = [event EXCEPT ![p] = "none"]
      BY <1>1, <2>1 DEF ShellInv, ShTypeOK
    <3> QED BY <2>1, <3>1
  <2> QED BY <2>1 DEF execv
<1>3. proc'[p] = a /\ event'[p] = e
  BY <1>2 DEF ShellInv, ShTypeOK
<1>4. EventRight(p)' /\ a \in Procs /\ e \in Events
  BY <1>2, <1>3 DEF EventRight, Procs, Events, Ends, Exits
<1> QED BY <1>1, <1>2, <1>4, ChildStep DEF execv

\* SIGCONT, and what a program does by itself.
LEMMA ProgramKeeps == ASSUME PidsApart, ShellInv, NEW p \in Pids, ProgramStep(p) PROVE ShellInv'
<1>1. proc[p] \in {"run", "stop"} /\ ~fore[p]
  BY DEF ProgramStep, SIGCONT, ShellInv, ForeRight
<1>2. PICK a \in {"run", "stop", "dead"}, e \in Events \ {"none"} :
         /\ proc' = [proc EXCEPT ![p] = a] /\ event' = [event EXCEPT ![p] = e]
         /\ a = "dead" <=> e \in Ends
         /\ e = "stopped" => a = "stop"
         /\ e = "continued" => a = "run"
  BY <1>1 DEF ProgramStep, SIGCONT, Events, Ends, Exits, Changes
<1>3. proc'[p] = a /\ event'[p] = e
  BY <1>2 DEF ShellInv, ShTypeOK
<1>4. EventRight(p)' /\ a \in Procs
  BY <1>2, <1>3 DEF EventRight, Procs
<1> QED BY <1>1, <1>2, <1>4, ChildStep DEF ProgramStep

LEMMA ForkKeeps ==
    ASSUME PidsApart, ShellInv, NEW p \in Pids, NEW bg \in BOOLEAN, NEW path \in BOOLEAN, Fork(p, bg, path)
    PROVE  ShellInv'
<1>1. /\ proc' \in [Pids -> Procs] /\ proc'[p] = "forked" /\ \A q \in Pids \ {p} : proc'[q] = proc[q]
      /\ fore' \in [Pids -> BOOLEAN] /\ fore'[p] = ~bg /\ \A q \in Pids \ {p} : fore'[q] = fore[q]
  BY DEF Fork, ShellInv, ShTypeOK, Procs
<1>2. /\ pc = "read" /\ pc' = "wait" /\ pid' = p /\ nohang' \in BOOLEAN /\ (nohang' => bg) /\ proc[p] = "none"
      /\ UNCHANGED <<event, term, job_list, current, count>>
  BY DEF Fork
<1>3. ShTypeOK'
  BY <1>1, <1>2 DEF ShellInv, ShTypeOK
<1>4. event[p] = "none"
  BY <1>2 DEF ShellInv, ShTypeOK, EventRight, Events, Changes
<1>5. \A q \in Pids : EventRight(q)' /\ ForeRight(q)'
  BY <1>1, <1>2, <1>4 DEF ShellInv, EventRight, ForeRight, Ends, Exits
<1>6. JobOfEach' /\ InOrder'
  BY <1>1, <1>2 DEF ShellInv, JobOfEach, InOrder, Listed
<1>7. ASSUME NEW i \in DOMAIN job_list' PROVE EntryRight(i)'
  <2>1. i \in DOMAIN job_list /\ job_list[i].pid \in Pids /\ Listed(job_list[i].pid)
    BY <1>2, ListFacts DEF Listed
  <2>2. job_list[i].pid # p
    BY <1>2, <2>1 DEF ShellInv, JobOfEach
  <2> QED BY <1>1, <1>2, <2>1, <2>2 DEF ShellInv, EntryRight
<1>8. IteratorRight' /\ WaitRight'
  BY <1>1, <1>2 DEF ShellInv, IteratorRight, WaitRight
<1> QED BY <1>3, <1>5, <1>6, <1>7, <1>8 DEF ShellInv

LEMMA EnterKeeps == ASSUME PidsApart, ShellInv, Enter PROVE ShellInv'
<1>1. ShTypeOK'
  BY DEF Enter, ShellInv, ShTypeOK
<1>2. \A q \in Pids : EventRight(q)' /\ ForeRight(q)'
  BY DEF Enter, ShellInv, EventRight, ForeRight
<1>3. JobOfEach' /\ InOrder'
  BY DEF Enter, ShellInv, JobOfEach, InOrder, Listed
<1>4. \A i \in DOMAIN job_list' : EntryRight(i)'
  BY DEF Enter, ShellInv, EntryRight
<1>5. current = NoPid \/ Listed(current)
  BY ListFacts DEF Enter, ShellInv, IteratorRight, HeadPid, Listed
<1>6. IteratorRight' /\ WaitRight'
  BY <1>5 DEF Enter, ShellInv, IteratorRight, WaitRight, Listed
<1> QED BY <1>1, <1>2, <1>3, <1>4, <1>6 DEF ShellInv

\* What waitpid reports of p goes to the list.
LEMMA StatusHandled ==
    ASSUME PidsApart, ShellInv, NEW p \in Pids, Listed(p), event[p] # "none", pc # "wait",
           Reaped(p), handle_status(p, event[p]), UNCHANGED count
    PROVE  /\ proc' \in [Pids -> Procs] /\ event' \in [Pids -> Events] /\ job_list' \in Seq(Entries)
           /\ \A q \in Pids : EventRight(q)'
           /\ \A q \in Pids \ {p} : proc'[q] = proc[q]
           /\ proc'[p] = IF event[p] \in Ends THEN "none" ELSE proc[p]
           /\ \A q : Listed(q)' <=> Listed(q) /\ ~(q = p /\ event[p] \in Ends)
           /\ HeadPid(job_list') = IF event[p] \in Ends /\ HeadPid(job_list) = p THEN After(p)
                                   ELSE HeadPid(job_list)
           /\ InOrder' /\ \A i \in DOMAIN job_list' : EntryRight(i)'
<1>1. /\ event' \in [Pids -> Events] /\ event'[p] = "none" /\ \A q \in Pids \ {p} : event'[q] = event[q]
      /\ proc' \in [Pids -> Procs] /\ proc'[p] = (IF proc[p] = "dead" THEN "none" ELSE proc[p])
      /\ \A q \in Pids \ {p} : proc'[q] = proc[q]
  BY DEF Reaped, ShellInv, ShTypeOK, Procs, Events
<1>2. EventRight(p) /\ event[p] \in Events /\ proc[p] \in Procs
  BY DEF ShellInv, ShTypeOK
<1>3. proc'[p] = IF event[p] \in Ends THEN "none" ELSE proc[p]
  BY <1>1, <1>2 DEF EventRight
<1>4. \A q \in Pids : EventRight(q)'
  BY <1>1, <1>2 DEF ShellInv, EventRight, Ends, Exits, Changes, Events
<1>5. CASE event[p] \in Ends
  <2>2. job_list' = Removed(p)
    BY <1>5 DEF handle_status, Ends, Exits
  <2>3. ASSUME NEW i \in DOMAIN job_list' PROVE EntryRight(i)'
    <3>1. PICK j \in DOMAIN job_list : job_list'[i] = job_list[j] /\ job_list[j].pid # p
      BY <2>2, JobRemoved
    <3>2. job_list[j].pid \in Pids \ {p} /\ EntryRight(j)
      BY <3>1, ListFacts DEF ShellInv
    <3> QED BY <1>1, <3>1, <3>2 DEF EntryRight
  <2> QED BY <1>1, <1>3, <1>4, <1>5, <2>2, <2>3, JobRemoved
<1>6. CASE event[p] \notin Ends
  <2>1. PICK st \in {"Running", "Stopped"} :
           job_list' = Updated(job_list, p, st) /\ (st = "Stopped" <=> event[p] = "stopped")
    BY <1>6 DEF handle_status, Ends
  <2>2. st = "Stopped" <=> proc[p] = "stop"
    BY <1>2, <1>6, <2>1 DEF EventRight, Events, Changes
  <2>3. ASSUME NEW i \in DOMAIN job_list' PROVE EntryRight(i)'
    <3>1. /\ i \in DOMAIN job_list
          /\ job_list'[i].pid = job_list[i].pid /\ job_list'[i].jid = job_list[i].jid
          /\ job_list'[i].state = IF job_list[i].pid = p THEN st ELSE job_list[i].state
      BY <2>1, JobUpdated
    <3>2. job_list[i].pid \in Pids /\ EntryRight(i)
      BY <3>1, ListFacts DEF ShellInv
    <3>3. CASE job_list[i].pid = p
      BY <1>1, <1>3, <1>6, <2>2, <3>1, <3>2, <3>3 DEF EntryRight
    <3>4. CASE job_list[i].pid # p
      BY <1>1, <3>1, <3>2, <3>4 DEF EntryRight
    <3> QED BY <3>3, <3>4
  <2> QED BY <1>1, <1>3, <1>4, <1>6, <2>1, <2>3, JobUpdated
<1> QED BY <1>5, <1>6

LEMMA SweepKeeps == ASSUME PidsApart, ShellInv, Sweep PROVE ShellInv'
<1>1. PICK c \in Pids :
      /\ c = current /\ pc = "sweep" /\ Listed(c) /\ current' = After(c)
      /\ UNCHANGED <<fore, term, count, pc, pid, nohang>>
  BY DEF Sweep, ShellInv, ShTypeOK, IteratorRight
<1>2. /\ proc' \in [Pids -> Procs] /\ event' \in [Pids -> Events] /\ job_list' \in Seq(Entries)
      /\ \A q \in Pids : EventRight(q)'
      /\ \A q \in Pids \ {c} : proc'[q] = proc[q] /\ (Listed(q)' <=> Listed(q))
      /\ Listed(c)' <=> proc'[c] # "none"
      /\ InOrder' /\ \A i \in DOMAIN job_list' : EntryRight(i)'
  <2>1. CASE c # pid /\ Reports(c, TRUE)
    <3>1. event[c] # "none" /\ Reaped(c) /\ handle_status(c, event[c])
      BY <1>1, <2>1 DEF Sweep, Reports
    <3>2. proc[c] # "none"
      BY <1>1 DEF ShellInv, JobOfEach
    <3>3. /\ proc' \in [Pids -> Procs] /\ event' \in [Pids -> Events] /\ job_list' \in Seq(Entries)
          /\ \A q \in Pids : EventRight(q)'
          /\ \A q \in Pids \ {c} : proc'[q] = proc[q]
          /\ proc'[c] = IF event[c] \in Ends THEN "none" ELSE proc[c]
          /\ \A q : Listed(q)' <=> Listed(q) /\ ~(q = c /\ event[c] \in Ends)
          /\ InOrder' /\ \A i \in DOMAIN job_list' : EntryRight(i)'
      BY <1>1, <3>1, StatusHandled
    <3> QED BY <1>1, <3>2, <3>3
  <2>2. CASE ~(c # pid /\ Reports(c, TRUE))
    <3>1. UNCHANGED <<event, proc, job_list>>
      BY <1>1, <2>2 DEF Sweep
    <3>2. /\ proc' \in [Pids -> Procs] /\ event' \in [Pids -> Events] /\ job_list' \in Seq(Entries)
          /\ \A q \in Pids : EventRight(q)'
      BY <3>1 DEF ShellInv, ShTypeOK, EventRight
    <3>3. InOrder' /\ \A i \in DOMAIN job_list' : EntryRight(i)'
      BY <1>1, <3>1 DEF ShellInv, InOrder, EntryRight
    <3>4. (\A q : Listed(q)' <=> Listed(q)) /\ proc[c] # "none"
      BY <1>1, <3>1 DEF ShellInv, JobOfEach, Listed
    <3> QED BY <1>1, <3>1, <3>2, <3>3, <3>4
  <2> QED BY <2>1, <2>2
<1>3. current' = NoPid \/ (current' \in Pids \ {c} /\ Listed(current'))
  <2>1. Place(c) \in 1 .. Len(job_list) /\ job_list[Place(c)].pid = c
    BY <1>1, PlaceFacts
  <2>2. CASE Place(c) # Len(job_list)
    <3>1. Place(c) + 1 \in 1 .. Len(job_list) /\ current' = job_list[Place(c) + 1].pid
      BY <1>1, <2>1, <2>2, ListFacts DEF After
    <3>2. current' # c
      BY <1>1, <2>1, <3>1, PlaceFacts, ListFacts
    <3> QED BY <3>1, <3>2, ListFacts DEF Listed
  <2> QED BY <1>1, <2>2 DEF After
<1>4. ShTypeOK'
  BY <1>1, <1>2, <1>3 DEF ShellInv, ShTypeOK
<1>5. \A q \in Pids : ForeRight(q)'
  BY <1>1 DEF ShellInv, ForeRight
<1>6. JobOfEach'
  <2>1. \A q \in Pids : Listed(q) <=> proc[q] # "none"
    BY <1>1 DEF ShellInv, JobOfEach
  <2>2. \A q \in Pids : Listed(q)' <=> proc'[q] # "none"
    BY <1>1, <1>2, <2>1
  <2> QED BY <1>1, <2>2 DEF JobOfEach
<1>7. IteratorRight'
  BY <1>1, <1>2, <1>3 DEF IteratorRight
<1>8. WaitRight'
  BY <1>1 DEF ShellInv, WaitRight
<1> QED BY <1>2, <1>4, <1>5, <1>6, <1>7, <1>8 DEF ShellInv

LEMMA PromptKeeps == ASSUME PidsApart, ShellInv, Prompt PROVE ShellInv'
<1>1. /\ pc = "sweep" /\ pc' = "read" /\ pid' = NoPid /\ nohang' = FALSE /\ current' = HeadPid(job_list)
      /\ UNCHANGED <<proc, event, fore, job_list, count>>
  BY DEF Prompt
<1>2. term' = Shell
  BY DEF Prompt, ShellInv, ShTypeOK, WaitRight, PidsApart
<1>3. HeadPid(job_list) \in Pids \cup {NoPid}
  BY ListFacts DEF HeadPid
<1>4. ShTypeOK'
  BY <1>1, <1>2, <1>3 DEF ShellInv, ShTypeOK
<1>5. \A q \in Pids : EventRight(q)' /\ ForeRight(q)'
  BY <1>1 DEF ShellInv, EventRight, ForeRight
<1>6. JobOfEach' /\ InOrder'
  BY <1>1 DEF ShellInv, JobOfEach, InOrder, Listed
<1>7. \A i \in DOMAIN job_list' : EntryRight(i)'
  BY <1>1 DEF ShellInv, EntryRight
<1>8. IteratorRight' /\ WaitRight'
  BY <1>1, <1>2 DEF IteratorRight, WaitRight
<1> QED BY <1>4, <1>5, <1>6, <1>7, <1>8 DEF ShellInv

LEMMA WaitFgKeeps == ASSUME PidsApart, ShellInv, WaitFg PROVE ShellInv'
<1>1. PICK p \in Pids :
         /\ p = pid /\ pc = "fg" /\ Listed(p) /\ event[p] # "none" /\ Reaped(p)
         /\ handle_status(p, event[p])
         /\ current' = IF event[p] \in Ends /\ current = p THEN After(p) ELSE current
         /\ term' = Shell /\ pc' = "read" /\ pid' = NoPid /\ nohang' = FALSE /\ UNCHANGED <<fore, count>>
  <2>1. pid \in Pids /\ Listed(pid)
    BY DEF WaitFg, ShellInv, WaitRight, JobOfEach
  <2> QED BY <2>1 DEF WaitFg, Reports
<1>2. /\ proc' \in [Pids -> Procs] /\ event' \in [Pids -> Events] /\ job_list' \in Seq(Entries)
      /\ \A q \in Pids : EventRight(q)'
      /\ \A q \in Pids \ {p} : proc'[q] = proc[q]
      /\ proc'[p] = IF event[p] \in Ends THEN "none" ELSE proc[p]
      /\ \A q : Listed(q)' <=> Listed(q) /\ ~(q = p /\ event[p] \in Ends)
      /\ HeadPid(job_list') = IF event[p] \in Ends /\ HeadPid(job_list) = p THEN After(p)
                              ELSE HeadPid(job_list)
      /\ InOrder' /\ \A i \in DOMAIN job_list' : EntryRight(i)'
  BY <1>1, StatusHandled
<1>3. current' = HeadPid(job_list')
  BY <1>1, <1>2 DEF ShellInv, IteratorRight
<1>4. HeadPid(job_list') \in Pids \cup {NoPid}
  <2>1. job_list' # <<>> => job_list'[1] \in Entries
    BY <1>2
  <2> QED BY <2>1 DEF HeadPid, Entries
<1>5. ShTypeOK'
  BY <1>1, <1>2, <1>3, <1>4 DEF ShellInv, ShTypeOK
<1>6. \A q \in Pids : ForeRight(q)'
  BY <1>1 DEF ShellInv, ForeRight
<1>7. JobOfEach'
  <2>1. \A q \in Pids : Listed(q) <=> proc[q] # "none"
    BY <1>1 DEF ShellInv, JobOfEach
  <2>2. \A q \in Pids : Listed(q)' <=> proc'[q] # "none"
    BY <1>1, <1>2, <2>1
  <2> QED BY <1>1, <2>2 DEF JobOfEach
<1>8. IteratorRight' /\ WaitRight'
  BY <1>1, <1>3 DEF IteratorRight, WaitRight
<1> QED BY <1>2, <1>5, <1>6, <1>7, <1>8 DEF ShellInv

LEMMA FgBgKeeps ==
    ASSUME PidsApart, ShellInv, NEW p \in Pids, NEW fg \in BOOLEAN, fg_bg(p, fg)
    PROVE  ShellInv'
<1>1. /\ pc = "read" /\ Listed(p) /\ job_list' = Updated(job_list, p, "Running") /\ SIGCONT(p)
      /\ pc' = "fg" /\ pid' = p /\ nohang' \in BOOLEAN /\ UNCHANGED <<fore, current, count>>
      /\ term' \in {term, p}
  BY DEF fg_bg
<1>2. proc[p] \in Procs \ {"none"}
  BY <1>1 DEF ShellInv, ShTypeOK, JobOfEach
<1>3. /\ proc' \in [Pids -> Procs] /\ event' \in [Pids -> Events]
      /\ \A q \in Pids \ {p} : proc'[q] = proc[q] /\ event'[q] = event[q]
      /\ \/ proc'[p] = "run" /\ event'[p] = "continued"
         \/ proc'[p] = proc[p] /\ event'[p] = event[p] /\ proc[p] # "stop"
  BY <1>1 DEF SIGCONT, ShellInv, ShTypeOK, Procs, Events, Changes
<1>4. /\ job_list' \in Seq(Entries) /\ InOrder' /\ HeadPid(job_list') = HeadPid(job_list)
      /\ \A q : Listed(q)' <=> Listed(q)
      /\ \A i \in DOMAIN job_list' :
            /\ i \in DOMAIN job_list
            /\ job_list'[i].pid = job_list[i].pid /\ job_list'[i].jid = job_list[i].jid
            /\ job_list'[i].state = IF job_list[i].pid = p THEN "Running" ELSE job_list[i].state
  BY <1>1, JobUpdated
<1>5. ShTypeOK'
  BY <1>1, <1>3, <1>4 DEF ShellInv, ShTypeOK
<1>6. \A q \in Pids : EventRight(q)' /\ ForeRight(q)'
  BY <1>1, <1>3 DEF ShellInv, EventRight, ForeRight, Ends, Exits
<1>7. JobOfEach'
  <2>1. \A q \in Pids : Listed(q) <=> proc[q] # "none"
    BY <1>1 DEF ShellInv, JobOfEach
  <2>2. \A q \in Pids : Listed(q)' <=> proc'[q] # "none"
    BY <1>2, <1>3, <1>4, <2>1
  <2> QED BY <1>1, <2>2 DEF JobOfEach
<1>8. ASSUME NEW i \in DOMAIN job_list' PROVE EntryRight(i)'
  <2>1. i \in DOMAIN job_list /\ job_list[i].pid \in Pids /\ EntryRight(i)
    BY <1>4, ListFacts DEF ShellInv
  <2>2. CASE job_list[i].pid = p
    BY <1>1, <1>3, <1>4, <2>1, <2>2 DEF EntryRight
  <2>3. CASE job_list[i].pid # p
    BY <1>1, <1>3, <1>4, <2>1, <2>3 DEF EntryRight
  <2> QED BY <2>2, <2>3
<1>9. IteratorRight'
  BY <1>1, <1>4 DEF ShellInv, IteratorRight
<1>10. WaitRight'
  BY <1>1, <1>2, <1>3 DEF ShellInv, WaitRight
<1> QED BY <1>4, <1>5, <1>6, <1>7, <1>8, <1>9, <1>10 DEF ShellInv

LEMMA WaitNewKeeps == ASSUME PidsApart, ShellInv, WaitNew PROVE ShellInv'
<1>1. PICK p \in Pids :
         /\ p = pid /\ pc = "wait" /\ ~Listed(p) /\ proc[p] # "none" /\ (proc[p] = "stop" => event[p] # "none")
         /\ pc' = "sweep" /\ UNCHANGED <<fore, term, pid, nohang>>
  <2>1. pc = "wait" /\ pid \in Pids
    BY DEF WaitNew, ShellInv, WaitRight
  <2>2. ~Listed(pid)
    BY <2>1 DEF ShellInv, JobOfEach
  <2> QED BY <2>1, <2>2 DEF WaitNew, ShellInv, WaitRight
<1>2. EventRight(p) /\ event[p] \in Events /\ proc[p] \in Procs /\ count \in Int
  BY DEF ShellInv, ShTypeOK
<1>3. /\ proc' \in [Pids -> Procs] /\ event' \in [Pids -> Events]
      /\ \A q \in Pids \ {p} : proc'[q] = proc[q] /\ event'[q] = event[q]
      /\ event'[p] = "none" /\ proc'[p] = IF event[p] \in Ends THEN "none" ELSE proc[p]
  <2>1. CASE event[p] # "none"
    <3>1. /\ event' = [event EXCEPT ![p] = "none"]
          /\ proc' = [proc EXCEPT ![p] = IF proc[p] = "dead" THEN "none" ELSE proc[p]]
      BY <1>1, <2>1 DEF WaitNew, Reports, Reaped
    <3> QED BY <1>2, <3>1 DEF ShellInv, ShTypeOK, EventRight, Procs, Events
  <2>2. CASE event[p] = "none"
    <3>1. UNCHANGED <<event, proc>>
      BY <1>1, <2>2 DEF WaitNew, Reports
    <3> QED BY <2>2, <3>1 DEF ShellInv, ShTypeOK, Ends, Exits
  <2> QED BY <2>1, <2>2
<1>4. \/ event[p] \in Ends /\ UNCHANGED <<job_list, current>> /\ count' \in {count, count + 1}
      \/ /\ event[p] \notin Ends /\ count' = count + 1
         /\ add_job(p, IF event[p] = "stopped" THEN "Stopped" ELSE "Running")
  <2>1. CASE event[p] = "exit0"
    BY <1>1, <2>1 DEF WaitNew, Reports, Ends, Exits
  <2>2. CASE event[p] # "exit0"
    <3>1. update_and_handle(p, event[p])
      BY <1>1, <2>2 DEF WaitNew, Reports
    <3>2. CASE event[p] \in {"exit1", "exitN", "killed"}
      BY <1>2, <3>1, <3>2 DEF update_and_handle, Ends, Exits
    <3>3. CASE event[p] \in {"none", "stopped", "continued"}
      BY <3>1, <3>3 DEF update_and_handle, Ends, Exits
    <3> QED BY <1>2, <2>2, <3>2, <3>3 DEF Events, Ends, Exits, Changes
  <2> QED BY <2>1, <2>2
<1>5. /\ job_list' \in Seq(Entries) /\ InOrder' /\ current' \in Pids \cup {NoPid}
      /\ current' = HeadPid(job_list') /\ \A q \in Pids : Listed(q)' <=> proc'[q] # "none"
      /\ \A i \in DOMAIN job_list' : EntryRight(i)'
  <2>1. \A q \in Pids \ {p} : Listed(q) <=> proc[q] # "none"
    BY <1>1 DEF ShellInv, JobOfEach
  <2>2. current = HeadPid(job_list)
    BY <1>1 DEF ShellInv, IteratorRight
  <2>3. CASE event[p] \in Ends /\ UNCHANGED <<job_list, current>> /\ count' \in {count, count + 1}
    <3>1. ASSUME NEW i \in DOMAIN job_list' PROVE EntryRight(i)'
      <4>1. i \in DOMAIN job_list /\ job_list[i].pid \in Pids /\ Listed(job_list[i].pid) /\ job_list[i].jid \in Int
        BY <2>3, ListFacts DEF Listed, Entries
      <4>2. job_list[i].pid # p
        BY <1>1, <4>1
      <4> QED BY <1>2, <1>3, <2>3, <4>1, <4>2 DEF ShellInv, EntryRight
    <3>2. \A q \in Pids : Listed(q)' <=> proc'[q] # "none"
      BY <1>1, <1>3, <2>1, <2>3 DEF Listed
    <3> QED BY <2>2, <2>3, <3>1, <3>2 DEF ShellInv, ShTypeOK, InOrder
  <2>4. CASE /\ event[p] \notin Ends /\ count' = count + 1
             /\ add_job(p, IF event[p] = "stopped" THEN "Stopped" ELSE "Running")
    <3> DEFINE st == IF event[p] = "stopped" THEN "Stopped" ELSE "Running"
    <3>1. st \in {"Running", "Stopped"} /\ add_job(p, st) /\ (st = "Stopped" <=> proc[p] = "stop")
      BY <1>1, <1>2, <2>4 DEF EventRight, Events, Changes
    <3> HIDE DEF st
    <3>2. /\ job_list' \in Seq(Entries) /\ InOrder'
          /\ current' = HeadPid(job_list')
          /\ \A q : Listed(q)' <=> Listed(q) \/ q = p
          /\ \A i \in DOMAIN job_list' :
                \/ i \in DOMAIN job_list /\ job_list'[i] = job_list[i]
                \/ job_list'[i] = [pid |-> p, jid |-> count, state |-> st]
      BY <1>1, <2>2, <3>1, JobAdded
    <3>3. ASSUME NEW i \in DOMAIN job_list' PROVE EntryRight(i)'
      <4>1. CASE i \in DOMAIN job_list /\ job_list'[i] = job_list[i]
        <5>1. job_list[i].pid \in Pids /\ Listed(job_list[i].pid) /\ job_list[i].jid \in Int
          BY <4>1, ListFacts DEF Listed, Entries
        <5>2. job_list[i].pid # p
          BY <1>1, <5>1
        <5> QED BY <1>2, <1>3, <2>4, <4>1, <5>1, <5>2 DEF ShellInv, EntryRight
      <4>2. CASE job_list'[i] = [pid |-> p, jid |-> count, state |-> st]
        BY <1>2, <1>3, <2>4, <3>1, <4>2 DEF EntryRight
      <4> QED BY <3>2, <4>1, <4>2
    <3>4. current' \in Pids \cup {NoPid}
      BY <3>1 DEF add_job, ShellInv, ShTypeOK
    <3>5. \A q \in Pids : Listed(q)' <=> proc'[q] # "none"
      BY <1>1, <1>3, <2>1, <2>4, <3>2
    <3> QED BY <3>2, <3>3, <3>4, <3>5
  <2> QED BY <1>4, <2>3, <2>4
<1>6. ShTypeOK'
  BY <1>1, <1>2, <1>3, <1>4, <1>5 DEF ShellInv, ShTypeOK
<1>7. \A q \in Pids : EventRight(q)' /\ ForeRight(q)'
  <2>1. \A q \in Pids \ {p} : EventRight(q)' /\ ForeRight(q)'
    BY <1>1, <1>3 DEF ShellInv, EventRight, ForeRight
  <2>2. proc'[p] # "dead"
    BY <1>2, <1>3 DEF EventRight
  <2>3. ~fore[p]
    <3>1. CASE event[p] # "none"
      BY <1>2, <3>1 DEF ShellInv, ForeRight, EventRight, Events, Changes
    <3>2. CASE event[p] = "none"
      BY <1>1, <3>2 DEF WaitNew, Reports, ShellInv, ForeRight
    <3> QED BY <3>1, <3>2
  <2> QED BY <1>1, <1>3, <2>1, <2>2, <2>3 DEF EventRight, ForeRight, Ends, Exits
<1>8. JobOfEach'
  BY <1>1, <1>5 DEF JobOfEach
<1>9. IteratorRight'
  <2>1. job_list' = <<>> \/ (1 \in DOMAIN job_list' /\ HeadPid(job_list') = job_list'[1].pid)
    BY <1>5 DEF HeadPid
  <2>2. current' = NoPid \/ \E i \in DOMAIN job_list' : job_list'[i].pid = current'
    BY <1>5, <2>1 DEF HeadPid
  <2> QED BY <1>1, <2>2 DEF IteratorRight, Listed
<1>10. WaitRight'
  BY <1>1 DEF ShellInv, WaitRight
<1> QED BY <1>5, <1>6, <1>7, <1>8, <1>9, <1>10 DEF ShellInv

LEMMA CleanupKeeps == ASSUME PidsApart, ShellInv, cleanup_job_list PROVE ShellInv'
<1>1. /\ pc = "read" /\ pc' = "exited" /\ job_list' = <<>> /\ current' = NoPid
      /\ UNCHANGED <<fore, term, count, pid, nohang>>
  BY DEF cleanup_job_list
<1>2. /\ proc' \in [Pids -> Procs] /\ event' \in [Pids -> Events]
      /\ \A q \in Pids : \/ proc'[q] = "dead" /\ event'[q] = "killed"
                         \/ proc'[q] = proc[q] /\ event'[q] = event[q]
  BY DEF cleanup_job_list, ShellInv, ShTypeOK, Procs, Events, Ends
<1>3. job_list' \in Seq(Entries) /\ DOMAIN job_list' = {} /\ HeadPid(job_list') = NoPid
  BY <1>1 DEF HeadPid
<1>4. ShTypeOK'
  BY <1>1, <1>2, <1>3 DEF ShellInv, ShTypeOK
<1>5. \A q \in Pids : EventRight(q)' /\ ForeRight(q)'
  BY <1>1, <1>2 DEF ShellInv, EventRight, ForeRight, Ends
<1>6. JobOfEach' /\ InOrder' /\ \A i \in DOMAIN job_list' : EntryRight(i)'
  BY <1>1, <1>3 DEF JobOfEach, InOrder
<1>7. IteratorRight' /\ WaitRight'
  BY <1>1, <1>3 DEF ShellInv, IteratorRight, WaitRight
<1> QED BY <1>3, <1>4, <1>5, <1>6, <1>7 DEF ShellInv

LEMMA InvNext == ASSUME PidsApart, ShellInv, [Next]_shVars PROVE ShellInv'
<1>1. CASE Next
  BY <1>1, SetpgidKeeps, ExecvKeeps, ProgramKeeps, ForkKeeps, FgBgKeeps, WaitNewKeeps, WaitFgKeeps, EnterKeeps,
     SweepKeeps, PromptKeeps, CleanupKeeps DEF Next
<1>2. CASE UNCHANGED shVars
  BY <1>2 DEF shVars, ShellInv, ShTypeOK, EventRight, ForeRight, JobOfEach, InOrder, EntryRight, IteratorRight,
              WaitRight, Listed
<1> QED BY <1>1, <1>2

--------------------------------------------------------------------------------
(* The theorems.                                                                *)

\* Whatever the children of the shell do, the invariant holds.
THEOREM ShellInvariant == ASSUME PidsApart PROVE Spec => []ShellInv
<1>1. Init => ShellInv
  BY InvInit
<1>2. ShellInv /\ [Next]_shVars => ShellInv'
  BY InvNext
<1> QED BY <1>1, <1>2, PTL DEF Spec

\* At the prompt the job table is exactly the children that waitpid has not
\* reaped, in the order of their numbers, with the states it has reported.
THEOREM JobTableCorrect == ASSUME PidsApart PROVE Spec => []JobTableExact
<1>1. ShellInv => JobTableExact
  <2> SUFFICES ASSUME ShellInv, pc = "read" PROVE JobTableExact
    BY DEF JobTableExact
  <2>1. {job_list[i].pid : i \in DOMAIN job_list} = {p \in Pids : proc[p] # "none"}
    <3>1. \A p \in Pids : Listed(p) <=> proc[p] # "none"
      BY DEF ShellInv, JobOfEach
    <3> QED BY <3>1, ListFacts DEF Listed
  <2> QED BY <2>1 DEF JobTableExact, ShellInv, InOrder, EntryRight, IteratorRight
<1> QED BY <1>1, ShellInvariant, PTL

\* The terminal is the shell's own whenever it reads a command, and otherwise
\* at most the child's that it waits for, which it never does for a child
\* whose stop it has already seen.
THEOREM TerminalCorrect == ASSUME PidsApart PROVE Spec => []TerminalAndWait
<1>1. ShellInv => TerminalAndWait
  BY DEF ShellInv, WaitRight, TerminalAndWait
<1> QED BY <1>1, ShellInvariant, PTL
================================================================================
