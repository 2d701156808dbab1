------------------------------- MODULE ShellJobs -------------------------------
(***************************************************************************)
(* Job control of systems/cs033/shell_2: the loop of sh.c, the job list of *)
(* jobs.c and the status handling of helpers/shell_2_helpers.c, against    *)
(* children that start, stop, continue and die while the shell is between  *)
(* two system calls.  What the programs read and write is left out.        *)
(***************************************************************************)
EXTENDS Integers, SequencesExt

CONSTANTS Pids,        \* process ids; the kernel reuses one after waitpid reaps it
          MaxCount,    \* bound on `count`, the next job number
          Shell,       \* the shell's process group
          NoPid        \* -1

VARIABLES
    proc,        \* proc[p]: "none", "forked", "grouped" (after setpgid), "run", "stop", "dead"
    event,       \* the status waitpid has not reported yet, or "none"
    fore,        \* the child p takes the terminal (its copy of !background)
    term,        \* the terminal's process group
    job_list,    \* jobs in list order
    current,     \* the pid of job_list->current, or NoPid
    count,
    pc,          \* "read", "wait", "fg", "sweep", "exited"
    pid,         \* the child being waited for; in a sweep, the one to skip
    nohang       \* options has WNOHANG (for fg and bg: has WCONTINUED)

shVars == <<proc, event, fore, term, job_list, current, count, pc, pid, nohang>>

Exits   == {"exit0", "exit1", "exitN"}
Ends    == Exits \cup {"killed"}
Changes == {"stopped", "continued"}

Init == /\ proc = [p \in Pids |-> "none"] /\ event = [p \in Pids |-> "none"]
        /\ fore = [p \in Pids |-> FALSE]
        /\ term = Shell
        /\ job_list = <<>> /\ current = NoPid /\ count = 1
        /\ pc = "read" /\ pid = NoPid /\ nohang = FALSE

------------------------------------------------------------------------------
(* jobs.c *)
Listed(p)  == \E i \in DOMAIN job_list : job_list[i].pid = p
Place(p)   == CHOOSE i \in DOMAIN job_list : job_list[i].pid = p
HeadPid(s) == IF s = <<>> THEN NoPid ELSE s[1].pid

After(p) == IF Place(p) = Len(job_list) THEN NoPid ELSE job_list[Place(p) + 1].pid

add_job(p, st) == /\ job_list' = Append(job_list, [pid |-> p, jid |-> count, state |-> st])
                  /\ current' = IF job_list = <<>> THEN p ELSE current

Removed(p) == IF Listed(p) THEN RemoveAt(job_list, Place(p)) ELSE job_list

Updated(list, p, st) == [i \in DOMAIN list |-> IF list[i].pid = p THEN [list[i] EXCEPT !.state = st]
                                               ELSE list[i]]

------------------------------------------------------------------------------
(* The kernel *)

\* waitpid(p, &status, options) with options & WCONTINUED = cont: what it reports.
Reports(p, cont) == event[p] # "none" /\ (cont \/ event[p] # "continued")

\* It takes the status, and reaps the dead.
Reaped(p) == /\ event' = [event EXCEPT ![p] = "none"]
             /\ proc' = [proc EXCEPT ![p] = IF @ = "dead" THEN "none" ELSE @]

SIGCONT(p) == IF proc[p] = "stop"
              THEN /\ proc' = [proc EXCEPT ![p] = "run"]
                   /\ event' = [event EXCEPT ![p] = "continued"]
              ELSE UNCHANGED <<proc, event>>

\* The child between fork and execv; only a foreground one takes the terminal.
\* It ignores the signals the shell ignores until then.
setpgid(p) == /\ proc[p] = "forked"
              /\ proc' = [proc EXCEPT ![p] = "grouped"]
              /\ term' = IF fore[p] THEN p ELSE term
              /\ fore' = [fore EXCEPT ![p] = FALSE]
              /\ UNCHANGED <<event, job_list, current, count, pc, pid, nohang>>

execv(p) == /\ proc[p] = "grouped"
            /\ \/ proc' = [proc EXCEPT ![p] = "run"] /\ UNCHANGED event
               \/ /\ proc' = [proc EXCEPT ![p] = "dead"]           \* error_exit
                  /\ event' = [event EXCEPT ![p] = "exit1"]
            /\ UNCHANGED <<fore, term, job_list, current, count, pc, pid, nohang>>

\* A program ends by itself or by a signal, stops, or is continued by another process.
ProgramStep(p) ==
    /\ \/ /\ proc[p] = "run"
          /\ \E e \in Ends : event' = [event EXCEPT ![p] = e]
          /\ proc' = [proc EXCEPT ![p] = "dead"]
       \/ /\ proc[p] = "stop"
          /\ event' = [event EXCEPT ![p] = "killed"]
          /\ proc' = [proc EXCEPT ![p] = "dead"]
       \/ /\ proc[p] = "run"
          /\ event' = [event EXCEPT ![p] = "stopped"]
          /\ proc' = [proc EXCEPT ![p] = "stop"]
       \/ proc[p] = "stop" /\ SIGCONT(p)
    /\ UNCHANGED <<fore, term, job_list, current, count, pc, pid, nohang>>

------------------------------------------------------------------------------
(* helpers/shell_2_helpers.c *)

\* A job that a signal ended stays in the list.
KilledStays(p, s) ==
    job_list' = CASE s \in Exits   -> Removed(p)
                  [] s = "stopped" -> Updated(job_list, p, "Stopped")
                  [] OTHER         -> Updated(job_list, p, "Running")

\* handle_status of the status s that waitpid returned for p.
\* The second SIGTSTP to a stopped job is pending, and its SIGCONT discards it.
handle_status(p, s) ==
    job_list' = CASE s \in Ends    -> Removed(p)
                  [] s = "stopped" -> Updated(job_list, p, "Stopped")
                  [] OTHER         -> Updated(job_list, p, "Running")

\* update_and_handle: a job that ended with a status other than 0 and 256 is added and
\* removed again.  st compares the status with SIGTSTP, so it is always Running;
\* handle_status corrects it.
update_and_handle(p, s) ==
    CASE s = "exit1"    -> UNCHANGED <<job_list, current, count>>
      [] s \in {"exitN", "killed"} -> /\ count' = count + 1
                                      /\ UNCHANGED <<job_list, current>>
      [] s = "stopped"  -> add_job(p, "Stopped") /\ count' = count + 1
      [] OTHER          -> add_job(p, "Running") /\ count' = count + 1

------------------------------------------------------------------------------
(* sh.c *)

\* Every child takes the terminal, & or not.
ForkToFront(p, bg, path) ==
    /\ pc = "read" /\ proc[p] = "none" /\ count < MaxCount
    /\ proc' = [proc EXCEPT ![p] = "forked"]
    /\ fore' = [fore EXCEPT ![p] = TRUE]
    /\ pc' = "wait" /\ pid' = p /\ nohang' = (bg /\ path)
    /\ UNCHANGED <<event, term, job_list, current, count>>

\* A command that is not built in: fork, which succeeds.  bg: it ends with &; path: it starts with
\* . or /, without which & is an argument, and execv fails.
Fork(p, bg, path) ==
    /\ pc = "read" /\ proc[p] = "none" /\ count < MaxCount
    /\ proc' = [proc EXCEPT ![p] = "forked"]
    /\ fore' = [fore EXCEPT ![p] = ~bg]
    /\ pc' = "wait" /\ pid' = p /\ nohang' = (bg /\ path)
    /\ UNCHANGED <<event, term, job_list, current, count>>

\* waitpid for the new child: status 0 counts, everything else goes to the list.
WaitNew ==
    /\ pc = "wait"
    /\ IF Reports(pid, TRUE)
       THEN /\ Reaped(pid)
            /\ IF event[pid] = "exit0"
               THEN count' = count + 1 /\ UNCHANGED <<job_list, current>>
               ELSE update_and_handle(pid, event[pid])
       ELSE /\ nohang /\ UNCHANGED <<event, proc>>
            /\ update_and_handle(pid, "none")
    /\ pc' = "sweep"
    /\ UNCHANGED <<fore, term, pid, nohang>>

\* An empty line.  cd, ln, rm, jobs and the errors change nothing that is kept here.
Enter == /\ pc = "read" /\ pc' = "sweep" /\ pid' = NoPid
         /\ UNCHANGED <<proc, event, fore, term, job_list, current, count, nohang>>

\* fg_bg: kill(-pid) finds no group before the child's setpgid, and getpgid is the
\* shell's own then.
fg_bg(p, fg) ==
    /\ pc = "read" /\ Listed(p)
    /\ job_list' = Updated(job_list, p, "Running")
    /\ SIGCONT(p)
    /\ term' = IF fg /\ proc[p] # "forked" THEN p ELSE term
    /\ pc' = "fg" /\ pid' = p /\ nohang' = ~fg
    /\ UNCHANGED <<fore, current, count>>

\* The waitpid of fg and bg, which blocks for both.
WaitFg ==
    /\ pc = "fg" /\ Reports(pid, nohang)
    /\ Reaped(pid)
    /\ handle_status(pid, event[pid])
    /\ current' = IF event[pid] \in Ends /\ current = pid THEN After(pid) ELSE current
    /\ term' = Shell /\ pc' = "read" /\ pid' = NoPid /\ nohang' = FALSE
    /\ UNCHANGED <<fore, count>>

\* get_next_pid and one turn of the loop over the jobs.
Sweep ==
    /\ pc = "sweep" /\ current # NoPid
    /\ current' = After(current)
    /\ IF current # pid /\ Reports(current, TRUE)
       THEN Reaped(current) /\ handle_status(current, event[current])
       ELSE UNCHANGED <<event, proc, job_list>>
    /\ UNCHANGED <<fore, term, count, pc, pid, nohang>>

\* get_next_pid returns -1 and rewinds; the bottom of the loop.
Prompt ==
    /\ pc = "sweep" /\ current = NoPid
    /\ current' = HeadPid(job_list)
    /\ term' = IF pid = NoPid THEN term ELSE Shell
    /\ pc' = "read" /\ pid' = NoPid /\ nohang' = FALSE
    /\ UNCHANGED <<proc, event, fore, job_list, count>>

\* exit or CTRL-D: cleanup_job_list kills the groups, which misses a child that has
\* not run setpgid.
cleanup_job_list ==
    /\ pc = "read" /\ pc' = "exited"
    /\ LET hit(p) == Listed(p) /\ proc[p] \in {"grouped", "run", "stop"}
       IN  /\ proc' = [p \in Pids |-> IF hit(p) THEN "dead" ELSE proc[p]]
           /\ event' = [p \in Pids |-> IF hit(p) THEN "killed" ELSE event[p]]
    /\ job_list' = <<>> /\ current' = NoPid
    /\ UNCHANGED <<fore, term, count, pid, nohang>>

Next == \/ \E p \in Pids : \/ setpgid(p) \/ execv(p) \/ ProgramStep(p)
                           \/ \E bg, path \in BOOLEAN : Fork(p, bg, path)
                           \/ \E fg \in BOOLEAN : fg_bg(p, fg)
        \/ WaitNew \/ WaitFg \/ Enter \/ Sweep \/ Prompt \/ cleanup_job_list

Spec == Init /\ [][Next]_shVars
------------------------------------------------------------------------------
\* At the prompt the list holds exactly the children that waitpid has not reaped, in
\* the order of their numbers, the iterator is back at the head, and a listed state is
\* wrong only while waitpid has a report to make about that job.
JobTableExact ==
    pc = "read" =>
        /\ {job_list[i].pid : i \in DOMAIN job_list} = {p \in Pids : proc[p] # "none"}
        /\ \A i, j \in DOMAIN job_list : i < j => /\ job_list[i].pid # job_list[j].pid
                                                /\ job_list[i].jid < job_list[j].jid
        /\ \A i \in DOMAIN job_list :
              LET j == job_list[i]
              IN  /\ j.jid < count
                  /\ event[j.pid] = "none" => (j.state = "Stopped" <=> proc[j.pid] = "stop")
        /\ current = HeadPid(job_list)

\* The shell reads a command only when the terminal is its own, gives it to no child but
\* the one it waits for, and never waits for a child whose stop it has already seen.
TerminalAndWait ==
    /\ pc \in {"read", "exited"} => term = Shell
    /\ term \in {Shell, pid}
    /\ pc = "fg" \/ (pc = "wait" /\ ~nohang) => proc[pid] # "none" /\ (proc[pid] = "stop" => event[pid] # "none")
=================================================================================
