-------------------------------- MODULE DbServer --------------------------------
(***************************************************************************)
(* The threads of systems/cs033/database/server.c and comm.c: the listener *)
(* that makes client threads, the client threads, the thread that waits    *)
(* for SIGINT, and main with its console.  `num_client_threads`, `stopped` *)
(* and delete_all's walk are not under any lock, so each of their accesses *)
(* is an action; sections under thread_list_mutex are split where          *)
(* delete_all can see the difference.                                      *)
(***************************************************************************)
EXTENDS Integers

CONSTANTS Clients,       \* the client structs that can be made
          Main, Sig,     \* the two threads that call delete_all
          None,
          Events         \* bound: which of "stop", "sigint" and "eof" may happen

VARIABLES th,            \* th[c]: where client thread c is, and its copy of the counter
          cancelled,     \* clients with a cancellation pending or acted upon
          freed,         \* clients whose struct is freed
          head, next, prev, listMutex,      \* thread_list_head, its links and its mutex
          num,           \* server_cont.num_client_threads
          stopped, goMutex,                 \* client_cont
          ran,           \* ran[c]: commands c began since the console last said stop
          listening,     \* the listener has not been cancelled
          del,           \* del[a]: where thread a is in its own code or in delete_all
          deleting       \* some delete_all has begun

clientVars == <<th, cancelled, freed>>
listVars == <<head, next, prev, listMutex>>
contVars == <<stopped, goMutex, ran>>
mainVars == <<listening, del, deleting>>
srvVars == <<clientVars, listVars, num, contVars, mainVars>>

Killers == {Main, Sig}

Init == /\ th = [c \in Clients |-> [pc |-> "none", copy |-> 0]]
        /\ cancelled = {} /\ freed = {}
        /\ head = None /\ listMutex = None
        /\ next = [c \in Clients |-> None]
        /\ prev = [c \in Clients |-> None]
        /\ num = 0
        /\ stopped = FALSE /\ goMutex = FALSE
        /\ ran = [c \in Clients |-> 0]
        /\ listening = TRUE /\ deleting = FALSE
        /\ del = [a \in Killers |-> [pc |-> IF a = Main THEN "console" ELSE "sigwait", cur |-> None]]

At(c) == th[c].pc
Goto(c, pc) == th' = [th EXCEPT ![c].pc = pc]

---------------------------------------------------------------------------------
(* listener and client_constructor, each constructor in a thread of its own. *)

Accept(c) == /\ listening /\ At(c) = "none"
             /\ Goto(c, "register")
             /\ UNCHANGED <<cancelled, freed, listVars, num, contVars, mainVars>>

(* run_client: registering.                                                  *)

LinkNext(c) == /\ At(c) = "register" /\ listMutex = None
               /\ listMutex' = c
               /\ next' = [next EXCEPT ![c] = head]
               /\ prev' = IF head = None THEN prev ELSE [prev EXCEPT ![head] = c]
               /\ Goto(c, "link")
               /\ UNCHANGED <<cancelled, freed, head, num, contVars, mainVars>>

LinkHead(c) == /\ At(c) = "link"
               /\ head' = c
               /\ listMutex' = None
               /\ Goto(c, "count")
               /\ UNCHANGED <<cancelled, freed, next, prev, num, contVars, mainVars>>

\* num_client_threads += 1 is a load and a store.
LoadNum(c, from, to) == /\ At(c) = from
                        /\ th' = [th EXCEPT ![c] = [pc |-> to, copy |-> num]]
                        /\ UNCHANGED <<cancelled, freed, listVars, num, contVars, mainVars>>

CountUp(c) == LoadNum(c, "count", "counting")

CountedUp(c) == /\ At(c) = "counting"
                /\ num' = th[c].copy + 1
                /\ th' = [th EXCEPT ![c] = [pc |-> "test", copy |-> 0]]
                /\ UNCHANGED <<cancelled, freed, listVars, contVars, mainVars>>

(* client_control_wait: `stopped` is read without go_mutex, and a thread that  *)
(* never waited unlocks a mutex it does not hold.                              *)

Pass(c) == /\ At(c) = "test" /\ ~stopped
           /\ goMutex' = FALSE
           /\ Goto(c, "serve")
           /\ UNCHANGED <<cancelled, freed, listVars, num, stopped, ran, mainVars>>

MustWait(c) == /\ At(c) = "test" /\ stopped
               /\ Goto(c, "falling asleep")
               /\ UNCHANGED <<cancelled, freed, listVars, num, contVars, mainVars>>

Sleep(c) == /\ At(c) = "falling asleep"
            /\ goMutex' = FALSE
            /\ Goto(c, "asleep")
            /\ UNCHANGED <<cancelled, freed, listVars, num, stopped, ran, mainVars>>

\* Mutant: the while of client_control_wait is an if.
WakeAndGo(c) == /\ At(c) = "awake" /\ ~goMutex
                /\ goMutex' = FALSE
                /\ Goto(c, "serve")
                /\ UNCHANGED <<cancelled, freed, listVars, num, stopped, ran, mainVars>>

Wake(c) == /\ At(c) = "awake" /\ ~goMutex
           /\ goMutex' = TRUE
           /\ Goto(c, "test")
           /\ UNCHANGED <<cancelled, freed, listVars, num, stopped, ran, mainVars>>

\* comm_serve and interpret_command; before and between them, a thread is at "serve".
Receive(c) == /\ At(c) = "serve"
              /\ Goto(c, "test")
              /\ ran' = [ran EXCEPT ![c] = IF stopped THEN @ + 1 ELSE 0]
              /\ UNCHANGED <<cancelled, freed, listVars, num, stopped, goMutex, mainVars>>

\* The client closed its end: run_client pops its handler and cleans up itself.
HangUp(c) == /\ At(c) = "serve"
             /\ Goto(c, "uncount")
             /\ UNCHANGED <<cancelled, freed, listVars, num, contVars, mainVars>>

\* pthread_cancel acts at the next cancellation point once the handler is pushed:
\* in a wait, which takes go_mutex back first and then never gives it up, in the
\* stream calls of comm_serve, or between the commands of a file.
CancelActs(c) == /\ c \in cancelled
                 /\ \/ At(c) = "serve" /\ UNCHANGED goMutex
                    \/ At(c) \in {"asleep", "awake"} /\ ~goMutex /\ goMutex' = TRUE
                 /\ Goto(c, "uncount")
                 /\ UNCHANGED <<cancelled, freed, listVars, num, stopped, ran, mainVars>>

(* thread_cleanup: it has no cancellation point.                             *)

CountDown(c) == LoadNum(c, "uncount", "uncounting")

\* The store, and the broadcast for main, which is awake when it polls the counter.
CountedDown(c) == /\ At(c) = "uncounting"
                  /\ num' = th[c].copy - 1
                  /\ th' = [th EXCEPT ![c] = [pc |-> "unlist", copy |-> 0]]
                  /\ del' = [del EXCEPT ![Main].pc = IF @ = "waiting" THEN "poll" ELSE @]
                  /\ UNCHANGED <<cancelled, freed, listVars, contVars,
                                 listening, deleting>>

\* The clients from the one x on: they are in every set that has x and the next of
\* its own members.
Closed(s) == \A c \in s : next[c] \in s \cup {None}
Chain(x)  == {c \in Clients : \A s \in SUBSET Clients : x \in s \cup {None} /\ Closed(s) => c \in s}

\* Mutant: the successor keeps its prev.
RemoveOneLink(c) ==
    /\ At(c) = "unlist" /\ listMutex = None
    /\ head' = IF head = c THEN next[c] ELSE head
    /\ next' = [x \in Clients |-> IF x = c THEN None
                                  ELSE IF head # c /\ x = prev[c] THEN next[c] ELSE next[x]]
    /\ prev' = [prev EXCEPT ![c] = None]
    /\ freed' = freed \cup {c}
    /\ Goto(c, "ended")
    /\ UNCHANGED <<cancelled, listMutex, num, contVars, mainVars>>

\* remove_from_list and client_destructor: the prev of the head is never followed, and
\* may be stale; what a freed struct holds is cleared.
RemoveFromList(c) ==
    /\ At(c) = "unlist" /\ listMutex = None
    /\ LET inside == head # c /\ c \in Chain(head) IN
       /\ head' = IF head = c THEN next[c] ELSE head
       /\ next' = [x \in Clients |-> IF x = c THEN None
                                     ELSE IF inside /\ x = prev[c] THEN next[c] ELSE next[x]]
       /\ prev' = [x \in Clients |-> IF x = c THEN None
                                     ELSE IF inside /\ x = next[c] THEN prev[c] ELSE prev[x]]
    /\ freed' = freed \cup {c}
    /\ Goto(c, "ended")
    /\ UNCHANGED <<cancelled, listMutex, num, contVars, mainVars>>

---------------------------------------------------------------------------------
(* main and the SIGINT thread.                                               *)

Step(a, f) == del' = [del EXCEPT ![a] = f]

\* A broadcast of `go`: whoever sleeps will ask for go_mutex.
Broadcast == th' = [c \in Clients |-> [th[c] EXCEPT !.pc = IF @ = "asleep" THEN "awake" ELSE @]]

ClientControlStop == /\ del[Main].pc = "console"
                     /\ stopped' = TRUE
                     /\ ran' = IF stopped THEN ran ELSE [c \in Clients |-> 0]
                     /\ Broadcast
                     /\ UNCHANGED <<cancelled, freed, listVars, num, goMutex, mainVars>>

ClientControlRelease == /\ del[Main].pc = "console"
                        /\ stopped' = FALSE
                        /\ ran' = [c \in Clients |-> 0]
                        /\ Broadcast
                        /\ UNCHANGED <<cancelled, freed, listVars, num, goMutex, mainVars>>

Sigint == /\ del[Sig].pc = "sigwait"
          /\ deleting' = TRUE
          /\ Step(Sig, [del[Sig] EXCEPT !.pc = "delete"])
          /\ UNCHANGED <<clientVars, listVars, num, contVars, listening>>

EndOfInput == /\ del[Main].pc = "console"
              /\ listening' = FALSE
              /\ deleting' = TRUE
              /\ Step(Main, [del[Main] EXCEPT !.pc = "delete"])
              /\ UNCHANGED <<clientVars, listVars, num, contVars>>

(* delete_all, without thread_list_mutex.                                    *)

DeletePick(a) == /\ del[a].pc = "delete"
                 /\ Step(a, IF head # None THEN [del[a] EXCEPT !.pc = "unhead", !.cur = head]
                            ELSE [del[a] EXCEPT !.pc = IF a = Main THEN "poll" ELSE "sigwait"])
                 /\ UNCHANGED <<clientVars, listVars, num, contVars, listening, deleting>>

\* thread_list_head is read again; when the other one emptied the list, the process dies.
DeleteUnhead(a) == /\ del[a].pc = "unhead"
                   /\ IF head = None
                      THEN Step(a, [del[a] EXCEPT !.pc = "crashed"]) /\ UNCHANGED head
                      ELSE Step(a, [del[a] EXCEPT !.pc = "uncount"]) /\ head' = next[head]
                   /\ UNCHANGED <<clientVars, next, prev, listMutex, num, contVars,
                                  listening, deleting>>

\* One action: the updates that get lost are lost between the halves of the clients' ones.
DeleteCount(a) == /\ del[a].pc = "uncount"
                  /\ num' = num - 1
                  /\ Step(a, [del[a] EXCEPT !.pc = "cancel"])
                  /\ UNCHANGED <<clientVars, listVars, contVars, listening, deleting>>

DeleteCancel(a) == /\ del[a].pc = "cancel"
                   /\ cancelled' = cancelled \cup ({del[a].cur} \ freed)
                   /\ Step(a, [del[a] EXCEPT !.pc = "delete", !.cur = None])
                   /\ UNCHANGED <<th, freed, listVars, num, contVars,
                                  listening, deleting>>

\* The end of main: wait while there are clients, then clean the database up.
Poll == /\ del[Main].pc = "poll"
        /\ Step(Main, [del[Main] EXCEPT !.pc = IF num > 0 THEN "waiting" ELSE "cleanup"])
        /\ UNCHANGED <<clientVars, listVars, num, contVars, listening, deleting>>

DbCleanup == /\ del[Main].pc = "cleanup"
             /\ Step(Main, [del[Main] EXCEPT !.pc = "exited"])
             /\ UNCHANGED <<clientVars, listVars, num, contVars, listening, deleting>>

Runs == \A a \in Killers : del[a].pc \notin {"crashed", "exited"}

ClientStep(c) == \/ Accept(c) \/ LinkNext(c) \/ LinkHead(c)
                 \/ CountUp(c) \/ CountedUp(c) \/ Pass(c) \/ MustWait(c) \/ Sleep(c)
                 \/ Wake(c) \/ Receive(c) \/ HangUp(c) \/ CancelActs(c)
                 \/ CountDown(c) \/ CountedDown(c) \/ RemoveFromList(c)

DeleteAll(a) == \/ DeletePick(a) \/ DeleteUnhead(a) \/ DeleteCount(a)
                \/ DeleteCancel(a)

Next == /\ Runs
        /\ \/ \E c \in Clients : ClientStep(c)
           \/ \E a \in Killers : DeleteAll(a)
           \/ "stop" \in Events /\ (ClientControlStop \/ ClientControlRelease)
           \/ "sigint" \in Events /\ Sigint
           \/ "eof" \in Events /\ EndOfInput
           \/ Poll \/ DbCleanup

Spec == Init /\ [][Next]_srvVars

---------------------------------------------------------------------------------
(* Properties *)

Registered == {c \in Clients : At(c) \notin {"none", "register", "link", "ended"}}

\* Until somebody runs delete_all, the list is the clients between their registration
\* and their cleanup, none of them freed, and remove_from_list, which trusts prev of
\* all but the head, never meets a stale link (server.c:146-157, 204-240).
ListSound == ~deleting =>
    /\ Chain(head) = Registered
    /\ Registered \cap freed = {}
    /\ \A c \in Registered \ {head} : prev[c] # None /\ next[prev[c]] = c

\* However often the console stops and releases them, a client begins at most one
\* command after a stop: the one it was already past client_control_wait for, although
\* the flag is tested without the mutex and a stop itself wakes the sleepers
\* (server.c:76-98, 170-176).
StopHolds == \A c \in Clients : ran[c] <= 1
=================================================================================
