------------------------------- MODULE Interpose --------------------------------
(***************************************************************************)
(* The libc calls of a program of uthreads: interpose.c gives the names    *)
(* read, write, open, ... to functions that yield the processor and then   *)
(* call the libc function that dlsym finds.  The threads have one          *)
(* priority, so that uthread_yield means the end of the one run queue.     *)
(* The kernel, which is external, has a directory, a file in it that       *)
(* open() may create, and one more name that does not exist.               *)
(***************************************************************************)
EXTENDS Integers, SequencesExt, FiniteSetsExt

CONSTANTS Threads,
          Fds,         \* the descriptors that a process may have
          W,           \* the bits of an int; an off_t and a ssize_t have more
          MaxOffset,   \* the largest offset, and the size at which the disk is full
          MaxCalls     \* bound on the calls of a thread

VARIABLES runq,        \* the run queue, behind the thread that runs
          pc,          \* "body", "libc" (uthread_yield has returned) or "done"
          call,        \* the call that the thread is in: its name and its argument
          owed,        \* the threads that had to run before it
          kernel,      \* the descriptors, the current directory and what exists
          ret, truth,  \* what the last call returned to the thread, and what libc returned
          calls

interVars == <<runq, pc, call, owed, kernel, ret, truth, calls>>

Me    == Head(runq)
Paths == {"dir", "file", "nofile"}
Calls == [f : {"access", "chdir", "open", "creat"}, arg : Paths]
         \cup [f : {"fchdir", "write", "read", "getdents", "close"}, arg : Fds]
         \cup [f : {"lseek"}, arg : Fds, off : 0 .. MaxOffset]
         \cup [f : {"fork"}, arg : {0}]

Init ==
    /\ runq \in SetToSeqs(Threads)
    /\ pc = [t \in Threads |-> "body"]
    /\ call = [t \in Threads |-> [f |-> "fork", arg |-> 0]]
    /\ owed = [t \in Threads |-> {}]
    /\ kernel = [fd |-> [d \in Fds |-> [path |-> "none", off |-> 0]], cwd |-> "root", exists |-> {"dir"},
                 size |-> 0]
    /\ ret = [t \in Threads |-> 0] /\ truth = [t \in Threads |-> 0]
    /\ calls = [t \in Threads |-> 0]

\* Mutant of Yielded: the thread is put back where it was.
NotYielded == runq

\* uthread_yield.
Yielded == Append(Tail(runq), Me)

\* Every call but fork begins with uthread_yield.
Enter(c) ==
    /\ runq # <<>> /\ pc[Me] = "body" /\ calls[Me] < MaxCalls
    /\ call' = [call EXCEPT ![Me] = c]
    /\ pc' = [pc EXCEPT ![Me] = "libc"]
    /\ calls' = [calls EXCEPT ![Me] = @ + 1]
    /\ owed' = [t \in Threads |-> IF t = Me THEN ToSet(Tail(runq)) ELSE owed[t] \ {Me}]
    /\ runq' = IF c.f = "fork" THEN runq ELSE Yielded
    /\ UNCHANGED <<kernel, ret, truth>>

Exit ==
    /\ runq # <<>> /\ pc[Me] = "body"
    /\ pc' = [pc EXCEPT ![Me] = "done"]
    /\ owed' = [t \in Threads |-> owed[t] \ {Me}]
    /\ runq' = Tail(runq)
    /\ UNCHANGED <<call, kernel, ret, truth, calls>>

\* The wrappers keep what libc returns in an int.
AsInt(n) == ((n + 2^(W - 1)) % 2^W) - 2^(W - 1)

Real(f) == runq # <<>> /\ pc[Me] = "libc" /\ call[Me].f = f
Arg     == call[Me].arg
OpenOn(paths) == kernel.fd[Arg].path \in paths
Closed  == [path |-> "none", off |-> 0]

\* libc returns n and leaves the kernel as k; dlclose; the wrapper returns.
Return(n, k) ==
    /\ kernel' = k
    /\ truth' = [truth EXCEPT ![Me] = n]
    /\ ret' = [ret EXCEPT ![Me] = AsInt(n)]
    /\ pc' = [pc EXCEPT ![Me] = "body"]
    /\ owed' = [owed EXCEPT ![Me] = {}]
    /\ UNCHANGED <<runq, call, calls>>
Error == Return(-1, kernel)

usr_access == Real("access") /\ IF Arg \in kernel.exists THEN Return(0, kernel) ELSE Error
usr_chdir  == Real("chdir") /\ IF Arg = "dir" THEN Return(0, [kernel EXCEPT !.cwd = "dir"]) ELSE Error

\* dlsym looks for "chdir" here, which takes the descriptor for the address of a path.
usr_fchdir == Real("fchdir") /\ Error

usr_fork == Real("fork") /\ Return(1, kernel)

OpenAt(path) ==
    LET free == {d \in Fds : kernel.fd[d].path = "none"}
    IN  IF free = {} THEN Error
        ELSE Return(Min(free), [kernel EXCEPT !.fd[Min(free)] = [path |-> path, off |-> 0],
                                              !.exists = @ \cup {path}])

\* The mode is only taken from the arguments when O_CREAT is among the flags.
usr_open ==
    \/ Real("open") /\ IF Arg \in kernel.exists THEN OpenAt(Arg) ELSE Error
    \/ Real("creat") /\ IF Arg = "dir" THEN Error ELSE OpenAt("file")

usr_close == Real("close") /\ IF OpenOn({"dir", "file"}) THEN Return(0, [kernel EXCEPT !.fd[Arg] = Closed])
                              ELSE Error

\* One byte, or entry, at a time.
usr_write ==
    /\ Real("write")
    /\ IF OpenOn({"file"}) /\ kernel.fd[Arg].off < MaxOffset
       THEN Return(1, [kernel EXCEPT !.fd[Arg].off = @ + 1, !.size = Max({@, kernel.fd[Arg].off + 1})])
       ELSE Error
usr_read ==
    /\ Real("read")
    /\ IF ~OpenOn({"file"}) THEN Error
       ELSE IF kernel.fd[Arg].off < kernel.size THEN Return(1, [kernel EXCEPT !.fd[Arg].off = @ + 1])
       ELSE Return(0, kernel)
usr_getdents ==
    /\ Real("getdents")
    /\ IF ~OpenOn({"dir"}) THEN Error
       ELSE IF kernel.fd[Arg].off = 0 THEN Return(1, [kernel EXCEPT !.fd[Arg].off = 1])
       ELSE Return(0, kernel)
usr_lseek ==
    /\ Real("lseek")
    /\ IF OpenOn({"dir", "file"}) THEN Return(call[Me].off, [kernel EXCEPT !.fd[Arg].off = call[Me].off])
       ELSE Error

Next == \/ \E c \in Calls : Enter(c)
        \/ Exit
        \/ usr_access \/ usr_chdir \/ usr_fchdir \/ usr_fork \/ usr_open \/ usr_close
        \/ usr_write \/ usr_read \/ usr_getdents \/ usr_lseek

Spec == Init /\ [][Next]_interVars

------------------------------------------------------------------------------
\* A libc call that may stop the whole process is made only after every other ready thread
\* has run, fork excepted; and it is worth to the thread what libc returned, as long as that
\* fits in an int.
CallsLetOthersRun ==
    /\ runq # <<>> /\ pc[Me] = "libc" /\ call[Me].f # "fork" => owed[Me] = {}
    /\ \A t \in Threads : truth[t] < 2^(W - 1) => ret[t] = truth[t]
=================================================================================
