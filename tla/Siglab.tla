--------------------------------- MODULE Siglab ---------------------------------
(***************************************************************************)
(* The secret knock of systems/cs033/lab07/siglab.c: the program ends when *)
(* SIGINT, SIGTSTP and SIGQUIT come in this order within INTERVAL seconds. *)
(* A handler keeps off its own signal only, so the others interrupt it     *)
(* between any two accesses to the flags; the stack holds the handlers     *)
(* that run, the innermost last.  Echoing is left out.                     *)
(***************************************************************************)
EXTENDS Naturals, SequencesExt

CONSTANTS INTERVAL, LastSecond, MaxSignals

VARIABLES now, seconds,        \* the clock; when SIGINT came last
          sig_int, sig_stop,   \* sig_quit is never set
          stack,
          log,                 \* the signals and when their handlers looked at the clock
          nested,              \* a handler was interrupted by another
          exited               \* FALSE, or why: "knock" or "eof"

siglabVars == <<now, seconds, sig_int, sig_stop, stack, log, nested, exited>>

Signals == {"SIGINT", "SIGTSTP", "SIGQUIT"}

Init ==
    /\ now = INTERVAL /\ seconds = 0
    /\ sig_int = FALSE /\ sig_stop = FALSE
    /\ stack = <<>> /\ log = <<>> /\ nested = FALSE /\ exited = "no"

Running  == exited = "no"
Top      == stack[Len(stack)]
At(s, p) == stack # <<>> /\ Top.sig = s /\ Top.pc = p
Goto(p)  == stack' = [stack EXCEPT ![Len(stack)].pc = p]
Leave    == stack' = SubSeq(stack, 1, Len(stack) - 1)

Tick == now < LastSecond /\ now' = now + 1
        /\ UNCHANGED <<seconds, sig_int, sig_stop, stack, log, nested, exited>>

Deliver(s) ==
    /\ Len(log) + Len(stack) < MaxSignals
    /\ \A i \in DOMAIN stack : stack[i].sig # s
    /\ stack' = Append(stack, [sig |-> s, pc |-> "enter", at |-> 0])
    /\ nested' = (nested \/ stack # <<>>)
    /\ UNCHANGED <<now, seconds, sig_int, sig_stop, log, exited>>

\* Every handler looks at the clock first; that of SIGINT keeps the time.
Enter ==
    /\ stack # <<>> /\ Top.pc = "enter"
    /\ log' = Append(log, [sig |-> Top.sig, at |-> now])
    /\ IF Top.sig = "SIGINT" THEN seconds' = now /\ Goto("set")
       ELSE stack' = [stack EXCEPT ![Len(stack)] = [@ EXCEPT !.pc = "time", !.at = now]]
            /\ UNCHANGED seconds
    /\ UNCHANGED <<now, sig_int, sig_stop, nested, exited>>

\* Mutant of SetInt: SIGINT does not start the knock afresh.
SetIntOnly == /\ At("SIGINT", "set") /\ sig_int' = TRUE /\ Leave
              /\ UNCHANGED <<now, seconds, sig_stop, log, nested, exited>>

SetInt == /\ At("SIGINT", "set") /\ sig_int' = TRUE /\ Goto("reset")
          /\ UNCHANGED <<now, seconds, sig_stop, log, nested, exited>>
Reset  == /\ At("SIGINT", "reset") /\ sig_stop' = FALSE /\ Leave
          /\ UNCHANGED <<now, seconds, sig_int, log, nested, exited>>

\* The tests of the other two, one read of a flag after the other.
Test(s) ==
    /\ \/ At(s, "time") /\ Goto(IF Top.at < seconds + INTERVAL THEN "int" ELSE "clear")
       \/ At(s, "int")  /\ Goto(IF sig_int THEN "stop" ELSE "clear")
       \/ At(s, "stop") /\ Goto(IF sig_stop = (s = "SIGQUIT") THEN "pass" ELSE "clear")
    /\ UNCHANGED <<now, seconds, sig_int, sig_stop, log, nested, exited>>

ClearInt(s)  == /\ At(s, "clear") /\ sig_int' = FALSE /\ Goto("unstop")
                /\ UNCHANGED <<now, seconds, sig_stop, log, nested, exited>>
ClearStop(s) == /\ At(s, "unstop") /\ sig_stop' = FALSE /\ Leave
                /\ UNCHANGED <<now, seconds, sig_int, log, nested, exited>>

SetStop == /\ At("SIGTSTP", "pass") /\ sig_stop' = TRUE /\ Leave
           /\ UNCHANGED <<now, seconds, sig_int, log, nested, exited>>
Knocked == /\ At("SIGQUIT", "pass") /\ exited' = "knock"
           /\ UNCHANGED <<now, seconds, sig_int, sig_stop, stack, log, nested>>

\* read_and_echo: an interrupted read is tried again; at the end of the input main returns.
EndOfFile == /\ stack = <<>> /\ exited' = "eof"
             /\ UNCHANGED <<now, seconds, sig_int, sig_stop, stack, log, nested>>

Handlers == \/ Enter \/ SetInt \/ Reset \/ SetStop \/ Knocked
            \/ \E s \in {"SIGTSTP", "SIGQUIT"} : Test(s) \/ ClearInt(s) \/ ClearStop(s)

Next == Running /\ (Tick \/ Handlers \/ EndOfFile \/ \E s \in Signals : Deliver(s))

Spec == Init /\ [][Next]_siglabVars

------------------------------------------------------------------------------

LastThree == SubSeq(log, Len(log) - 2, Len(log))
IsKnock   == /\ Len(log) >= 3
             /\ [i \in 1..3 |-> LastThree[i].sig] = <<"SIGINT", "SIGTSTP", "SIGQUIT">>
             /\ LastThree[3].at < LastThree[1].at + INTERVAL

\* The knock, and nothing else, ends the program.  When no handler is interrupted by another
\* it does exactly if the last three signals are the knock and come in time.  Otherwise the
\* order is not certain (a SIGINT that interrupts the handler of SIGTSTP counts as the earlier),
\* but each of the three has come, and SIGQUIT not INTERVAL after the last SIGINT.
KnockOpens ==
    /\ exited = "knock" => {log[i].sig : i \in DOMAIN log} = Signals
                            /\ Top.at < seconds + INTERVAL
    /\ ~nested => (exited = "knock" => IsKnock)
    /\ (~nested /\ stack = <<>>) => ~IsKnock
=================================================================================
