------------------------------- MODULE Redirect --------------------------------
(***************************************************************************)
(* Redirection in systems/cs033/shell_1: the child that sh.c forks takes   *)
(* the symbols and their files out of arg_vec one after the other, and     *)
(* then runs what is left.  shell_2/sh.c has a loop like it, with checks   *)
(* of its own, which is not modelled.                                      *)
(***************************************************************************)
EXTENDS Integers, FiniteSets, SequencesExt

CONSTANTS Words,       \* words that are no redirection symbol
          MaxArgs,     \* bound on the words of a command
          NULL

VARIABLES typed,       \* the words of the line
          arg_vec,     \* the array, with its NULLs
          argc,
          input, output,    \* what descriptors 0 and 1 are
          state        \* "loop", "run" (execv), "failed" (exit(1)) or "crashed"

redVars == <<typed, arg_vec, argc, input, output, state>>

Symbols == {"<", ">", ">>"}

\* The first test for the symbol is a prefix test: ">" is a prefix of ">>".
StartsWith(s, r) == s = r \/ (r = ">" /\ s = ">>")

find_redirection(v, n) == {i \in 1 .. n : v[i] \in Symbols}

\* The comparison of whole words.
CountSame(v, n, r) == Cardinality({i \in 1 .. n : v[i] = r})

count_redirection(v, n, r) == Cardinality({i \in 1 .. n : StartsWith(v[i], r)})

\* create_args: everything from pos on moves down by one.
create_args(v, pos, n) == [i \in DOMAIN v |-> IF i \in pos .. n /\ i < Len(v) THEN v[i + 1] ELSE v[i]]

Init == /\ typed \in UNION {[1 .. n -> Words \cup Symbols] : n \in 1 .. MaxArgs}
        /\ find_redirection(typed, Len(typed)) # {}
        /\ arg_vec = [i \in 1 .. MaxArgs + 2 |-> IF i <= Len(typed) THEN typed[i] ELSE NULL]
        /\ argc = Len(typed)
        /\ input = "tty" /\ output = "tty"
        /\ state = "loop"

First == CHOOSE i \in find_redirection(arg_vec, argc) :
            \A j \in find_redirection(arg_vec, argc) : i <= j

Fail == state' = "failed" /\ UNCHANGED <<arg_vec, argc, input, output>>

\* One turn of the while loop; open() of a missing file name fails, and so may any other.
Turn ==
    /\ state = "loop" /\ find_redirection(arg_vec, argc) # {}
    /\ LET sym  == arg_vec[First]
           file == arg_vec[First + 1]
       IN  \/ Fail
           \/ /\ count_redirection(arg_vec, argc, sym) = 1 /\ file # NULL
              /\ IF sym = "<" THEN input' = file /\ UNCHANGED output
                 ELSE output' = <<sym, file>> /\ UNCHANGED input
              /\ arg_vec' = create_args(create_args(arg_vec, First + 1, argc), First, argc - 1)
              /\ argc' = argc - 2
              /\ UNCHANGED state
    /\ UNCHANGED typed

\* The name is looked for in the first word, whether there is one or not.
Exec == /\ state = "loop" /\ find_redirection(arg_vec, argc) = {}
        /\ state' = IF arg_vec[1] = NULL THEN "crashed" ELSE "run"
        /\ UNCHANGED <<typed, arg_vec, argc, input, output>>

Next == Turn \/ Exec

Spec == Init /\ [][Next]_redVars

------------------------------------------------------------------------------
\* Reading from the left, a symbol takes the next word, whatever it is.
Takes == LET t[i \in 0 .. Len(typed)] == i > 0 /\ typed[i] \in Symbols /\ ~t[i - 1]
         IN  {i \in DOMAIN typed : t[i]}

Rest == LET kept == {i \in DOMAIN typed : i \notin Takes /\ i - 1 \notin Takes}
        IN  [k \in 1 .. Cardinality(kept) |->
                typed[CHOOSE i \in kept : Cardinality({j \in kept : j < i}) = k - 1]]

\* The last symbol of the kind decides.
Target(kinds, default, what(_)) ==
    LET ps == {i \in Takes : typed[i] \in kinds}
    IN  IF ps = {} THEN default ELSE what(CHOOSE i \in ps : \A j \in ps : j <= i)

\* A command that is run gets its other words, all of them and in their order, with the
\* NULL behind them; its descriptors are those the symbols name; and no symbol was given
\* twice.  A command without another word crashes the child, and no other does.
\* ">> a > b" passes, though two files are named: the second one gets the output.
RedirectionRight ==
    /\ state = "crashed" => Rest = <<>>
    /\ state = "run" =>
        /\ SubSeq(arg_vec, 1, argc) = Rest /\ arg_vec[argc + 1] = NULL
        /\ input = Target({"<"}, "tty", LAMBDA i : typed[i + 1])
        /\ output = Target({">", ">>"}, "tty", LAMBDA i : <<typed[i], typed[i + 1]>>)
        /\ \A i, j \in Takes : i < j => <<typed[i], typed[j]>> \notin
                {<<"<", "<">>, <<">", ">">>, <<">>", ">>">>, <<">", ">>">>}
=================================================================================
