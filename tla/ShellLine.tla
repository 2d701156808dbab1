------------------------------- MODULE ShellLine -------------------------------
(***************************************************************************)
(* How the two shells of systems/cs033 cut a command line into words, in   *)
(* place: shell_1/helpers.c and shell_2/helpers/shell_1_helpers.c, with    *)
(* the loop of sh.c and the buffer it reuses.  A line is made of blanks,   *)
(* the letter "w" for everything else, and the newline that read() returns.*)
(***************************************************************************)
EXTENDS Integers, SequencesExt, FiniteSetsExt

CONSTANTS BLOCK,       \* length of buff
          MaxLine      \* bound on the characters before the newline

VARIABLES shell,       \* 1 or 2
          buff,
          line,        \* what read() put at the start of buff
          dirty,       \* buff held something else beyond it
          argv         \* the words of arg_vec

lineVars == <<shell, buff, line, dirty, argv>>

NUL == "0"
Lines == {Append(s, "n") : s \in UNION {[1 .. k -> {"w", " "}] : k \in 0 .. MaxLine}}

Init == /\ shell \in {1, 2}
        /\ buff = [i \in 1 .. BLOCK |-> NUL]
        /\ line = <<>> /\ dirty = FALSE /\ argv = <<>>

\* strlen of the string that starts at i, which has to end inside the buffer.
strlen(b, i) == Min({j \in i .. Len(b) : b[j] = NUL} \cup {Len(b) + 1}) - i

\* Only shell_1 counts \n as a blank.
Blanks == IF shell = 1 THEN {" ", "n"} ELSE {" "}

\* The search for the end of the word skips one character.
FindPastBlank(b, from, sz) ==
    LET solid == {i \in from .. sz : b[i] \notin Blanks}
        start == Min(solid)
        ends  == {i \in start + 2 .. sz : b[i] \in Blanks \cup {NUL}}
    IN  IF solid = {} \/ b[start] = NUL THEN [word |-> 0, b |-> b]
        ELSE [word |-> start,
              b |-> IF ends = {} THEN b ELSE [b EXCEPT ![Min(ends)] = NUL]]

\* find_cmd on the characters from .. sz: where the word starts (0 for NULL), and the
\* buffer with the blank behind it overwritten.
find_cmd(b, from, sz) ==
    LET solid == {i \in from .. sz : b[i] \notin Blanks}
        start == Min(solid)
        ends  == {i \in start + 1 .. sz : b[i] \in Blanks \cup {NUL}}
    IN  IF solid = {} \/ b[start] = NUL THEN [word |-> 0, b |-> b]
        ELSE [word |-> start,
              b |-> IF ends = {} THEN b ELSE [b EXCEPT ![Min(ends)] = NUL]]

\* The loop over the line, k words at most: the words' places, and the buffer.
Parsed(b, sz) ==
    LET p[k \in 0 .. sz] ==
            IF k = 0 THEN [words |-> <<>>, b |-> b, offset |-> 0, go |-> TRUE]
            ELSE LET q == p[k - 1]
                     f == find_cmd(q.b, q.offset + 1, sz)
                 IN  IF ~q.go \/ q.offset >= sz THEN q
                     ELSE IF f.word = 0 THEN [q EXCEPT !.go = FALSE]
                     ELSE [q EXCEPT !.words = Append(@, f.word), !.b = f.b,
                                    !.offset = f.word + strlen(f.b, f.word)]
    IN  p[sz]

StringAt(b, i) == SubSeq(b, i, i + strlen(b, i) - 1)

\* read() and the parse; shell_2 cuts the last character, a newline, off the last word.
ReadLine(l) ==
    /\ line' = l
    /\ dirty' = (\E i \in Len(l) + 1 .. BLOCK : buff[i] # NUL)
    /\ LET p    == Parsed([i \in 1 .. BLOCK |-> IF i <= Len(l) THEN l[i] ELSE buff[i]], Len(l))
           last == p.words[Len(p.words)]
           b    == IF shell = 1 \/ p.words = <<>> \/ StringAt(p.b, p.words[1]) = <<"n">> THEN p.b
                   ELSE [p.b EXCEPT ![last + strlen(p.b, last) - 1] = NUL]
       IN  /\ buff' = b
           /\ argv' = [i \in DOMAIN p.words |-> StringAt(b, p.words[i])]
    /\ UNCHANGED shell

Zeroed(b, sz) == [i \in DOMAIN b |-> IF i <= sz THEN NUL ELSE b[i]]

\* The bottom of the loop: zero_block.
Ran == /\ line # <<>>
       /\ argv # <<>> \/ shell = 2
       /\ buff' = Zeroed(buff, Len(line)) /\ line' = <<>> /\ argv' = <<>>
       /\ UNCHANGED <<shell, dirty>>

\* `continue` without zero_block: an empty line in shell_1, fg or bg of no job in shell_2.
Continued == /\ line # <<>>
             /\ IF shell = 1 THEN argv = <<>> ELSE Len(argv) = 2
             /\ line' = <<>> /\ argv' = <<>>
             /\ UNCHANGED <<shell, buff, dirty>>

Next == \/ line = <<>> /\ \E l \in Lines : ReadLine(l)
        \/ Ran \/ Continued

Spec == Init /\ [][Next]_lineVars

------------------------------------------------------------------------------
\* The words of a line: its longest runs of letters.
Words(l) == LET starts == {i \in DOMAIN l : l[i] = "w" /\ (i = 1 \/ l[i - 1] # "w")}
                len(i) == Min({j \in i .. Len(l) : l[j] # "w"}) - i
                order  == SetToSortSeq(starts, <)
            IN  [k \in DOMAIN order |-> SubSeq(l, order[k], order[k] + len(order[k]) - 1)]

\* A command sees the words of its line and nothing of an older one; in shell_2 only when
\* the line before was cleared, with an empty last word when the line ends in a blank,
\* and with the newline itself as the word of an empty line.
LineParsed ==
    line # <<>> =>
        IF shell = 1 THEN argv = Words(line)
        ELSE dirty \/ argv = IF Words(line) = <<>> THEN <<<<"n">>>>
                             ELSE Words(line) \o IF line[Len(line) - 1] = " " THEN <<<<>>>> ELSE <<>>
=================================================================================
