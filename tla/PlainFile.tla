------------------------------- MODULE PlainFile -------------------------------
(***************************************************************************)
(* systems/cs033/cache61/slow-io61.c, which has no cache: each call acts   *)
(* on the file at once.  The comments of io61.c promise the same.          *)
(***************************************************************************)
EXTENDS Integers, FiniteSets

CONSTANTS Places,      \* the positions 0 .. N of the file
          Nothing,     \* what lies beyond the end
          Tags         \* what can be written

VARIABLES contents,    \* contents[p]: the byte at p, or Nothing
          at,          \* the file pointer
          got          \* what the last call read

plainVars == <<contents, at, got>>

\* How many of the n bytes from p on there are.
Available(p, n) == Cardinality({q \in p .. p + n - 1 : q \in Places /\ contents[q] # Nothing})

Init == /\ contents \in [Places -> Places \cup {Nothing}]
        /\ at = 0
        /\ got = <<>>

\* "Returns a short count, which might be zero, if the file ended."
Read(n) == LET k == Available(at, n) IN
           /\ at' = at + k
           /\ got' = [i \in 1 .. k |-> contents[at + i - 1]]
           /\ UNCHANGED contents

\* A write that is refused is no step.
Write(n, tag) == /\ at' = at + n
                 /\ UNCHANGED got
                 /\ contents' = [p \in Places |-> IF p \in at .. at + n - 1 THEN tag ELSE contents[p]]

Seek(p) == /\ at' = p
           /\ UNCHANGED <<contents, got>>

\* A close, or the EOF after which nothing is promised of the pointer.
Finish == /\ at' = Nothing
          /\ \/ UNCHANGED got
             \/ Available(at, 1) = 0 /\ got' = <<>>
          /\ UNCHANGED contents

Next == /\ at # Nothing
        /\ \/ \E n \in 1 .. Cardinality(Places) : Read(n) \/ \E tag \in Tags : Write(n, tag)
           \/ \E p \in Places : Seek(p)
           \/ Finish

Spec == Init /\ [][Next]_plainVars
=================================================================================
