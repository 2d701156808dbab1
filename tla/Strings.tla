-------------------------------- MODULE Strings ---------------------------------
(***************************************************************************)
(* The string library of systems/cs033/stringsperf/strings/strings.c.  A   *)
(* string is a sequence of characters without the NUL behind it, which is  *)
(* 0; the loops of strncmp and strtok may pass it, so these two look at    *)
(* the memory that follows, where anything may be.                         *)
(***************************************************************************)
EXTENDS Integers, SequencesExt, FiniteSetsExt

CONSTANTS Chars,       \* the characters but NUL, positive
          MaxLen       \* bound on the length of a string

VARIABLES s, t,        \* the arguments: strings
          mem,         \* the memory that s is in, from its start
          str,         \* where the string that strtok is given starts; 0: it is given NULL
          saved,       \* strtok_saved_state, as a place in mem
          tokens,      \* what strtok has returned
          done         \* strtok has returned NULL

stringVars == <<s, t, mem, str, saved, tokens, done>>

NUL == 0
Strs == UNION {[1 .. k -> Chars] : k \in 0 .. MaxLen}

\* The character i places behind the start of a string.
At(a, i) == IF i < Len(a) THEN a[i + 1] ELSE NUL
In(c, set) == \E k \in DOMAIN set : set[k] = c
First(is) == CHOOSE i \in is : \A j \in is : i <= j

\* The NUL is the first one from p on.
strlen(m, p) == First({i \in 0 .. Len(m) - p : m[p + i] = NUL})

strspn(a, accept)  == First({i \in 0 .. Len(a) : i = Len(a) \/ ~In(a[i + 1], accept)})
strcspn(a, reject) == First({i \in 0 .. Len(a) : i = Len(a) \/ In(a[i + 1], reject)})

\* A string in memory: the string, its NUL, and n times the character c.
InMemory(a, c, n) == a \o <<NUL>> \o [i \in 1 .. n |-> c]

\* The arguments are the memory from the start of each string on: n ends the comparison,
\* and a NUL does not.
strncmp(a, b, n) ==
    LET diff == {i \in 1 .. n : a[i] # b[i]}
    IN  IF diff = {} THEN 0 ELSE IF a[First(diff)] < b[First(diff)] THEN -1 ELSE 1

strncpy(src, n) == [i \in 1 .. n |-> At(src, i - 1)]

\* Only where the needle's first character is does strstr look for the rest: the empty
\* needle has none, and is not found.
strstr(haystack, needle) ==
    LET found == {i \in 0 .. Len(haystack) - 1 :
                     /\ haystack[i + 1] = At(needle, 0)
                     /\ \A k \in 0 .. Len(needle) - 1 : needle[k + 1] = At(haystack, i + k)}
    IN  IF found = {} THEN -1 ELSE First(found)

------------------------------------------------------------------------------
(* strtok, which keeps a pointer from one call to the next *)

Init == /\ s \in Strs /\ t \in Strs \ {<<>>}
        /\ \E after \in {a \in Strs : Len(a) <= 1} : mem = s \o <<NUL>> \o after \o <<NUL, NUL, NUL>>
        /\ str = 1 /\ saved = 0 /\ tokens = <<>> /\ done = FALSE

\* The delimiters from p on, up to the NUL.
Skipped(p) == First({i \in 0 .. Len(mem) - p : mem[p + i] = NUL \/ ~In(mem[p + i], t)})

\* The end of the token that starts at p.
TokenEnd(p) == First({i \in p .. Len(mem) : mem[i] = NUL \/ In(mem[i], t)})

\* Mutant of Behind: the NUL that ended the token is not passed.
AtNul(m, p) == p + strlen(m, p)

\* What the next call begins with.
Behind(m, p) == p + strlen(m, p) + 1

\* One call.  After k delimiters the string starts at p + k, and what is tested for the end
\* of the string is its k-th character, not its first.
strtok ==
    /\ ~done
    /\ LET p == IF str # 0 THEN str ELSE saved
           k == Skipped(p)
           q == p + k
       IN  /\ q + k <= Len(mem)
           /\ IF mem[q] = NUL \/ mem[q + k] = NUL
              THEN done' = TRUE /\ UNCHANGED <<mem, saved, tokens>>
              ELSE /\ mem' = [mem EXCEPT ![TokenEnd(q)] = NUL]
                   /\ saved' = Behind(mem', q)
                   /\ tokens' = Append(tokens, SubSeq(mem, q, TokenEnd(q) - 1))
                   /\ UNCHANGED done
    /\ str' = 0
    /\ UNCHANGED <<s, t>>

Next == strtok

Spec == Init /\ [][Next]_stringVars

------------------------------------------------------------------------------
\* One delimiter, and not more, behind each token.
Regular == /\ s # <<>> /\ ~In(s[1], t) /\ In(Last(s), t)
           /\ \A i \in 1 .. Len(s) - 1 : ~(In(s[i], t) /\ In(s[i + 1], t))

\* The tokens of a regular string: its pieces between the delimiters.
Pieces == LET ends == SetToSortSeq({i \in DOMAIN s : In(s[i], t)}, <)
          IN  [k \in DOMAIN ends |->
                  SubSeq(s, IF k = 1 THEN 1 ELSE ends[k - 1] + 1, ends[k] - 1)]

\* The longest prefix in (or out of) a set; the sign of the first difference within n, unless
\* two equal strings end before n does, when strncmp answers by the memory behind them; the
\* copy padded with NULs, the first place of a needle that is not empty; and the tokens of a
\* string with one delimiter behind each, one call after another and then NULL, although each
\* call only has what the one before it saved.  A string that does not end in a delimiter
\* makes the last call read behind the string, and one with several delimiters in a row may
\* lose a token.
StringsRight ==
    /\ Len(s) = strlen(s \o <<NUL>>, 1)
    /\ strspn(s, t) = Cardinality({i \in DOMAIN s : \A j \in 1 .. i : s[j] \in ToSet(t)})
    /\ strcspn(s, t) = Cardinality({i \in DOMAIN s : \A j \in 1 .. i : s[j] \notin ToSet(t)})
    /\ \A n \in 0 .. MaxLen + 1 :
          LET a == strncpy(s, n)  b == strncpy(t, n) IN
          /\ a = SubSeq(s \o [i \in 1 .. MaxLen + 1 |-> NUL], 1, n)
          /\ s # t \/ n <= Len(s) + 1 =>
             \A c, d \in Chars \cup {NUL} :
                LET r == strncmp(InMemory(s, c, n), InMemory(t, d, n), n) IN
                /\ r = 0 <=> a = b
                /\ r < 0 <=> \E i \in 1 .. n : SubSeq(a, 1, i - 1) = SubSeq(b, 1, i - 1) /\ a[i] < b[i]
    /\ LET r == strstr(s, t) IN
          /\ r >= 0 => IsPrefix(t, SubSeq(s, r + 1, Len(s)))
          /\ \A i \in 0 .. Len(s) - 1 : IsPrefix(t, SubSeq(s, i + 1, Len(s))) => r \in 0 .. i
    /\ Regular => /\ IsPrefix(tokens, Pieces)
                  /\ done => tokens = Pieces
=================================================================================
