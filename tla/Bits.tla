---------------------------------- MODULE Bits ----------------------------------
(***************************************************************************)
(* The puzzles of systems/cs033/data/data/bits.c, which compute without    *)
(* the operators that one would take, here on words of W bits in bytes of  *)
(* B: a word is the natural number of its bits, -x is 2^W - x, and >>      *)
(* repeats the sign.                                                       *)
(***************************************************************************)
EXTENDS Integers, Bitwise

CONSTANTS W, B

VARIABLES x, y, n

bitsVars == <<x, y, n>>

Words  == 0..(2^W - 1)
MAX    == W - 1
Sign(a)   == a \div 2^MAX
Signed(a) == IF Sign(a) = 1 THEN a - 2^W ELSE a
Word(i)   == i % 2^W

Flip(a)     == 2^W - 1 - a
Plus(a, b)  == Word(a + b)
Shl(a, k)   == Word(a * 2^k)
Shr(a, k)   == Word(Signed(a) \div 2^k)
Bang(a)     == IF a = 0 THEN 1 ELSE 0

bit_and(a, b)  == Flip(Flip(a) | Flip(b))
negate(a)      == Plus(Flip(a), 1)
is_equal(a, b) == Bang(a ^^ b)

\* Mutant of div_pwr_2: what is divided without a remainder is rounded too.
DivAlwaysUp(a, k) == Plus(Shr(a, k), Shr(a, MAX) & 1)

div_pwr_2(a, k) ==
    LET negative      == Shr(a, MAX) & 1
        less_than_2n  == Flip(Shl(Flip(0), k))
        remainder     == Bang(Bang(a & less_than_2n))
    IN  Plus(Shr(a, k), (negative & remainder) & Bang(Bang(k)))

conditional(a, b, c) ==
    LET true_c  == Shr(Shl(Bang(Bang(a)), MAX), MAX)
        false_c == Shr(Shl(Bang(a), MAX), MAX)
    IN  (true_c & b) | (false_c & c)

replaceByte(a, i, c) ==
    LET jump == i * B
    IN  (a & (Flip(0) ^^ Shl(2^B - 1, jump))) | Shl(c, jump)

add_ok(a, b) ==
    LET same_sign == (Shr(a, MAX) ^^ Shr(b, MAX)) ^^ 1
    IN  Bang(same_sign & ((Shr(Plus(a, b), MAX) & 1) ^^ (Shr(a, MAX) & 1)))

abs_val(a) ==
    LET last_bit == Shr(a, MAX)
    IN  Plus(a ^^ last_bit, Shr(a, MAX) & 1)

bang(a) ==
    LET one        == Shr(a, MAX) & 1
        negate_one == Shr(Plus(Flip(a), 1), MAX) & 1
    IN  (one | negate_one) ^^ 1

------------------------------------------------------------------------------
(* Every pair of words with every third argument, one call after another. *)

Init == x \in Words /\ y \in Words /\ n = 0

Next == n < W - 1 /\ n' = n + 1 /\ UNCHANGED <<x, y>>

Spec == Init /\ [][Next]_bitsVars

------------------------------------------------------------------------------

Truth(p)   == IF p THEN 1 ELSE 0
Abs(i)     == IF i < 0 THEN -i ELSE i
Quotient(i, k) == IF i < 0 THEN -((-i) \div 2^k) ELSE i \div 2^k
TMin       == -(2^MAX)

\* Each puzzle computes what its comment says, on all words, for the smallest and the largest
\* as for the others: division rounds toward zero, and add_ok sees each overflow.
PuzzlesSolved ==
    /\ bit_and(x, y) = x & y
    /\ negate(x) = Word(-Signed(x))
    /\ is_equal(x, y) = Truth(x = y)
    /\ n < W - 1 => Signed(div_pwr_2(x, n)) = Quotient(Signed(x), n)
    /\ conditional(n, x, y) = IF n # 0 THEN x ELSE y
    /\ n < W \div B => LET c == y % 2^B
                       IN  replaceByte(x, n, c) =
                           x - ((x \div 2^(n * B)) % 2^B) * 2^(n * B) + c * 2^(n * B)
    /\ add_ok(x, y) = Truth(Signed(x) + Signed(y) \in TMin..(2^MAX - 1))
    /\ Signed(x) # TMin => Signed(abs_val(x)) = Abs(Signed(x))
    /\ bang(x) = Truth(x = 0)
=================================================================================
