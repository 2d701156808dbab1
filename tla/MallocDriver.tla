------------------------------ MODULE MallocDriver ------------------------------
(***************************************************************************)
(* The driver that judges an allocator (systems/cs033/malloc/mdriver.c).   *)
(* It runs a trace of requests once for correctness, once for the use of   *)
(* space and once for speed, and keeps the extents of the live payloads in *)
(* a list to see whether an answer is aligned, within the heap and clear   *)
(* of the others.                                                          *)
(*                                                                         *)
(* The allocator is the environment: it answers any request with any       *)
(* address, or none, and may lose the contents of a block it moves.  The   *)
(* heap is the bytes HeapLo .. HeapHi.                                     *)
(***************************************************************************)
EXTENDS Naturals, FiniteSetsExt, SequencesExt

CONSTANTS num_ids, num_ops, Sizes, ALIGNMENT, HeapLo, HeapHi

VARIABLES trace, opnum,
          pass,            \* "libc", then "valid", "util", "speed", and "done" or "exit"
          blocks, block_sizes,
          ranges,          \* the newest first
          byte,            \* the contents of the heap
          errors, total_size, max_total_size,
          right            \* whether all answers of the allocator under test were right

mdriverVars == <<trace, opnum, pass, blocks, block_sizes, ranges, byte, errors,
                 total_size, max_total_size, right>>

Ids   == 0..(num_ids - 1)
Junk  == num_ids
NULL  == 0
Heap  == HeapLo..HeapHi
Addrs == {NULL} \cup HeapLo..(HeapHi + 1)

Requests == [type : {"ALLOC", "REALLOC"}, index : Ids, size : Sizes]
            \cup [type : {"FREE"}, index : Ids, size : {0}]

\* The ids that are allocated before request n of t.
LiveBefore(t, n) == {x \in Ids : \E j \in 1..(n - 1) :
                        /\ t[j].index = x /\ t[j].type # "FREE"
                        /\ \A k \in (j + 1)..(n - 1) : t[k].index = x => t[k].type # "FREE"}

\* What read_trace accepts, and its makers make: requests about blocks as one may make them.
Traces == {t \in [1..num_ops -> Requests] :
             \A n \in 1..num_ops :
                (t[n].type = "ALLOC") <=> t[n].index \notin LiveBefore(t, n)}

Live == LiveBefore(trace, opnum)
Op   == trace[opnum]

Init ==
    /\ trace \in Traces
    /\ opnum = 1
    /\ pass \in {"libc", "valid"}
    /\ blocks = [x \in Ids |-> NULL] /\ block_sizes = [x \in Ids |-> 0]
    /\ ranges = <<>>
    /\ byte = [a \in Heap |-> Junk]
    /\ errors = 0 /\ total_size = 0 /\ max_total_size = 0
    /\ right = TRUE

------------------------------------------------------------------------------
(* The range list. *)

Extent(lo, size) == [lo |-> lo, hi |-> lo + size - 1]

Fits(rs, lo, size) ==
    LET hi == lo + size - 1
    IN  /\ lo % ALIGNMENT = 0
        /\ lo \in Heap /\ hi \in Heap
        /\ \A i \in DOMAIN rs : /\ ~(lo >= rs[i].lo /\ lo <= rs[i].hi)
                                /\ ~(hi >= rs[i].lo /\ hi <= rs[i].hi)

\* Mutant of remove_range: a block that moves keeps its old extent too.
KeepRange(rs, lo) == rs

remove_range(rs, lo) == RemoveFirstMatch(rs, LAMBDA r : r.lo = lo)

------------------------------------------------------------------------------
(* One request of the trace; the allocator answers with lo. *)

Payload(x)  == block_sizes[x] + blocks[x] - 1
Bytes(x)    == blocks[x]..Payload(x)
Sound(x, lo, size) ==
    /\ lo % ALIGNMENT = 0 /\ lo..(lo + size - 1) \subseteq Heap
    /\ \A y \in Live \ {x} : Bytes(y) \cap lo..(lo + size - 1) = {}

Checked == pass \in {"valid", "util"}
Plain   == pass \in {"libc", "speed"}    \* nobody looks at the answers
Filled(bs, lo, x, size) == [a \in Heap |-> IF a \in lo..(lo + size - 1) THEN x ELSE bs[a]]

Record(x, lo, size) ==
    /\ blocks' = [blocks EXCEPT ![x] = lo]
    /\ block_sizes' = IF Checked THEN [block_sizes EXCEPT ![x] = size] ELSE block_sizes
    /\ opnum' = opnum + 1

Account(total) == /\ total_size' = IF pass = "util" THEN total ELSE total_size
                  /\ max_total_size' = IF total_size' > max_total_size THEN total_size'
                                       ELSE max_total_size

\* malloc_error and return 0; the use of space is then 0, and the speed is measured all the same.
Reject ==
    /\ errors' = errors + 1
    /\ IF pass = "util" THEN pass' = "speed" /\ opnum' = 1 ELSE pass' = "done" /\ UNCHANGED opnum
    /\ UNCHANGED <<trace, blocks, block_sizes, total_size, max_total_size>>

\* No block at all: an error of the allocator in the first pass, app_error in the others.
Failed ==
    /\ errors' = errors + (IF pass \in {"valid", "libc"} THEN 1 ELSE 0)
    /\ pass' = IF pass = "valid" THEN "done" ELSE "exit"
    /\ right' = FALSE
    /\ UNCHANGED <<trace, opnum, blocks, block_sizes, ranges, byte, total_size, max_total_size>>

Alloc(lo) ==
    /\ Op.type = "ALLOC" /\ lo # NULL
    /\ right' = (right /\ Sound(Op.index, lo, Op.size))
    /\ \/ /\ Checked /\ ~Fits(ranges, lo, Op.size)
          /\ Reject /\ UNCHANGED <<ranges, byte>>
       \/ /\ Plain \/ Fits(ranges, lo, Op.size)
          /\ ranges' = IF Checked THEN <<Extent(lo, Op.size)>> \o ranges ELSE ranges
          /\ byte' = IF pass = "valid" THEN Filled(byte, lo, Op.index, Op.size) ELSE byte
          /\ Record(Op.index, lo, Op.size)
          /\ Account(total_size + Op.size)
          /\ UNCHANGED <<trace, pass, errors>>

\* kept: the allocator moves the contents along.  Only the first pass looks at them.
Realloc(lo, kept) ==
    LET x    == Op.index
        old  == blocks[x]
        least == IF Op.size < block_sizes[x] THEN Op.size ELSE block_sizes[x]
        moved == [a \in Heap |->
                    IF a \in lo..(lo + least - 1)
                    THEN IF kept THEN byte[old + (a - lo)] ELSE Junk
                    ELSE byte[a]]
        rest == remove_range(ranges, old)
        same == \A a \in lo..(lo + least - 1) : moved[a] = x
    IN  /\ Op.type = "REALLOC" /\ lo # NULL /\ (pass # "valid" => kept)
        /\ right' = (right /\ kept /\ Sound(x, lo, Op.size))
        /\ \/ /\ Checked /\ ~Fits(rest, lo, Op.size)
              /\ Reject /\ ranges' = rest /\ UNCHANGED byte
           \/ /\ pass = "valid" /\ Fits(rest, lo, Op.size) /\ ~same
              /\ Reject /\ ranges' = <<Extent(lo, Op.size)>> \o rest /\ byte' = moved
           \/ /\ Plain \/ Fits(rest, lo, Op.size)
              /\ pass = "valid" => same
              /\ ranges' = IF Checked THEN <<Extent(lo, Op.size)>> \o rest ELSE ranges
              /\ byte' = IF pass = "valid" THEN Filled(moved, lo, x, Op.size) ELSE byte
              /\ Record(x, lo, Op.size)
              /\ Account(total_size + Op.size - block_sizes[x])
              /\ UNCHANGED <<trace, pass, errors>>

Free ==
    /\ Op.type = "FREE"
    /\ ranges' = IF Checked THEN remove_range(ranges, blocks[Op.index]) ELSE ranges
    /\ Account(total_size - block_sizes[Op.index])
    /\ opnum' = opnum + 1
    /\ UNCHANGED <<trace, pass, blocks, block_sizes, byte, errors, right>>

Interpret == /\ opnum <= num_ops /\ pass \notin {"done", "exit"}
             /\ \/ \E lo \in Addrs : Alloc(lo) \/ \E kept \in BOOLEAN : Realloc(lo, kept)
                \/ Op.type # "FREE" /\ Failed
                \/ Free

\* main: the next pass over the trace, with the heap and the list of ranges reset.
NextPass ==
    /\ opnum > num_ops
    /\ pass' = CASE pass = "libc" -> "valid" [] pass = "valid" -> "util"
                 [] pass = "util" -> "speed" [] pass = "speed" -> "done"
    /\ opnum' = 1
    /\ ranges' = IF pass = "util" THEN ranges ELSE <<>>
    /\ byte' = [a \in Heap |-> Junk]
    /\ right' = (pass = "libc" \/ right)
    /\ UNCHANGED <<trace, blocks, block_sizes, errors, total_size, max_total_size>>

Next == Interpret \/ NextPass

Spec == Init /\ [][Next]_mdriverVars

------------------------------------------------------------------------------

Overlap(r, s) == r.lo <= s.hi /\ s.lo <= r.hi

\* The driver never reports an error of an allocator whose answers were all right; while it
\* reports none, the list holds exactly the live payloads, and these are within the heap and
\* disjoint, except that a newer one may enclose an older one, which add_range does not see;
\* and the use of space that it measures is that of the live payloads, which is never more
\* than the heap when the answers were right.
DriverIsFair ==
    /\ (errors > 0) => ~right
    /\ (Checked /\ errors = 0) =>
         /\ ToSet(ranges) = {Extent(blocks[x], block_sizes[x]) : x \in Live}
         /\ \A i, j \in DOMAIN ranges :
              (i < j /\ Overlap(ranges[i], ranges[j])) =>
                  ranges[i].lo < ranges[j].lo /\ ranges[i].hi > ranges[j].hi
    /\ (pass = "util") => total_size = FoldSet(LAMBDA x, n : n + block_sizes[x], 0, Live)
    /\ (pass = "util" /\ right) => max_total_size <= HeapHi + 1 - HeapLo
=================================================================================
