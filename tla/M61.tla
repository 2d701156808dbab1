---------------------------------- MODULE M61 ----------------------------------
(***************************************************************************)
(* The debugging allocator of systems/cs033/m61/m61.c.  Each block starts  *)
(* with its place in `arena`, the array of live blocks, and ends with a    *)
(* canary; a free looks both up.  base_malloc (basealloc.c) may give out a *)
(* freed block again, and never overwrites a freed one.                    *)
(***************************************************************************)
EXTENDS Integers, FiniteSets, SequencesExt

CONSTANTS Blocks,      \* the addresses base_malloc can return
          Junk,        \* the values free_node.i, which is never set, may have
          NULL

VARIABLES arena,       \* the array, or <<>> when it is freed; its length is the capacity
          arena_size,
          arena_actual,
          free_pointer,    \* the list of free_nodes: their i
          meta,        \* meta[p]: the index and the canary in p's bytes
          nactive,     \* cstats.nactive
          moving,      \* the old block m61_realloc is about to free, or NULL
          live,        \* what the program got and has not given back
          misused,     \* it gave back something else, or wrote past an end
          misfiled,    \* a place was handed out that is not the one that was freed
          crashed,     \* m61_realloc copied to the null pointer
          running      \* the process has not ended

m61Vars == <<arena, arena_size, arena_actual, free_pointer, meta, nactive, moving, live,
             misused, misfiled, crashed, running>>

Init == /\ arena = <<>> /\ arena_size = 0 /\ arena_actual = 0
        /\ free_pointer = <<>>
        /\ meta = [p \in Blocks |-> [index |-> 0, canary |-> FALSE]]
        /\ nactive = 0
        /\ moving = NULL
        /\ live = {}
        /\ misused = FALSE /\ misfiled = FALSE /\ crashed = FALSE /\ running = TRUE

arena_capacity == Len(arena)

\* arena[i] of C, or what lies past its end: no block's address.
At(i) == IF i < arena_capacity THEN arena[i + 1] ELSE NULL

\* `place > arena_size` lets the place one past the last through.
member(p) == /\ arena # <<>>
             /\ meta[p].index <= arena_size
             /\ At(meta[p].index) = p

\* realloc of the array, and arena_zero.
Grown == IF arena = <<>> THEN <<NULL>>
         ELSE IF arena_size = arena_capacity THEN arena \o [i \in 1 .. arena_capacity |-> NULL]
         ELSE arena

\* arena_insert: a place from the free list, whatever it says, or the next one.
Inserted(p) ==
    LET reuse == free_pointer # <<>>
        place == IF reuse THEN Head(free_pointer) ELSE arena_size
    IN  /\ arena' = [i \in DOMAIN Grown |-> IF i = place + 1 THEN p ELSE Grown[i]]
        /\ arena_size' = IF reuse THEN arena_size ELSE arena_size + 1
        /\ arena_actual' = arena_actual + 1
        /\ free_pointer' = IF reuse THEN Tail(free_pointer) ELSE <<>>
        /\ meta' = [meta EXCEPT ![p] = [index |-> place, canary |-> TRUE]]
        /\ misfiled' = (misfiled \/ (reuse /\ (place >= arena_size \/ Grown[place + 1] # NULL)))

\* What a store through a place outside the array leaves: the model ends there.
Lost == /\ running' = FALSE /\ misfiled' = TRUE
        /\ UNCHANGED <<arena, arena_size, arena_actual, free_pointer, meta, nactive, live>>

\* m61_malloc, when base_malloc returns p.
Allocated(p) ==
    /\ p \notin live
    /\ IF free_pointer # <<>> /\ Head(free_pointer) >= Len(Grown)
       THEN Lost
       ELSE /\ Inserted(p)
            /\ nactive' = nactive + 1
            /\ live' = live \cup {p}
            /\ UNCHANGED running
    /\ UNCHANGED <<misused, crashed>>

Malloc(p) == running /\ moving = NULL /\ Allocated(p) /\ UNCHANGED moving

\* The size is too large for META, or base_malloc has nothing: NULL, and only the counts
\* of failures, which are not kept here, change.
Refused == running /\ moving = NULL /\ UNCHANGED m61Vars

\* The program writes past the end of p.
WildWrite(p) == /\ running /\ p \in live /\ meta[p].canary
                /\ meta' = [meta EXCEPT ![p].canary = FALSE]
                /\ UNCHANGED <<arena, arena_size, arena_actual, free_pointer, nactive,
                               moving, live, misused, misfiled, crashed, running>>

\* arena_remove leaves the freed address in the array.
StaleEntry(p) ==
    /\ arena_actual' = arena_actual - 1
    /\ IF arena_actual = 1
       THEN arena' = <<>> /\ arena_size' = 0 /\ free_pointer' = <<>>
       ELSE /\ UNCHANGED arena
            /\ \E i \in Junk : free_pointer' = <<i>> \o free_pointer
            /\ UNCHANGED arena_size
    /\ nactive' = nactive - 1
    /\ UNCHANGED <<meta, misfiled, running>>

\* The reset comes when one block is still live.
EarlyReset(p) ==
    /\ arena_actual' = arena_actual - 1
    /\ IF arena_actual <= 2
       THEN arena' = <<>> /\ arena_size' = 0 /\ free_pointer' = <<>>
       ELSE /\ arena' = [arena EXCEPT ![meta[p].index + 1] = NULL]
            /\ \E i \in Junk : free_pointer' = <<i>> \o free_pointer
            /\ UNCHANGED arena_size
    /\ nactive' = nactive - 1
    /\ UNCHANGED <<meta, misfiled, running>>

\* m61_free passes: arena_remove, whose free_node keeps a junk i, and the reset
\* when nothing is live.
Freed(p) ==
    /\ arena_actual' = arena_actual - 1
    /\ IF arena_actual = 1
       THEN arena' = <<>> /\ arena_size' = 0 /\ free_pointer' = <<>>
       ELSE /\ arena' = [arena EXCEPT ![meta[p].index + 1] = NULL]
            /\ \E i \in Junk : free_pointer' = <<i>> \o free_pointer
            /\ UNCHANGED arena_size
    /\ nactive' = nactive - 1
    /\ UNCHANGED <<meta, misfiled, running>>

Aborted == /\ running' = FALSE
           /\ UNCHANGED <<arena, arena_size, arena_actual, free_pointer, meta, nactive,
                          misfiled>>

\* m61_free of anything but the null pointer.
Free(p) == /\ running /\ moving \in {NULL, p}
           /\ IF member(p) /\ meta[p].canary THEN Freed(p) ELSE Aborted
           /\ misused' = (misused \/ p \notin live \/ ~meta[p].canary)
           /\ live' = live \ {p}
           /\ moving' = NULL
           /\ UNCHANGED crashed

\* m61_realloc of a block the arena knows: a new block q first, then Free(p).
\* Of any other address it is Free.
Realloc(p, q) == running /\ moving = NULL /\ member(p) /\ Allocated(q) /\ moving' = p

\* The new block is refused, which m61_realloc does not test: it copies to the null pointer,
\* or, if there is not a byte to copy, does Free(p).
ReallocRefused(p) ==
    /\ running /\ moving = NULL /\ member(p)
    /\ crashed' = TRUE /\ running' = FALSE
    /\ UNCHANGED <<arena, arena_size, arena_actual, free_pointer, meta, nactive, moving, live,
                   misused, misfiled>>

Next == \/ \E p \in Blocks : Malloc(p) \/ WildWrite(p) \/ Free(p) \/ ReallocRefused(p)
        \/ Refused
        \/ \E p, q \in Blocks : Realloc(p, q)

Spec == Init /\ [][Next]_m61Vars

------------------------------------------------------------------------------
Entries == {i \in DOMAIN arena : arena[i] # NULL}

\* m61_free aborts on every second free and on every block written past its end,
\* even after arena_insert has used the unset i of a free_node; and when a program
\* that has done neither is stopped, such an i is the reason, or a m61_realloc that
\* got no memory.
MisuseIsCaught == /\ misused => ~running
                  /\ ~running => misused \/ misfiled \/ crashed

\* The leak report and the statistics: as long as no unset i has overwritten the
\* entry of a live block, the array holds each live block once, at the place its
\* bytes name, and the counts are the number of live blocks.  With or without,
\* arena_actual counts the blocks in use, so the reset waits for the last of them.
LeakReportExact ==
    running => /\ arena_actual = Cardinality(live) /\ nactive = arena_actual
               /\ misfiled \/ /\ {arena[i] : i \in Entries} = live
                              /\ Cardinality(Entries) = Cardinality(live)
                              /\ \A p \in live : At(meta[p].index) = p
               /\ arena = <<>> <=> live = {}
=================================================================================
