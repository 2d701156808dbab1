--------------------------------- MODULE Malloc ---------------------------------
(***************************************************************************)
(* The allocator of systems/cs033/malloc/mm.c and mminline.h, on the heap  *)
(* of memlib.c.  The heap is an array of words.  A word holds what the C   *)
(* word holds, in units of half a word: a tag is 2 * size + flag, the      *)
(* address of word i is 2 * i.  Sizes, here and in the calls, are whole    *)
(* words.  An operator takes a heap and returns the heap it leaves.        *)
(***************************************************************************)
EXTENDS Integers, FiniteSets, Sequences, SequencesExt

CONSTANTS Slots,      \* the pointers the program keeps, positive numbers
          Sizes,      \* the payload sizes it asks for
          MaxHeap     \* memlib's MAX_HEAP, in words

TAGS_SIZE == 2
MINBLOCKSIZE == 4
ENDPOINT == 3         \* 9 bytes: one word, allocated
NULL == -100
Junk == 0             \* what a word holds that the program has not written

VARIABLES heap,       \* [mem, brk, first, ok]: the words, mem_brk, flist_first, and
                      \* whether every assert has held
          ptr,        \* ptr[s]: the payload the program got, or NULL
          len         \* len[s]: the size it asked for

mmVars == <<heap, ptr, len>>
Words == 0 .. MaxHeap - 1

---------------------------------------------------------------------------------
(* mminline.h.  A block is the index of its first word.                      *)

Load(h, i) == IF i \in Words THEN h.mem[i] ELSE Junk
Store(h, i, v) == IF i \in Words THEN [h EXCEPT !.mem[i] = v] ELSE [h EXCEPT !.ok = FALSE]
Checked(h, holds) == [h EXCEPT !.ok = @ /\ holds]

Flag(v) == v % 2
block_allocated(h, b) == Flag(Load(h, b)) = 1
block_size(h, b) == Load(h, b) \div 2
block_end_tag(h, b) == b + block_size(h, b) - 1
block_prev(h, b) == b - (Load(h, b - 1) \div 2)
block_next(h, b) == b + block_size(h, b)

block_set_size(h, b, size) ==
    LET tag == 2 * size + Flag(Load(h, b))
        g == Checked(Store(h, b, tag), size >= 2)
    IN  Store(g, block_end_tag(g, b), tag)

block_set_allocated(h, b, flag) ==
    LET g == Store(h, b, 2 * block_size(h, b) + flag)
        e == block_end_tag(g, b)
    IN  Checked(Store(g, e, 2 * (Load(g, e) \div 2) + flag), block_size(h, b) >= 2)

block_set_size_and_allocated(h, b, size, flag) ==
    block_set_allocated(block_set_size(h, b, size), b, flag)

next_free(h, b) == Load(h, b + 1) \div 2
prev_free(h, b) == Load(h, b + 2) \div 2

set_next_free(h, b, n) ==
    Store(Checked(h, ~block_allocated(h, b) /\ ~block_allocated(h, n)), b + 1, 2 * n)
set_prev_free(h, b, p) ==
    Store(Checked(h, ~block_allocated(h, b) /\ ~block_allocated(h, p)), b + 2, 2 * p)

pull_free_block(h, fb) ==
    LET linkNext(g) == set_next_free(g, prev_free(g, fb), next_free(g, fb))
        linkPrev(g) == set_prev_free(g, next_free(g, fb), prev_free(g, fb))
        g == IF h.first = fb THEN [h EXCEPT !.first = next_free(h, fb)] ELSE h
    IN  IF h.first = fb /\ next_free(h, fb) = fb THEN [h EXCEPT !.first = NULL]
        ELSE linkPrev(linkNext(g))

insert_free_block(h, fb) ==
    LET last == prev_free(h, h.first)
        links == IF h.first # NULL
                 THEN set_prev_free(set_next_free(set_prev_free(set_next_free(
                         h, fb, h.first), fb, last), last, fb), h.first, fb)
                 ELSE set_prev_free(set_next_free(h, fb, fb), fb, fb)
    IN  [links EXCEPT !.first = fb]

---------------------------------------------------------------------------------
(* mm.c                                                                      *)

MaxBlocks == MaxHeap \div MINBLOCKSIZE

\* What doing `body` while `test` holds makes of h.  Bound: twice round, which is once
\* more than a heap without adjacent free blocks (HeapSound) asks for.
While(h, test(_), body(_)) ==
    LET once(g) == IF test(g) THEN body(g) ELSE g IN once(once(h))

mem_sbrk(h, incr) == [h EXCEPT !.brk = @ + incr]

mm_init ==
    LET h == [mem |-> [i \in Words |-> Junk], brk |-> TAGS_SIZE, first |-> NULL, ok |-> TRUE]
    IN  Store(Store(h, 0, ENDPOINT), block_next(Store(h, 0, ENDPOINT), 0), ENDPOINT)

\* The free list, from its head.
FreeList(h) ==
    LET upto[n \in 0 .. MaxBlocks] ==
          IF n = 0 THEN IF h.first = NULL THEN <<>> ELSE <<h.first>>
          ELSE LET s == upto[n - 1] IN
               IF s = <<>> \/ next_free(h, Last(s)) = h.first THEN s
               ELSE Append(s, next_free(h, Last(s)))
    IN  upto[MaxBlocks]

\* Of a block with rest words too many, these become a free block if they are enough for one.
Split(h, b, need, rest) ==
    LET freed(g, tail) == insert_free_block(block_set_size_and_allocated(g, tail, rest, 0), tail)
        cut(g) == freed(g, block_next(g, b))
    IN  IF rest >= MINBLOCKSIZE THEN cut(block_set_size_and_allocated(h, b, need, 1))
        ELSE block_set_size_and_allocated(h, b, need + rest, 1)

\* An allocation returns the heap and the block: [h, b].
check_flist(h, size) ==
    LET need == size + TAGS_SIZE
        fits == SelectSeq(FreeList(h), LAMBDA b : block_size(h, b) >= need)
        take(b) == [b |-> b, h |-> Split(pull_free_block(h, b), b, need, block_size(h, b) - need)]
    IN  IF fits = <<>> THEN [h |-> h, b |-> NULL] ELSE take(Head(fits))

\* The old epilogue becomes the tag of the new block.
mm_malloc(h, size) ==
    LET ended(g) == Store(mem_sbrk(g, 1), g.brk, ENDPOINT)
        extend(b) == [b |-> b, h |-> ended(block_set_size_and_allocated(
                                        mem_sbrk(h, size + 1), b, size + TAGS_SIZE, 1))]
        choose(found) == IF found.b # NULL THEN found ELSE extend(block_prev(h, h.brk))
    IN  choose(check_flist(h, size))

\* Mutant: only the block before is looked at.
mm_free_one_side(h, block) ==
    LET start == [h |-> block_set_allocated(h, block, 0), b |-> block]
        HasPrev(x) == ~block_allocated(x.h, block_prev(x.h, x.b))
        MergePrev(x) ==
            LET p == block_prev(x.h, x.b) IN
            [b |-> p, h |-> block_set_size_and_allocated(pull_free_block(x.h, p), p,
                                block_size(x.h, p) + block_size(x.h, x.b), 0)]
        place(x) == insert_free_block(x.h, x.b)
    IN  place(While(start, HasPrev, MergePrev))

\* Merging with free blocks before, then with free blocks after; the block is where
\* the last merge left it, so the loop carries it in the field `b`.
mm_free(h, block) ==
    LET start == [h |-> block_set_allocated(h, block, 0), b |-> block]
        HasPrev(x) == ~block_allocated(x.h, block_prev(x.h, x.b))
        MergePrev(x) ==
            LET p == block_prev(x.h, x.b) IN
            [b |-> p, h |-> block_set_size_and_allocated(pull_free_block(x.h, p), p,
                                block_size(x.h, p) + block_size(x.h, x.b), 0)]
        HasNext(x) == ~block_allocated(x.h, block_next(x.h, x.b))
        MergeNext(x) ==
            LET p == block_next(x.h, x.b) IN
            [x EXCEPT !.h = block_set_size_and_allocated(pull_free_block(x.h, p), x.b,
                                block_size(x.h, p) + block_size(x.h, x.b), 0)]
        place(x) == insert_free_block(x.h, x.b)
    IN  place(While(While(start, HasPrev, MergePrev), HasNext, MergeNext))

\* memmove of n words that were at `from` in the heap `old`.
Move(h, to, old, from, n) ==
    [h EXCEPT !.mem = [i \in Words |-> IF i \in to .. to + n - 1 THEN Load(old, from + i - to)
                                       ELSE @[i]]]

\* size - n on size_t: below zero it is huge.
Minus(size, n) == IF size >= n THEN size - n ELSE 2 * MaxHeap + size - n

\* The block b of h, in g, where its words have been written over, with its tags again.
Resized(h, b, g) == [b |-> b, h |-> block_set_size_and_allocated(g, b, block_size(h, b), 1)]

\* Mutant: the words are copied after the block was freed, without the buffer.
RegrowUnbuffered(h, b, size) ==
    LET moved(got) == Resized(got.h, got.b, Move(got.h, got.b, got.h, b, block_size(h, b)))
    IN  moved(mm_malloc(mm_free(h, b), size))

Regrow(h, b, size) ==
    LET moved(got) == Resized(got.h, got.b, Move(got.h, got.b, h, b, block_size(h, b)))
    IN  moved(mm_malloc(mm_free(h, b), size))

Trim(h, b, size) ==
    LET given(g, tail) == IF g.ok THEN mm_free(g, tail) ELSE g
        split(g, tail) == given(block_set_size_and_allocated(
                                   g, tail, block_size(h, b) - size - TAGS_SIZE, 1), tail)
        cut(g) == split(g, block_next(g, b))
    IN  [b |-> b, h |-> cut(block_set_size_and_allocated(h, b, size + TAGS_SIZE, 1))]

Replace(h, b, size) ==
    LET copied(got) == Resized(got.h, got.b, Move(got.h, got.b, got.h, b, block_size(got.h, got.b)))
        freed(got) == [got EXCEPT !.h = mm_free(@, b)]
    IN  freed(copied(mm_malloc(h, size)))

mm_realloc(h, b, size) ==
    LET old == block_size(h, b) IN
    IF old = Minus(size, TAGS_SIZE) THEN [b |-> b, h |-> h]
    ELSE IF size >= Minus(old, TAGS_SIZE) THEN Regrow(h, b, size)
    ELSE IF size <= Minus(old, TAGS_SIZE + MINBLOCKSIZE) THEN Trim(h, b, size)
    ELSE Replace(h, b, size)

---------------------------------------------------------------------------------
(* The program: it fills what it gets with the name of the pointer.          *)

Init == /\ heap = mm_init
        /\ ptr = [s \in Slots |-> NULL]
        /\ len = [s \in Slots |-> 0]

Mark(s) == -s
Fill(h, s, from, to) ==
    [h EXCEPT !.mem = [i \in Words |-> IF i \in from .. to - 1 THEN Mark(s) ELSE @[i]]]

\* mem_sbrk fails when the heap is full, and nobody checks: bound, not called then.
HasRoom(size) == heap.brk + size + TAGS_SIZE <= MaxHeap

\* Words outside tags, links and what was asked for are never read: they become Junk.
Kept(h, b, n) == IF block_allocated(h, b) THEN {b, block_end_tag(h, b)} \cup (b + 1 .. b + n)
                 ELSE {b, b + 1, b + 2, block_end_tag(h, b)}

Blocks(h) == LET upto[n \in 0 .. MaxBlocks] ==
                   IF n = 0 THEN <<1>>
                   ELSE LET s == upto[n - 1] IN
                        IF block_next(h, Last(s)) \notin Last(s) + 1 .. h.brk - 2 THEN s
                        ELSE Append(s, block_next(h, Last(s)))
             IN  IF h.brk = TAGS_SIZE THEN {} ELSE ToSet(upto[MaxBlocks])

Settle(h, p, n) ==
    LET owner(b) == {s \in Slots : p[s] = b + 1}
        asked(b) == IF owner(b) = {} THEN 0 ELSE n[CHOOSE s \in owner(b) : TRUE]
        kept == {0, h.brk - 1} \cup UNION {Kept(h, b, asked(b)) : b \in Blocks(h)}
    IN  IF h.ok THEN [h EXCEPT !.mem = [i \in Words |-> IF i \in kept THEN @[i] ELSE Junk]] ELSE h

Sets(h, s, p, n) ==
    /\ ptr' = [ptr EXCEPT ![s] = p]
    /\ len' = [len EXCEPT ![s] = n]
    /\ heap' = Settle(h, ptr', len')

\* The words of s from the place `from` on are filled by the program.
Gets(s, got, from, size) ==
    Sets(Fill(got.h, s, got.b + 1 + from, got.b + 1 + size), s, got.b + 1, size)

Malloc(s, size) == /\ heap.ok /\ ptr[s] = NULL /\ HasRoom(size)
                   /\ Gets(s, mm_malloc(heap, size), 0, size)

Free(s) == /\ heap.ok /\ ptr[s] # NULL
           /\ Sets(mm_free(heap, ptr[s] - 1), s, NULL, 0)

Realloc(s, size) == /\ heap.ok /\ ptr[s] # NULL /\ HasRoom(size)
                    /\ Gets(s, mm_realloc(heap, ptr[s] - 1, size), len[s], size)

Next == \E s \in Slots : Free(s) \/ \E size \in Sizes : Malloc(s, size) \/ Realloc(s, size)

Spec == Init /\ [][Next]_mmVars

---------------------------------------------------------------------------------
(* Properties *)

\* mm_check_heap: what the code itself takes for consistency.
check_free_list == \E i \in DOMAIN FreeList(heap) : block_allocated(heap, FreeList(heap)[i])
check_free_heap == \E b \in Blocks(heap) : ~block_allocated(heap, b) /\ b \notin ToSet(FreeList(heap))
mm_check_heap == check_free_list \/ check_free_heap

\* After every call: no assert failed; the blocks tile the heap between prologue and
\* epilogue, with equal tags, and no two free ones touch; the free list is circular in
\* both directions and holds the free blocks, each once; mm_check_heap is content.
HeapSound ==
    LET blocks == Blocks(heap)
        list == FreeList(heap)
    IN  /\ heap.ok
        /\ Load(heap, 0) = ENDPOINT /\ Load(heap, heap.brk - 1) = ENDPOINT
        /\ \A b \in blocks :
             /\ block_next(heap, b) \in blocks \cup {heap.brk - 1}
             /\ Load(heap, b) = Load(heap, block_end_tag(heap, b))
             /\ block_allocated(heap, b) \/ block_allocated(heap, block_next(heap, b))
        /\ ToSet(list) = {b \in blocks : ~block_allocated(heap, b)}
        /\ Len(list) = Cardinality(ToSet(list))
        /\ \A i \in DOMAIN list :
             prev_free(heap, list[i]) = list[IF i = 1 THEN Len(list) ELSE i - 1]
        /\ ~mm_check_heap

\* What the program has is its own: every pointer is the payload of an allocated block
\* that is large enough, every allocated block has a pointer, and the words still hold
\* what was put there, through splits, merges and the moves of mm_realloc.
ContentsKept ==
    /\ {b + 1 : b \in {x \in Blocks(heap) : block_allocated(heap, x)}} = {ptr[s] : s \in Slots} \ {NULL}
    /\ \A s \in Slots : ptr[s] # NULL =>
         /\ block_size(heap, ptr[s] - 1) >= len[s] + TAGS_SIZE
         /\ \A i \in ptr[s] .. ptr[s] + len[s] - 1 : heap.mem[i] = Mark(s)
=================================================================================
