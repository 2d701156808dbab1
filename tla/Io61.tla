---------------------------------- MODULE Io61 ----------------------------------
(***************************************************************************)
(* The buffered files of systems/cs033/cache61/io61.c: one window of BLOCK *)
(* bytes at `abs`, which readc refills with REVERSE bytes before the point *)
(* it needs, and in which a writer keeps track, in wbuf, of the ranges it  *)
(* has to flush.  What io61_write and io61_flush return is left out: the   *)
(* one counts the bytes flushed before its own, and the other answers -1   *)
(* when there are none.                                                    *)
(***************************************************************************)
EXTENDS Integers, FiniteSets, SequencesExt

CONSTANTS BLOCK, REVERSE,
          MaxPlace,        \* bound: the file's positions are 0 .. MaxPlace
          Size,        \* the size of a file that is opened for reading
          Counts,      \* the counts a caller asks for
          MaxWrites,   \* bound: calls that write
          Nothing

Places == 0 .. MaxPlace
Window == 0 .. BLOCK - 1

VARIABLES file,        \* file[p]: the byte at p, or Nothing
          offset,      \* the kernel's file pointer
          f,           \* io61_file: abs, pos, sz, buf, wsz, wbuf
          api,         \* "read", or the call a writer sticks to
          got,         \* the bytes the last call returned
          writes,      \* calls that wrote
          over         \* the program has seen the end of the file, or closed it

ioVars == <<file, offset, f, api, got, writes, over>>

NoRange == [wpos |-> 0, wsz |-> 0]

\* io61_fdopen leaves the fields as malloc made them; a block of this size comes from
\* mmap, so they are zero the first time.
Init == /\ api \in {"read", "writec", "write"}
        /\ file = [p \in Places |-> IF api = "read" /\ p < Size THEN p ELSE Nothing]
        /\ offset = 0
        /\ f = [abs |-> 0, pos |-> 0, sz |-> 0, buf |-> [i \in Window |-> Nothing],
                wsz |-> 0, wbuf |-> [i \in Window |-> NoRange]]
        /\ got = <<>>
        /\ writes = 0
        /\ over = FALSE

Least(a, b) == IF a < b THEN a ELSE b

---------------------------------------------------------------------------------
(* Reading                                                                   *)

\* read(2) of n bytes from p.
Fetch(p, n) == [i \in 1 .. Least(n, IF p < Size THEN Size - p ELSE 0) |-> file[p + i - 1]]

\* f->buf after bytes were copied to its start.
Filled(bytes) == [i \in Window |-> IF i < Len(bytes) THEN bytes[i + 1] ELSE f.buf[i]]

Reading == api = "read" /\ ~over /\ UNCHANGED <<file, api, writes>>
Returns(bytes) == got' = bytes

BufferedReadc ==
    /\ Reading /\ f.pos # f.sz
    /\ f' = [f EXCEPT !.pos = @ + 1]
    /\ Returns(<<f.buf[f.pos]>>)
    /\ UNCHANGED <<offset, over>>

\* The refill starts REVERSE bytes back, or at the start of the file.
RefillingReadc ==
    LET here == f.abs + f.pos
        back == Least(REVERSE, here)
        bytes == Fetch(offset - back, BLOCK)
        astray == offset # here /\ (here < REVERSE \/ f.sz = 0)
    IN  /\ Reading /\ f.pos = f.sz
        /\ IF astray
           THEN /\ offset' = offset - back
                /\ UNCHANGED f
           ELSE /\ offset' = offset - back + Len(bytes)
                /\ f' = IF Len(bytes) <= back THEN [f EXCEPT !.buf = Filled(bytes)]
                        ELSE [f EXCEPT !.buf = Filled(bytes), !.abs = here - back,
                                       !.pos = back + 1, !.sz = Len(bytes)]
        /\ over' = (astray \/ Len(bytes) <= back)
        /\ Returns(IF over' THEN <<>> ELSE <<bytes[back + 1]>>)

Read(n) ==
    LET left == f.sz - f.pos
        have == [i \in 1 .. Least(n, left) |-> f.buf[f.pos + i - 1]]
        bytes == Fetch(offset, n - left + BLOCK)
    IN  /\ Reading
        /\ IF n <= left
           THEN /\ f' = [f EXCEPT !.pos = @ + n]
                /\ Returns(have)
                /\ UNCHANGED offset
           ELSE /\ offset' = offset + Len(bytes)
                /\ f' = IF Len(bytes) <= n - left
                        THEN [f EXCEPT !.abs = @ + f.sz, !.pos = 0, !.sz = 0]
                        ELSE [f EXCEPT !.abs = @ + f.sz + n - left, !.pos = 0,
                                       !.sz = Len(bytes) - (n - left),
                                       !.buf = Filled(SubSeq(bytes, n - left + 1, Len(bytes)))]
                /\ Returns(have \o SubSeq(bytes, 1, Least(n - left, Len(bytes))))
        /\ UNCHANGED over

\* Mutant: without "this one line of code", the kernel is left at p, short of the cache.
ReadSeekAstray(p) ==
    LET cached == p \in f.abs .. f.abs + f.sz IN
    /\ Reading
    /\ offset' = p
    /\ f' = IF cached THEN [f EXCEPT !.pos = p - f.abs]
            ELSE [f EXCEPT !.pos = 0, !.sz = 0, !.abs = p]
    /\ UNCHANGED <<got, over>>

ReadSeek(p) ==
    LET cached == p \in f.abs .. f.abs + f.sz IN
    /\ Reading
    /\ offset' = IF cached THEN f.abs + f.sz ELSE p
    /\ f' = IF cached THEN [f EXCEPT !.pos = p - f.abs]
            ELSE [f EXCEPT !.pos = 0, !.sz = 0, !.abs = p]
    /\ UNCHANGED <<got, over>>

---------------------------------------------------------------------------------
(* Writing.  A range is [wpos, wsz]; an entry of zeros ends wbuf.            *)

RangeEnd(r) == r.wpos + r.wsz

\* linear_insert: the first entry that is empty or that the write touches takes it.
linear_insert(pos, n) ==
    LET new == [wpos |-> pos, wsz |-> n]
        Touches(i) == LET r == f.wbuf[i] IN
            \/ r = NoRange
            \/ pos \in r.wpos .. RangeEnd(r)
            \/ pos < r.wpos /\ pos + n >= r.wpos
        i == CHOOSE j \in Window : Touches(j) /\ \A k \in 0 .. j - 1 : ~Touches(k)
        r == f.wbuf[i]
        merged == IF r = NoRange THEN new
                  ELSE IF pos >= r.wpos
                       THEN [r EXCEPT !.wsz = IF pos + n > RangeEnd(r) THEN pos + n - r.wpos ELSE @]
                  ELSE IF pos + n <= RangeEnd(r) THEN [wpos |-> pos, wsz |-> RangeEnd(r) - pos]
                  ELSE new
    IN  IF \E j \in Window : Touches(j) THEN [f.wbuf EXCEPT ![i] = merged] ELSE f.wbuf

\* bin_insert_helper: the entries from `first` on move up, but the first of all is
\* always entry 0.
bin_insert_helper(new, first) ==
    [f EXCEPT !.wsz = @ + 1,
              !.wbuf = [i \in Window |->
                  IF i = (IF f.wsz = 0 THEN 0 ELSE first) THEN new
                  ELSE IF f.wsz # 0 /\ i > first /\ i <= f.wsz THEN f.wbuf[i - 1]
                  ELSE f.wbuf[i]]]

\* binary_insert: the struct it leaves.
binary_insert(pos, n) ==
    LET new == [wpos |-> pos, wsz |-> n]
        Set(i, r) == [f EXCEPT !.wbuf[i] = r]
        search[first \in 0 .. BLOCK, last \in -1 .. BLOCK] ==
            LET index == (first + last) \div 2
                r == f.wbuf[index]
            IN  IF first > last THEN bin_insert_helper(new, first)
                ELSE IF pos = RangeEnd(r) /\ pos >= r.wpos
                THEN [Set(index, [r EXCEPT !.wsz = @ + n]) EXCEPT !.wsz = IF @ = 0 THEN 1 ELSE @]
                ELSE IF pos \in r.wpos .. RangeEnd(r)
                THEN IF pos + n > RangeEnd(r) THEN Set(index, [r EXCEPT !.wsz = pos + n - r.wpos])
                     ELSE f
                ELSE IF pos >= r.wpos THEN search[index + 1, last]
                ELSE IF pos + n \in r.wpos .. RangeEnd(r)
                THEN Set(index, [wpos |-> pos, wsz |-> RangeEnd(r) - pos])
                ELSE IF pos + n > RangeEnd(r) THEN Set(index, new)
                ELSE search[first, index - 1]
    IN  search[0, IF f.wsz = 0 THEN 0 ELSE f.wsz - 1]

\* The entries before the first empty one.
Pending == {i \in Window : \A j \in 0 .. i : f.wbuf[j] # NoRange}

\* flush_wbuf: the file, the struct and the count it leaves.  Each range is sought before
\* it is written, so a writer's `offset` is left out; so are bytes that nobody reads again.
FlushedFile ==
    LET dirty == UNION {f.wbuf[i].wpos .. RangeEnd(f.wbuf[i]) - 1 : i \in Pending}
    IN  IF dirty = {} THEN file
        ELSE [q \in Places |-> IF q - f.abs \in dirty THEN f.buf[q - f.abs] ELSE file[q]]
FlushedCount == FoldLeft(LAMBDA n, i : n + f.wbuf[i].wsz, 0, SetToSeq(Pending))
Flushed == [f EXCEPT !.wsz = 0,
                     !.buf = [i \in Window |-> Nothing],
                     !.wbuf = [i \in Window |-> IF i \in Pending THEN NoRange ELSE f.wbuf[i]]]

Writing == api # "read" /\ ~over /\ UNCHANGED <<api, got>>
CountWrite == writes < MaxWrites /\ writes' = writes + 1

Put(g, n) == [g EXCEPT !.buf = [i \in Window |-> IF i \in f.pos .. f.pos + n - 1 THEN writes' ELSE f.buf[i]],
                       !.pos = f.pos + n]

Writec == /\ Writing /\ api = "writec" /\ f.pos # BLOCK
          /\ CountWrite
          /\ f' = Put([f EXCEPT !.wbuf = linear_insert(f.pos, 1)], 1)
          /\ UNCHANGED <<file, offset, over>>

\* The window is full: the character is refused unless all of it was written.
WritecFull ==
    /\ Writing /\ api = "writec" /\ f.pos = BLOCK
    /\ CountWrite
    /\ file' = FlushedFile
    /\ f' = IF FlushedCount # BLOCK THEN Flushed
            ELSE [Flushed EXCEPT !.abs = @ + BLOCK, !.pos = 1, !.buf[0] = writes',
                                 !.wbuf[0] = [wpos |-> 0, wsz |-> 1]]
    /\ UNCHANGED <<offset, over>>

Write(n) == /\ Writing /\ api = "write" /\ n <= BLOCK - f.pos
            /\ CountWrite
            /\ f' = Put(binary_insert(f.pos, n), n)
            /\ UNCHANGED <<file, offset, over>>

\* Too much for the window: it is flushed and the bytes go to the file.
WriteThrough(n) ==
    LET here == f.abs + f.pos IN
    /\ Writing /\ api = "write" /\ n > BLOCK - f.pos
    /\ CountWrite
    /\ file' = [q \in Places |-> IF q \in here .. here + n - 1 THEN writes' ELSE FlushedFile[q]]
    /\ f' = [Flushed EXCEPT !.abs = here + n, !.pos = 0]
    /\ UNCHANGED <<offset, over>>

WriteSeek(p) ==
    /\ Writing
    /\ IF p \in f.abs .. f.abs + BLOCK
       THEN f' = [f EXCEPT !.pos = p - f.abs] /\ UNCHANGED file
       ELSE /\ file' = FlushedFile
            /\ f' = [Flushed EXCEPT !.pos = 0, !.sz = 0, !.abs = p]
    /\ UNCHANGED <<offset, writes, over>>

Flush == /\ Writing
         /\ file' = FlushedFile
         /\ f' = Flushed
         /\ UNCHANGED <<offset, writes, over>>

Close == /\ Writing
         /\ file' = FlushedFile
         /\ f' = Flushed
         /\ over' = TRUE
         /\ UNCHANGED <<offset, writes>>

Room(n) == f.abs + f.pos + n <= MaxPlace + 1

Next == \/ BufferedReadc \/ RefillingReadc
        \/ \E n \in Counts : Read(n)
        \/ \E p \in Places : ReadSeek(p) \/ WriteSeek(p)
        \/ Room(1) /\ (Writec \/ WritecFull)
        \/ \E n \in Counts : Room(n) /\ (Write(n) \/ WriteThrough(n))
        \/ Flush \/ Close

Spec == Init /\ [][Next]_ioVars

---------------------------------------------------------------------------------
(* Properties *)

\* The promise: until a reader meets the end of the file, and for a writer that keeps
\* to one of the two calls, the cache cannot be told from the file.
P == INSTANCE PlainFile WITH
        Tags <- 1 .. MaxWrites,
        contents <- IF over THEN file ELSE FlushedFile,
        at <- IF over THEN Nothing
              ELSE IF api = "read" /\ f.sz = 0 THEN offset ELSE f.abs + f.pos
=================================================================================
