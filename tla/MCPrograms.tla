------------------------------- MODULE MCPrograms -------------------------------
(* Small instances of the sequential programs and of the small concurrent ones,  *)
(* for TLC.  A behaviour is one of a single program, which Init chooses; the     *)
(* programs share nothing, so the variables v1 .. v16 are those of whichever it  *)
(* is, in the order of its VARIABLES, and the others are None.                   *)
EXTENDS Integers, FiniteSets, TLC

CONSTANT None

VARIABLES prog, v1, v2, v3, v4, v5, v6, v7, v8, v9, v10, v11, v12, v13, v14, v15, v16

mcVars == <<prog, v1, v2, v3, v4, v5, v6, v7, v8, v9, v10, v11, v12, v13, v14, v15, v16>>

--------------------------------------------------------------------------------
(* A file of 6 bytes in a window of 3: several windows, refilled in both          *)
(* directions, and up to three writes, so that ranges touch, overlap and enclose.  *)
Io == INSTANCE Io61 WITH
         BLOCK <- 3, REVERSE <- 2, MaxPlace <- 5, Size <- 6, Counts <- {1, 2, 4},
         MaxWrites <- 3, Nothing <- None,
         file <- v1, offset <- v2, f <- v3, api <- v4, got <- v5, writes <- v6, over <- v7

(* Three pointers and sizes that leave, and do not leave, room for a split. *)
Mm == INSTANCE Malloc WITH
         Slots <- {1, 2, 3}, Sizes <- {4, 5, 7}, MaxHeap <- 30,
         heap <- v1, ptr <- v2, len <- v3

(* All traces of three requests for two blocks, and any answer of an allocator. *)
Md == INSTANCE MallocDriver WITH
         num_ids <- 2, num_ops <- 3, Sizes <- {1, 4}, ALIGNMENT <- 2, HeapLo <- 2, HeapHi <- 7,
         trace <- v1, opnum <- v2, pass <- v3, blocks <- v4, block_sizes <- v5, ranges <- v6,
         byte <- v7, errors <- v8, total_size <- v9, max_total_size <- v10, right <- v11

(* Enough blocks for the array to grow from 1 to 2 to 4, and values of the unset *)
(* index on both sides of its end.                                               *)
Leak == INSTANCE M61 WITH
         Blocks <- {"p1", "p2", "p3"}, Junk <- {0, 1, 3}, NULL <- None,
         arena <- v1, arena_size <- v2, arena_actual <- v3, free_pointer <- v4, meta <- v5,
         nactive <- v6, moving <- v7, live <- v8, misused <- v9, misfiled <- v10, crashed <- v11, running <- v12

(* Every maze of two rows and three columns, every start and every goal. *)
Mz == INSTANCE Maze WITH
         num_rows <- 2, num_cols <- 3, Nowhere <- None,
         phase <- v1, room <- v2, visited <- v3, stack <- v4, nextp <- v5, goal <- v6, file <- v7

(* Three jobs, and process ids that are used again. *)
Jobs == INSTANCE ShellJobs WITH
         Pids <- {1, 2, 3}, MaxCount <- 4, Shell <- 0, NoPid <- None,
         proc <- v1, event <- v2, fore <- v3, term <- v4, job_list <- v5, current <- v6,
         count <- v7, pc <- v8, pid <- v9, nohang <- v10

(* Two lines in a row of up to five characters, of each length in each order. *)
Line == INSTANCE ShellLine WITH
         BLOCK <- 8, MaxLine <- 5,
         shell <- v1, buff <- v2, line <- v3, dirty <- v4, argv <- v5

(* Every command of up to five words with all three redirections. *)
Redir == INSTANCE Redirect WITH
         Words <- {"cmd", "a", "b"}, MaxArgs <- 5, NULL <- None,
         typed <- v1, arg_vec <- v2, argc <- v3, input <- v4, output <- v5, state <- v6

(* Three clients, so that one leaves the middle of the list, with a console that *)
(* stops and releases them; and one client with all that ends the server.        *)
Srv == INSTANCE DbServer WITH
         Clients <- {"c1", "c2", "c3"}, Main <- "main", Sig <- "sig", Events <- {"stop"},
         th <- v1, cancelled <- v2, freed <- v3, head <- v4, next <- v5, prev <- v6,
         listMutex <- v7, num <- v8, stopped <- v9, goMutex <- v10, ran <- v11,
         listening <- v12, del <- v13, deleting <- v14
End == INSTANCE DbServer WITH
         Clients <- {"c1"}, Main <- "main", Sig <- "sig", Events <- {"stop", "sigint", "eof"},
         th <- v1, cancelled <- v2, freed <- v3, head <- v4, next <- v5, prev <- v6,
         listMutex <- v7, num <- v8, stopped <- v9, goMutex <- v10, ran <- v11,
         listening <- v12, del <- v13, deleting <- v14

(* Two users, who share without the right to write; one content cannot be stored.        *)
Box == INSTANCE Dropbox WITH
         Users <- {"u1", "u2"}, Names <- {"a"}, Contents <- {"x", "y"}, Slashed <- {"y"},
         WritesFail <- TRUE, Grants <- {FALSE}, Dir <- "dir",
         users <- v1, sid <- v2, pwd <- v3, fd <- v4, shares <- v5, ncount <- v6, uploads <- v7,
         unwritten <- v8

(* Three threads in two queues. *)
Uq == INSTANCE UtQueue WITH
         Threads <- {"a", "b", "c"}, Queues <- {"q", "r"}, NULL <- None,
         l_next <- v1, l_prev <- v2, tq_size <- v3, fifo <- v4, got <- v5, aborted <- v6

(* Two threads that contend for a mutex and one that they may create; a is joined *)
(* by b, c by a, and b is detached.  Two priorities below the reaper's, so that a *)
(* wake may yield, and uthread_switch find only threads of a lower priority.      *)
Uni == INSTANCE Uthreads WITH
         Threads <- {"a", "b", "c"}, reaper <- "reaper", First <- {"a", "b"}, UTH_MAXPRIO <- 3,
         ClientPrios <- {1, 2}, Joiner <- "a" :> "b" @@ "b" :> "b" @@ "c" :> "a", Depth <- 5,
         ticks <- v1, ut_curthr <- v2, no_preempt <- v3, ut_state <- v4, ut_prio <- v5,
         ut_waiter <- v6, ut_detached <- v7, runq_table <- v8, m_owner <- v9,
         m_waiters <- v10, uc_waiters <- v11, reap_queue <- v12, todo <- v13,
         holders <- v14, aborted <- v15, astray <- v16

(* Two threads with two calls each on a list of up to three elements. *)
List == INSTANCE LockedList WITH
         Threads <- {"t1", "t2"}, Elements <- {"n1", "n2", "n3"}, Vals <- {1, 2, 3},
         niterations <- 2, head <- "head", NULL <- None, Nobody <- None,
         pc <- v1, call <- v2, left <- v3, par <- v4, ele <- v5, val <- v6, next <- v7,
         mutex <- v8, malloced <- v9, freed <- v10, present <- v11, spoilt <- v12

Rc == INSTANCE Race WITH
         Teams <- {"t1", "t2"}, Nobody <- None,
         a <- v1, b <- v2, mutex <- v3, saw <- v4, someone_finished <- v5, gold <- v6,
         silver <- v7, joined <- v8

(* One signal more than the knock has, in any order, nested in any way. *)
Sl == INSTANCE Siglab WITH
         INTERVAL <- 2, LastSecond <- 4, MaxSignals <- 4,
         now <- v1, seconds <- v2, sig_int <- v3, sig_stop <- v4, stack <- v5, log <- v6,
         nested <- v7, exited <- v8

(* All pairs of words of six bits. *)
Bt == INSTANCE Bits WITH W <- 6, B <- 2, x <- v1, y <- v2, n <- v3

(* All boards of two rows and three columns, for three generations. *)
Lf == INSTANCE Life WITH
         rows <- 2, cols <- 3, steps <- 3,
         board <- v1, arr1 <- v2, i <- v3, step <- v4, live <- v5

(* Two messages of the server and two lines, so that a line meets a half-read message;    *)
(* a station number of each kind, and texts that look like messages or hold a NUL.         *)
Net == INSTANCE Radio WITH
         B <- 4, Counts <- {<<1, 1>>, <<0, 2>>}, Texts <- {<<>>, <<1, 2>>, <<3, 0>>},
         Lines <- {<<"0", "n">>, <<"7", "n">>, <<"q", "n">>, <<"q", "1", "n">>, <<"n">>,
                   <<"q", " ", "n">>},
         MaxSaid <- 2, MaxTyped <- 2,
         bound <- v1, pc <- v2, ready <- v3, reply_type <- v4, size <- v5, stations <- v6,
         stream <- v7, arrived <- v8, hung <- v9, said <- v10, shown <- v11, sent <- v12,
         typed <- v13

(* Four nodes, so that the same element is in the list twice between two others. *)
Lab == INSTANCE LabList WITH
         Nodes <- {"n1", "n2", "n3", "n4"}, Elements <- {1, 2}, NULL <- None,
         head <- v1, size <- v2, next <- v3, value <- v4, allocated <- v5, result <- v6,
         promised <- v7, misplaced <- v8, crashed <- v9

(* All pairs of strings of up to four characters out of two. *)
Str == INSTANCE Strings WITH
         Chars <- {1, 2}, MaxLen <- 4,
         s <- v1, t <- v2, mem <- v3, str <- v4, saved <- v5, tokens <- v6, done <- v7

(* Two threads with two calls each; an int has three bits, and one offset does not fit. *)
Usr == INSTANCE Interpose WITH
         Threads <- {"t1", "t2"}, Fds <- {3}, W <- 3, MaxOffset <- 4, MaxCalls <- 2,
         runq <- v1, pc <- v2, call <- v3, owed <- v4, kernel <- v5, ret <- v6, truth <- v7,
         calls <- v8

--------------------------------------------------------------------------------
(* The variables that a program with k of them does not have. *)
Unused(k) ==
    /\ IF k < 4  THEN v4 = None  ELSE TRUE
    /\ IF k < 5  THEN v5 = None  ELSE TRUE
    /\ IF k < 6  THEN v6 = None  ELSE TRUE
    /\ IF k < 7  THEN v7 = None  ELSE TRUE
    /\ IF k < 8  THEN v8 = None  ELSE TRUE
    /\ IF k < 9  THEN v9 = None  ELSE TRUE
    /\ IF k < 10 THEN v10 = None ELSE TRUE
    /\ IF k < 11 THEN v11 = None ELSE TRUE
    /\ IF k < 12 THEN v12 = None ELSE TRUE
    /\ IF k < 13 THEN v13 = None ELSE TRUE
    /\ IF k < 14 THEN v14 = None ELSE TRUE
    /\ IF k < 15 THEN v15 = None ELSE TRUE
    /\ IF k < 16 THEN v16 = None ELSE TRUE

Stay(k) ==
    /\ UNCHANGED prog
    /\ IF k < 4  THEN UNCHANGED v4  ELSE TRUE
    /\ IF k < 5  THEN UNCHANGED v5  ELSE TRUE
    /\ IF k < 6  THEN UNCHANGED v6  ELSE TRUE
    /\ IF k < 7  THEN UNCHANGED v7  ELSE TRUE
    /\ IF k < 8  THEN UNCHANGED v8  ELSE TRUE
    /\ IF k < 9  THEN UNCHANGED v9  ELSE TRUE
    /\ IF k < 10 THEN UNCHANGED v10 ELSE TRUE
    /\ IF k < 11 THEN UNCHANGED v11 ELSE TRUE
    /\ IF k < 12 THEN UNCHANGED v12 ELSE TRUE
    /\ IF k < 13 THEN UNCHANGED v13 ELSE TRUE
    /\ IF k < 14 THEN UNCHANGED v14 ELSE TRUE
    /\ IF k < 15 THEN UNCHANGED v15 ELSE TRUE
    /\ IF k < 16 THEN UNCHANGED v16 ELSE TRUE

Init ==
    \/ prog = "io61"     /\ Io!Init    /\ Unused(7)
    \/ prog = "malloc"   /\ Mm!Init    /\ Unused(3)
    \/ prog = "mdriver"  /\ Md!Init    /\ Unused(11)
    \/ prog = "m61"      /\ Leak!Init  /\ Unused(12)
    \/ prog = "maze"     /\ Mz!Init    /\ Unused(7)
    \/ prog = "jobs"     /\ Jobs!Init  /\ Unused(10)
    \/ prog = "line"     /\ Line!Init  /\ Unused(5)
    \/ prog = "redirect" /\ Redir!Init /\ Unused(6)
    \/ prog = "server"   /\ Srv!Init   /\ Unused(14)
    \/ prog = "shutdown" /\ End!Init   /\ Unused(14)
    \/ prog = "dropbox"  /\ Box!Init   /\ Unused(8)
    \/ prog = "uthreads" /\ Uni!Init   /\ Unused(16)
    \/ prog = "queue"    /\ Uq!Init    /\ Unused(6)
    \/ prog = "list"     /\ List!Init  /\ Unused(12)
    \/ prog = "race"     /\ Rc!Init    /\ Unused(8)
    \/ prog = "siglab"   /\ Sl!Init    /\ Unused(8)
    \/ prog = "bits"     /\ Bt!Init    /\ Unused(3)
    \/ prog = "life"     /\ Lf!Init    /\ Unused(5)
    \/ prog = "radio"    /\ Net!Init   /\ Unused(13)
    \/ prog = "lablist"  /\ Lab!Init   /\ Unused(9)
    \/ prog = "strings"  /\ Str!Init   /\ Unused(7)
    \/ prog = "usr"      /\ Usr!Init   /\ Unused(8)

Buffered  == prog = "io61"     /\ Io!Next    /\ Stay(7)
Allocator == prog = "malloc"   /\ Mm!Next    /\ Stay(3)
Driver    == prog = "mdriver"  /\ Md!Next    /\ Stay(11)
Debugger  == prog = "m61"      /\ Leak!Next  /\ Stay(12)
Solver    == prog = "maze"     /\ Mz!Next    /\ Stay(7)
JobsStep  == prog = "jobs"     /\ Jobs!Next  /\ Stay(10)
LineStep  == prog = "line"     /\ Line!Next  /\ Stay(5)
RedirStep == prog = "redirect" /\ Redir!Next /\ Stay(6)
Server    == prog = "server"   /\ Srv!Next   /\ Stay(14)
Shutdown  == prog = "shutdown" /\ End!Next   /\ Stay(14)
FileBox   == prog = "dropbox"  /\ Box!Next   /\ Stay(8)
UniSched  == prog = "uthreads" /\ Uni!Next   /\ Stay(16)
QueueStep == prog = "queue"    /\ Uq!Next    /\ Stay(6)
ListStep  == prog = "list"     /\ List!Next  /\ Stay(12)
RaceStep  == prog = "race"     /\ Rc!Next    /\ Stay(8)
Signal    == prog = "siglab"   /\ Sl!Next    /\ Stay(8)
Puzzle    == prog = "bits"     /\ Bt!Next    /\ Stay(3)
Game      == prog = "life"     /\ Lf!Next    /\ Stay(5)
RadioStep == prog = "radio"    /\ Net!Next   /\ Stay(13)
LabStep   == prog = "lablist"  /\ Lab!Next   /\ Stay(9)
Strtok    == prog = "strings"  /\ Str!Next   /\ Stay(7)
LibcStep  == prog = "usr"      /\ Usr!Next   /\ Stay(8)

Next == \/ Buffered \/ Allocator \/ Driver \/ Debugger \/ Solver \/ JobsStep \/ LineStep
        \/ RedirStep \/ Server \/ Shutdown \/ FileBox \/ UniSched \/ ListStep \/ RaceStep
        \/ Signal \/ Puzzle \/ Game \/ QueueStep \/ RadioStep \/ LabStep
        \/ Strtok \/ LibcStep

Spec == Init /\ [][Next]_mcVars

--------------------------------------------------------------------------------
(* Properties *)

\* A program cannot tell the cache of io61.c from the file itself (slow-io61.c): each of
\* its calls does to the file, and reads from it, what a call on the plain file does, whatever
\* the window holds and whichever ranges are still to be written (the results of io61_write
\* and io61_flush apart), until a reader meets the end of the file and as long as a writer
\* keeps to one of the two calls.
BufferingIsHidden ==
    /\ prog = "io61" => Io!P!Init
    /\ [][prog = "io61" => [Io!P!Next]_(Io!P!plainVars)]_mcVars

\* mm.c keeps its heap sound and the blocks of the program intact through splits, merges and
\* the moves of mm_realloc; and mdriver.c, which tests it, reports no error of an allocator
\* whose answers are right, and measures the space of what is live.
LiveBlocks ==
    /\ prog = "malloc" => Mm!HeapSound /\ Mm!ContentsKept
    /\ prog = "mdriver" => Md!DriverIsFair

\* m61_free stops every program that frees twice or writes past an end, and until then the
\* leak report and the statistics are those of the live blocks; an index that arena_remove
\* never sets is the only thing that can spoil the report, and it or a realloc that gets no
\* memory the only thing that can stop a correct program.
MisusedBlocks == prog = "m61" => Leak!MisuseIsCaught /\ Leak!LeakReportExact

\* The generator makes a maze whose doors agree on both sides and that is a tree, so the
\* solver, which checks no bounds, finds a path from each room to each other, and what it
\* writes to the file is a walk through open doors, the pruned one without a room twice.
MazeRight == prog = "maze" => Mz!MazeSound /\ Mz!MazeSolved

\* At the prompt the job table of shell_2 is the children not reaped and what waitpid has
\* reported of them, the terminal is the shell's own, and the shell waits for no child whose
\* stop it has seen, although children stop, continue and die at any moment.
JobControl == prog = "jobs" => Jobs!JobTableExact /\ Jobs!TerminalAndWait

\* A command of the shells gets the words of its line and nothing of an older one that was
\* cleared; and one with redirections runs with its other words, in order, and with the files
\* that the symbols name.
CommandLine ==
    /\ prog = "line" => Line!LineParsed
    /\ prog = "redirect" => Redir!RedirectionRight

\* A client of the database server begins at most one command after the console has stopped
\* the clients; and until the server shuts down, the list of clients is those that are
\* registered, none of them freed, with the links that remove_from_list trusts.
ClientsStop ==
    /\ prog = "server" => Srv!StopHolds /\ Srv!ListSound
    /\ prog = "shutdown" => End!StopHolds /\ End!ListSound

\* While nobody may write to another's files, the tables of the dropbox server agree: what a
\* user is shown can be downloaded if the server could write it, a content is counted, and if so
\* stored, as long as a file has it, and a share has the checksum of its file.
TablesAgree == prog = "dropbox" => Box!TablesAgree


\* The locked list is sorted, exact and free of deadlock under hand-over-hand locking, until
\* freed memory comes back; one team wins the race and the others do not; only the knock
\* opens siglab; the puzzles of the bit lab compute what their comments say on every word;
\* a generation of the game of life is right at the edges too; the radio client with a port
\* of its own never loses its place in the stream; the unlocked list is the sequence its
\* calls make; and the string library finds the longest prefixes, the first places and, of
\* strings with one delimiter behind each token, the tokens.
LabsRight ==
    /\ prog = "list"   => List!ListExact
    /\ prog = "race"   => Rc!RaceDecided
    /\ prog = "siglab" => Sl!KnockOpens
    /\ prog = "bits"   => Bt!PuzzlesSolved
    /\ prog = "life"   => Lf!GenerationRight
    /\ prog = "radio"  => Net!ConversationRight
    /\ prog = "lablist" => Lab!ListIsSequence
    /\ prog = "strings" => Str!StringsRight
=================================================================================
