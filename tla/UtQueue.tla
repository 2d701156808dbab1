--------------------------------- MODULE UtQueue --------------------------------
(***************************************************************************)
(* The queues of threads of both thread libraries: uthread_queue.c over    *)
(* the circular doubly linked lists of list.h.  A thread has one link, the *)
(* queue's own closes the circle.  The other modules take a queue for the  *)
(* sequence of its threads, the one to be dequeued first; here that        *)
(* sequence is kept beside the links, to be compared with them.            *)
(***************************************************************************)
EXTENDS Integers, Sequences

CONSTANTS Threads,
          Queues,      \* each stands for its link as well
          NULL

VARIABLES l_next, l_prev,    \* of each link
          tq_size,
          fifo,              \* the threads of each queue in the order they were enqueued
          got,               \* what utqueue_dequeue returned, and what it should have
          aborted            \* an assert has failed

queueVars == <<l_next, l_prev, tq_size, fifo, got, aborted>>

Links == Threads \cup Queues

\* utqueue_init of every queue, list_link_init of every thread.
Init ==
    /\ l_next = [k \in Links |-> IF k \in Queues THEN k ELSE NULL]
    /\ l_prev = [k \in Links |-> IF k \in Queues THEN k ELSE NULL]
    /\ tq_size = [q \in Queues |-> 0]
    /\ fifo = [q \in Queues |-> <<>>]
    /\ got = <<NULL, NULL>>
    /\ aborted = FALSE

\* list_empty, and the assert of utqueue_empty.
Empty(q)   == l_next[q] = q
Correct(q) == Empty(q) <=> tq_size[q] = 0

Abort == /\ aborted' = TRUE
         /\ UNCHANGED <<l_next, l_prev, tq_size, fifo, got>>

list_insert_before(old, new) ==
    /\ l_next' = [l_next EXCEPT ![new] = old, ![l_prev[old]] = new]
    /\ l_prev' = [l_prev EXCEPT ![new] = l_prev[old], ![old] = new]


list_remove(k) ==
    /\ l_next' = [l_next EXCEPT ![l_prev[k]] = l_next[k], ![k] = NULL]
    /\ l_prev' = [l_prev EXCEPT ![l_next[k]] = l_prev[k], ![k] = NULL]

utqueue_enqueue(q, t) ==
    IF l_next[t] = NULL /\ l_prev[t] = NULL
    THEN /\ list_insert_before(l_next[q], t)
         /\ tq_size' = [tq_size EXCEPT ![q] = @ + 1]
         /\ fifo' = [fifo EXCEPT ![q] = Append(@, t)]
         /\ UNCHANGED <<got, aborted>>
    ELSE Abort

utqueue_dequeue(q) ==
    IF ~Correct(q) THEN Abort
    ELSE IF tq_size[q] = 0
    THEN /\ got' = <<NULL, IF fifo[q] = <<>> THEN NULL ELSE Head(fifo[q])>>
         /\ UNCHANGED <<l_next, l_prev, tq_size, fifo, aborted>>
    ELSE /\ list_remove(l_prev[q])
         /\ tq_size' = [tq_size EXCEPT ![q] = @ - 1]
         /\ got' = <<l_prev[q], IF fifo[q] = <<>> THEN NULL ELSE Head(fifo[q])>>
         /\ fifo' = [fifo EXCEPT ![q] = IF @ = <<>> THEN @ ELSE Tail(@)]
         /\ UNCHANGED aborted

Without(s, i) == [j \in 1 .. (Len(s) - 1) |-> IF j < i THEN s[j] ELSE s[j + 1]]

\* utqueue_remove; the callers name the queue that the thread is in.
utqueue_remove(q, t) ==
    IF l_next[t] # NULL /\ l_prev[t] # NULL
    THEN \E i \in DOMAIN fifo[q] :
            /\ fifo[q][i] = t
            /\ list_remove(t)
            /\ tq_size' = [tq_size EXCEPT ![q] = @ - 1]
            /\ fifo' = [fifo EXCEPT ![q] = Without(@, i)]
            /\ UNCHANGED <<got, aborted>>
    ELSE Abort

Next == /\ ~aborted
        /\ \E q \in Queues : \/ \E t \in Threads : utqueue_enqueue(q, t) \/ utqueue_remove(q, t)
                             \/ utqueue_dequeue(q)

Spec == Init /\ [][Next]_queueVars

------------------------------------------------------------------------------
\* The i-th link on the way from the queue's own link back to it.
At(q, i) == IF i \in 1 .. Len(fifo[q]) THEN fifo[q][i] ELSE q

Queued(t) == \E q \in Queues : \E i \in DOMAIN fifo[q] : fifo[q][i] = t

\* Walking back from a queue's link meets its threads in the order they were enqueued and
\* returns to the queue, and walking forward meets them the other way round; its size is
\* their number; a thread that is in no queue has no links; and no thread is met twice.
LinksMatch ==
    /\ \A q \in Queues : \A i \in 0 .. Len(fifo[q]) :
          l_prev[At(q, i)] = At(q, i + 1) /\ l_next[At(q, i + 1)] = At(q, i)
    /\ \A t \in Threads : ~Queued(t) => l_next[t] = NULL /\ l_prev[t] = NULL
    /\ \A q \in Queues : tq_size[q] = Len(fifo[q])
    /\ \A q, r \in Queues : \A i \in DOMAIN fifo[q], j \in DOMAIN fifo[r] :
          fifo[q][i] = fifo[r][j] => q = r /\ i = j

\* The queues are the sequences they are taken for: the links match, and what is dequeued is
\* what has waited longest, whichever threads were taken out of the middle.
QueuesAreFifo == LinksMatch /\ got[1] = got[2]
=================================================================================
