-------------------------------- MODULE Database --------------------------------
(***************************************************************************)
(* The binary search tree of systems/cs033/database/db.c.  Threads walk it *)
(* hand over hand: a node is locked while its parent is still held.  One   *)
(* action is what a thread does from one lock it gets to the next; the     *)
(* store through pnext (db.c:207) and the free of a removed node, which    *)
(* touch nodes whose locks may be gone, are actions of their own.          *)
(***************************************************************************)
EXTENDS Integers, FiniteSets

CONSTANTS Clients,
          Requests,    \* Requests[c]: what thread c may ask, records [op, key, val]
          Keys, Absent,
          PoolSize,    \* how many nodes malloc can give out
          Trees,       \* what the database may hold at the start, records [node, alive]
          MaxCalls     \* bound: calls per thread

Root  == 0             \* `head`: its empty name is less than every other
Null  == -1
Nodes == 0 .. PoolSize

AllRequests == UNION {Requests[c] : c \in Clients}
Replies == {"not found", "added", "added nothing", "already in database", "removed", "not in database"}

NodeTypes == [name : Keys \cup {0}, value : Keys \cup {Absent},
              lchild : Nodes \cup {Null}, rchild : Nodes \cup {Null}]

Children(tree, n) == {tree[n].lchild, tree[n].rchild} \ {Null}

\* Node n and those below it, none for Null: they are in every set that has n
\* and the children of its own members.
Closed(tree, s)  == \A n \in s : Children(tree, n) \subseteq s
Under(tree, n) ==
    LET around == {s \in SUBSET Nodes : n \in s \cup {Null} /\ Closed(tree, s)}
    IN  {m \in Nodes : \A s \in around : m \in s}

\* Smaller names to the left, larger ones to the right, but for `copies`.
Sorted(tree, copies) ==
    \A n \in Under(tree, Root) \ {Root} :
        /\ \A m \in Under(tree, tree[n].lchild) : tree[m].name < tree[n].name
        /\ \A m \in Under(tree, tree[n].rchild) :
               tree[m].name > tree[n].name \/ <<n, m>> \in copies

\* Each node but the head hangs from one place.
HangsOnce(tree) ==
    LET all == Under(tree, Root)
    IN  \A n \in all \ {Root} : Cardinality({m \in all : n \in Children(tree, m)}) = 1

ASSUME PoolAssumption == PoolSize \in Nat \ {0} /\ Keys \subseteq Nat \ {0}

ASSUME RequestAssumption ==
    /\ \A r \in AllRequests : r.op \in {"q", "a", "d"} /\ {r.key, r.val} \subseteq Keys
    /\ Absent \notin Keys /\ Absent \notin AllRequests
    /\ Absent \notin Clients /\ Absent \notin Replies

\* The head alone is such a tree.
ASSUME TreesAssumption ==
    \A t \in Trees :
        /\ t.node \in [Nodes -> NodeTypes]
        /\ t.alive = Under(t.node, Root)
        /\ t.node[Root].name = 0 /\ t.node[Root].lchild = Null
        /\ \A n \in t.alive \ {Root} : t.node[n].name \in Keys /\ t.node[n].value \in Keys
        /\ \A n \in t.alive : Root \notin Children(t.node, n)
        /\ Sorted(t.node, {}) /\ HangsOnce(t.node)

VARIABLES node,        \* node[n]: name, value, lchild, rchild
          alive,       \* the nodes that are allocated
          writer,      \* writer[n]: who has n->lock for writing, or Absent
          readers,     \* readers[n]: who has it for reading
          frame,       \* frame[c]: the request, step and locals of thread c
          answer,      \* answer[c]: the response c is about to return, or Absent
          calls,       \* calls[c]: how many calls c made
          closed       \* db_cleanup has run

dbVars == <<node, alive, writer, readers, frame, answer, calls, closed>>

NoFrame == [pc |-> "idle", req |-> Absent, parent |-> Null, target |-> Null,
            next |-> Null, pnext |-> Null]
NoNode  == [name |-> 0, value |-> Absent, lchild |-> Null, rchild |-> Null]

Init == /\ \E t \in Trees : node = t.node /\ alive = t.alive
        /\ writer = [n \in Nodes |-> Absent]
        /\ readers = [n \in Nodes |-> {}]
        /\ frame = [c \in Clients |-> NoFrame]
        /\ answer = [c \in Clients |-> Absent]
        /\ calls = [c \in Clients |-> 0]
        /\ closed = FALSE

Pc(c) == frame[c].pc
Op(c) == frame[c].req.op
Key(c) == frame[c].req.key
Goto(c, f) == frame' = [frame EXCEPT ![c] = f]
Answers(c, a) == answer' = [answer EXCEPT ![c] = a]

---------------------------------------------------------------------------------
(* pthread_rwlock: `Lock` takes n for c and drops the nodes `given` up.      *)

CanLock(n, mode) == writer[n] = Absent /\ (mode = "write" => readers[n] = {})

Relock(c, n, mode, given) ==
    /\ writer' = [x \in Nodes |-> IF x = n /\ mode = "write" THEN c
                                  ELSE IF x \in given /\ writer[x] = c THEN Absent
                                  ELSE writer[x]]
    /\ readers' = [x \in Nodes |-> IF x = n /\ mode = "read" THEN readers[x] \cup {c}
                                   ELSE IF x \in given THEN readers[x] \ {c}
                                   ELSE readers[x]]

Unlock(c, given) == Relock(c, Null, "none", given)

Side(n, k) == IF k < node[n].name THEN "lchild" ELSE "rchild"
Child(n, k) == node[n][Side(n, k)]
SetChild(n, side, x) == node' = [node EXCEPT ![n][side] = x]

---------------------------------------------------------------------------------
\* Every call, db_query too, locks the head for writing, and has done nothing before.
Enter(c, r) == /\ Pc(c) = "idle" /\ ~closed
               /\ calls[c] < MaxCalls
               /\ calls' = [calls EXCEPT ![c] = @ + 1]
               /\ CanLock(Root, "write")
               /\ Relock(c, Root, "write", {})
               /\ Goto(c, [NoFrame EXCEPT !.pc = "search", !.req = r, !.parent = Root])
               /\ UNCHANGED <<node, alive, answer, closed>>

Mode(c) == IF Op(c) = "q" THEN "read" ELSE "write"

\* Mutant: an update drops the parent as a query does, and goes on using it.
SearchStepDropsParent(c) ==
    LET p == frame[c].parent
        n == Child(p, Key(c))
        hit == node[n].name = Key(c)
    IN  /\ Pc(c) = "search" /\ n # Null
        /\ CanLock(n, Mode(c))
        /\ Relock(c, n, Mode(c), {p})
        /\ Goto(c, IF hit THEN [frame[c] EXCEPT !.pc = "found", !.target = n,
                                                !.parent = IF Op(c) = "q" THEN Null ELSE p]
                   ELSE [frame[c] EXCEPT !.parent = n])
        /\ UNCHANGED <<node, alive, answer, calls, closed>>

\* search: lock the child, then keep the parent (an update found it), or drop it.
SearchStep(c) ==
    LET p == frame[c].parent
        n == Child(p, Key(c))
        hit == node[n].name = Key(c)
        keeps == hit /\ Op(c) # "q"
    IN  /\ Pc(c) = "search" /\ n # Null
        /\ CanLock(n, Mode(c))
        /\ Relock(c, n, Mode(c), IF keeps THEN {} ELSE {p})
        /\ Goto(c, IF hit THEN [frame[c] EXCEPT !.pc = "found", !.target = n,
                                                !.parent = IF keeps THEN p ELSE Null]
                   ELSE [frame[c] EXCEPT !.parent = n])
        /\ UNCHANGED <<node, alive, answer, calls, closed>>

\* search came to a null pointer, with the would-be parent locked.
Missed(c) == /\ Pc(c) = "search"
             /\ Child(frame[c].parent, Key(c)) = Null
             /\ Unlock(c, {frame[c].parent})
             /\ Goto(c, [NoFrame EXCEPT !.pc = "done", !.req = frame[c].req])
             /\ UNCHANGED <<calls, closed>>

QueryMiss(c) == /\ Missed(c) /\ Op(c) = "q"
                /\ Answers(c, "not found")
                /\ UNCHANGED <<node, alive>>

RemoveMiss(c) == /\ Missed(c) /\ Op(c) = "d"
                 /\ Answers(c, "not in database")
                 /\ UNCHANGED <<node, alive>>

\* node_constructor gets a node from malloc, or 0 when there is none.  No code
\* compares addresses, so it is no loss that equal names get equal addresses.
FreeNode(k) == IF k \in Nodes \ alive THEN k
               ELSE CHOOSE n \in Nodes \ alive : TRUE

AddMiss(c) ==
    LET p == frame[c].parent
        new == FreeNode(Key(c))
    IN
    /\ Missed(c) /\ Op(c) = "a"
    /\ IF alive = Nodes
       THEN Answers(c, "added nothing") /\ UNCHANGED <<node, alive>>
       ELSE /\ Answers(c, "added")
            /\ alive' = alive \cup {new}
            /\ node' = [node EXCEPT
                  ![p][Side(p, Key(c))] = new,
                  ![new] = [NoNode EXCEPT !.name = Key(c), !.value = frame[c].req.val]]

Ends(c) == Goto(c, [NoFrame EXCEPT !.pc = "done", !.req = frame[c].req])

QueryHit(c) == /\ Pc(c) = "found" /\ Op(c) = "q"
               /\ Answers(c, node[frame[c].target].value)
               /\ Unlock(c, {frame[c].target})
               /\ Ends(c)
               /\ UNCHANGED <<node, alive, calls, closed>>

\* Mutant: the parent of the node that is there already stays locked.
AddHitKeepsParent(c) == /\ Pc(c) = "found" /\ Op(c) = "a"
                        /\ Answers(c, "already in database")
                        /\ Unlock(c, {frame[c].target})
                        /\ Ends(c)
                        /\ UNCHANGED <<node, alive, calls, closed>>

AddHit(c) == /\ Pc(c) = "found" /\ Op(c) = "a"
             /\ Answers(c, "already in database")
             /\ Unlock(c, {frame[c].target, frame[c].parent})
             /\ Ends(c)
             /\ UNCHANGED <<node, alive, calls, closed>>

---------------------------------------------------------------------------------
Removing(c) == Pc(c) = "found" /\ Op(c) = "d"

\* The victim has at most one child: its parent takes it over.
Splice(c) ==
    LET p == frame[c].parent
        d == frame[c].target
        heir == IF node[d].rchild = Null THEN node[d].lchild ELSE node[d].rchild
    IN  /\ Removing(c)
        /\ node[d].rchild = Null \/ node[d].lchild = Null
        /\ SetChild(p, Side(p, node[d].name), heir)
        /\ Unlock(c, {p, d})
        /\ Goto(c, [NoFrame EXCEPT !.pc = "destroy", !.req = frame[c].req, !.next = d])
        /\ Answers(c, "removed")
        /\ UNCHANGED <<alive, calls, closed>>

\* Mutant: the right child is used without its lock.
RightNotLocked(c) ==
    LET d == frame[c].target IN
    /\ Removing(c)
    /\ node[d].rchild # Null /\ node[d].lchild # Null
    /\ Goto(c, [frame[c] EXCEPT !.pc = "walk", !.next = node[d].rchild, !.pnext = d])
    /\ UNCHANGED <<node, alive, writer, readers, answer, calls, closed>>

\* Two children: look for the smallest node of the right subtree.
LockRight(c) ==
    LET d == frame[c].target
        n == node[d].rchild
    IN  /\ Removing(c)
        /\ node[d].rchild # Null /\ node[d].lchild # Null
        /\ CanLock(n, "write")
        /\ Relock(c, n, "write", {})
        /\ Goto(c, [frame[c] EXCEPT !.pc = "walk", !.next = n, !.pnext = d])
        /\ UNCHANGED <<node, alive, answer, calls, closed>>

LockLeft(c) ==
    LET n == frame[c].next
        left == node[n].lchild
    IN  /\ Pc(c) = "walk" /\ left # Null
        /\ CanLock(left, "write")
        /\ Relock(c, left, "write", {n})
        /\ Goto(c, [frame[c] EXCEPT !.next = left, !.pnext = n])
        /\ UNCHANGED <<node, alive, answer, calls, closed>>

\* Mutant: the name moves, the value stays.
CopyNameUp(c) ==
    LET d == frame[c].target
        n == frame[c].next
    IN  /\ Pc(c) = "walk" /\ node[n].lchild = Null
        /\ node' = [node EXCEPT ![d].name = node[n].name]
        /\ Goto(c, [frame[c] EXCEPT !.pc = "unhook"])
        /\ Answers(c, "removed")
        /\ UNCHANGED <<alive, writer, readers, calls, closed>>

CopyUp(c) ==
    LET d == frame[c].target
        n == frame[c].next
    IN  /\ Pc(c) = "walk" /\ node[n].lchild = Null
        /\ node' = [node EXCEPT ![d].name = node[n].name, ![d].value = node[n].value]
        /\ Goto(c, [frame[c] EXCEPT !.pc = "unhook"])
        /\ Answers(c, "removed")
        /\ UNCHANGED <<alive, writer, readers, calls, closed>>

\* *pnext = next->rchild: pnext points into a node c no longer holds, or into d.
PnextSide(c) == IF frame[c].pnext = frame[c].target THEN "rchild" ELSE "lchild"

Unhook(c) ==
    LET n == frame[c].next IN
    /\ Pc(c) = "unhook"
    /\ SetChild(frame[c].pnext, PnextSide(c), node[n].rchild)
    /\ Unlock(c, {frame[c].parent, frame[c].target, n})
    /\ Goto(c, [NoFrame EXCEPT !.pc = "destroy", !.req = frame[c].req, !.next = n])
    /\ UNCHANGED <<alive, answer, calls, closed>>

\* node_destructor: the node's contents are what a later user of the memory makes them.
Destroy(c) == /\ Pc(c) = "destroy"
              /\ alive' = alive \ {frame[c].next}
              /\ node' = [node EXCEPT ![frame[c].next] = NoNode]
              /\ Ends(c)
              /\ UNCHANGED <<writer, readers, answer, calls, closed>>

Return(c) == /\ Pc(c) = "done"
             /\ Goto(c, NoFrame)
             /\ Answers(c, Absent)
             /\ UNCHANGED <<node, alive, writer, readers, calls, closed>>

---------------------------------------------------------------------------------
InTree == Under(node, Root)

\* db_cleanup, which the server calls once no thread uses the database.
Cleanup == /\ ~closed
           /\ \A c \in Clients : Pc(c) = "idle"
           /\ closed' = TRUE
           /\ alive' = alive \ (InTree \ {Root})
           /\ UNCHANGED <<node, writer, readers, frame, answer, calls>>

---------------------------------------------------------------------------------
(* Properties *)

\* What a thread holds in each step; pnext's node is not among it unless it is d.
Held(c) == IF Pc(c) = "search" THEN {frame[c].parent}
           ELSE IF Pc(c) = "found" THEN {frame[c].target, frame[c].parent} \ {Null}
           ELSE IF Pc(c) \in {"walk", "unhook"}
                THEN {frame[c].parent, frame[c].target, frame[c].next}
           ELSE {}

\* The variables hold what the C types allow, and a thread holds the locks of its step
\* and no other: no path forgets or repeats an unlock (db.c:73-216, 363-426).
TypeOK ==
    /\ node \in [Nodes -> NodeTypes]
    /\ alive \subseteq Nodes
    /\ writer \in [Nodes -> Clients \cup {Absent}]
    /\ readers \in [Nodes -> SUBSET Clients]
    /\ \A c \in Clients : {n \in Nodes : writer[n] = c \/ c \in readers[n]} = Held(c)

Unlinked == {frame[c].next : c \in {x \in Clients : Pc(x) = "destroy"}}

\* A node copied into another is in the tree under both until it is unhooked.
Copies == {<<frame[c].target, frame[c].next>> : c \in {x \in Clients : Pc(x) = "unhook"}}

\* Whatever the threads are in the middle of: the tree is ordered, each node hangs
\* from one place, and a node is allocated exactly while it is in the tree or while
\* the one thread that unlinked it has yet to free it (db.c:158-213).
TreeSound ==
  LET tree == InTree IN
    \/ closed /\ alive = {Root}
    \/ /\ Sorted(node, Copies) /\ HangsOnce(node)
       /\ tree \cap Unlinked = {}
       /\ \A c, d \in Clients : /\ Pc(c) = "destroy" /\ Pc(d) = "destroy"
                                /\ frame[c].next = frame[d].next
                                => c = d
       /\ alive = tree \cup Unlinked

Names(c) == {frame[c].parent, frame[c].target, frame[c].next, frame[c].pnext} \ {Null}

\* No thread is about to touch a node that another freed, and nobody else is in the
\* node that `*pnext = next->rchild` (db.c:207) writes without holding its lock.
NoStalePointer == \A c \in Clients :
    /\ Names(c) \subseteq alive
    /\ Pc(c) = "unhook" => \A d \in Clients \ {c} : frame[c].pnext \notin Names(d)

\* The database is a dictionary, whatever the interleaving of the calls (db.c:73-216).
View == LET tree == InTree
            at(k) == {n \in tree \ {Root} : node[n].name = k}
        IN  [k \in Keys |-> IF at(k) = {} THEN Absent ELSE node[CHOOSE n \in at(k) : TRUE].value]
D == INSTANCE Dictionary WITH
        Requests <- AllRequests, Values <- Keys,
        dict <- View,
        call <- [c \in Clients |-> frame[c].req]

---------------------------------------------------------------------------------
Works(c) == \/ SearchStep(c) \/ QueryMiss(c) \/ RemoveMiss(c) \/ AddMiss(c)
            \/ QueryHit(c) \/ AddHit(c) \/ Splice(c) \/ LockRight(c) \/ LockLeft(c)
            \/ CopyUp(c) \/ Unhook(c) \/ Destroy(c) \/ Return(c)

Next == \/ \E c \in Clients : \/ \E r \in Requests[c] : Enter(c, r)
                              \/ Works(c)
        \/ Cleanup

Spec == Init /\ [][Next]_dbVars

\* A thread that has the head's lock is not held back by the scheduler; which
\* thread gets that lock is left open, since a rwlock promises no order.
FairSpec == Spec /\ \A c \in Clients : WF_dbVars(Works(c))

ImplementsDictionary == D!Spec

\* A call that got past the head returns: lock coupling admits no deadlock and no
\* overtaking inside the tree.
CallReturns == \A c \in Clients : Pc(c) = "search" ~> Pc(c) = "idle"
=================================================================================
