------------------------------- MODULE DatabaseInv -------------------------------
(***************************************************************************)
(* The inductive invariant of the concurrent search tree of db.c, which    *)
(* implies TypeOK, TreeSound and NoStalePointer and is what the refinement *)
(* of Dictionary rests on.                                                 *)
(***************************************************************************)
EXTENDS Database

Pcs == {"idle", "search", "found", "walk", "unhook", "destroy", "done"}

FrameTypes == [pc : Pcs, req : AllRequests \cup {Absent}, parent : Nodes \cup {Null},
               target : Nodes \cup {Null}, next : Nodes \cup {Null}, pnext : Nodes \cup {Null}]

\* A thread that is in no call has no locals, one in a call has its request, and
\* the answer once the call has taken effect.
FrameOK(f, a) ==
    /\ f.pc = "idle" <=> f.req = Absent
    /\ f.pc \in {"idle", "search", "found", "walk"} <=> a = Absent
    /\ f.pc \notin {"search", "found", "walk", "unhook"} => f.parent = Null
    /\ f.pc \notin {"found", "walk", "unhook"} => f.target = Null
    /\ f.pc \notin {"walk", "unhook"} => f.pnext = Null
    /\ f.pc \in {"walk", "unhook", "destroy"} => f.req.op = "d" /\ f.next # Null
    /\ f.pc \notin {"walk", "unhook", "destroy"} => f.next = Null
FramesOK ==
    /\ frame \in [Clients -> FrameTypes] /\ answer = [c \in Clients |-> answer[c]]
    /\ \A c \in Clients : FrameOK(frame[c], answer[c])

-----------------------------------------------------------------------------------
(* Locks.                                                                    *)

\* Who has a lock for writing is alone; an update has all its locks for writing.
LocksOK ==
    /\ \A n \in Nodes : writer[n] # Absent => readers[n] = {}
    /\ \A c \in Clients : \A n \in Held(c) : Op(c) # "q" => writer[n] = c

-----------------------------------------------------------------------------------
(* The tree.                                                                 *)

ShapeOK ==
    /\ node[Root].name = 0 /\ node[Root].lchild = Null
    /\ \A n \in InTree \ {Root} : node[n].name \in Keys /\ node[n].value \in Keys
    /\ \A n \in InTree : Root \notin Children(node, n)
    /\ \A m, n \in InTree : m # n => Children(node, m) \cap Children(node, n) = {}

\* What is allocated is in the tree, or in the hands of the one thread that is to free it.
AllocOK ==
    /\ InTree \cap Unlinked = {}
    /\ \A c, d \in Clients :
          Pc(c) = "destroy" /\ Pc(d) = "destroy" /\ frame[c].next = frame[d].next => c = d
    /\ IF closed THEN alive = {Root} /\ \A c \in Clients : Pc(c) = "idle"
       ELSE alive = InTree \cup Unlinked

-----------------------------------------------------------------------------------
(* Where a thread is.                                                        *)

\* Node p is on the way from the head to name k.
Fits(tree, p, k) ==
    \A x \in Under(tree, Root) \ {Root} :
        /\ p \in Under(tree, tree[x].lchild) => k < tree[x].name
        /\ p \in Under(tree, tree[x].rchild) => k > tree[x].name

SearchOK(c) ==
    Pc(c) = "search" =>
        /\ frame[c].parent \in InTree
        /\ frame[c].parent # Root => node[frame[c].parent].name # Key(c)
        /\ Fits(node, frame[c].parent, Key(c))

FoundOK(c) ==
    Pc(c) = "found" =>
        /\ frame[c].target \in InTree \ {Root} /\ node[frame[c].target].name = Key(c)
        /\ IF Op(c) = "q" THEN frame[c].parent = Null
           ELSE frame[c].parent \in InTree /\ Child(frame[c].parent, Key(c)) = frame[c].target

\* s leads from d to n: to the right, and from there to the left.
Way(tree, d, n, s) ==
    /\ d \in s /\ s \subseteq Under(tree, Root)
    /\ n \in Under(tree, tree[d].rchild) \ s
    /\ tree[d].rchild \in s \cup {n}
    /\ \A y \in s \ {d} :
          /\ y \in Under(tree, tree[d].rchild) /\ tree[y].lchild \in s \cup {n}
          /\ tree[y].name > tree[n].name
          /\ \E x \in s : y \in Children(tree, x)

\* The nodes that c has gone through since its target: nobody else is in them,
\* although c has given up their locks.
Chain(c, s) ==
    /\ Way(node, frame[c].target, frame[c].next, s)
    /\ frame[c].pnext \in s /\ node[frame[c].pnext][PnextSide(c)] = frame[c].next
    /\ \A d \in Clients \ {c} : Names(d) \cap s = {}

WalkOK(c) ==
    Pc(c) \in {"walk", "unhook"} =>
        /\ {frame[c].parent, frame[c].target, frame[c].next} \subseteq InTree
        /\ frame[c].target # Root /\ frame[c].target \in Children(node, frame[c].parent)
        /\ Pc(c) = "walk" => node[frame[c].target].name = Key(c)
        /\ \E s \in SUBSET Nodes : Chain(c, s)

\* Between the copy and the unhooking both nodes say the same.
UnhookOK(c) ==
    Pc(c) = "unhook" =>
        /\ node[frame[c].next].lchild = Null
        /\ node[frame[c].target].name = node[frame[c].next].name
        /\ node[frame[c].target].value = node[frame[c].next].value

DbInv ==
    /\ TypeOK /\ FramesOK /\ LocksOK
    /\ ShapeOK /\ AllocOK /\ Sorted(node, Copies)
    /\ \A c \in Clients : SearchOK(c) /\ FoundOK(c) /\ WalkOK(c) /\ UnhookOK(c)
==================================================================================
