---------------------------- MODULE DatabaseProofs ----------------------------
(***************************************************************************)
(* First search trees of any size: what lies under a node, what names may  *)
(* lie there, and how both change when a node is added, removed or         *)
(* renamed.  Then DbInv, which holds of every reachable state of the       *)
(* concurrent search tree, for any threads, requests, names and first      *)
(* tree, and with it TypeOK, TreeSound and NoStalePointer; and the tree    *)
(* implements Dictionary: every call takes effect in one instant between   *)
(* its start and its return.                                               *)
(***************************************************************************)
EXTENDS DatabaseInv, FiniteSetTheorems, TLAPS

Typed(t) == t \in [Nodes -> NodeTypes]

-----------------------------------------------------------------------------------
(* What lies under a node.                                                   *)

LEMMA NodesFacts == Root \in Nodes /\ Null \notin Nodes /\ Root # Null
  BY PoolAssumption DEF Root, Null, Nodes

LEMMA ChildTypes ==
    ASSUME NEW t, Typed(t), NEW n \in Nodes
    PROVE  /\ t[n] \in NodeTypes
           /\ t[n].lchild \in Nodes \cup {Null} /\ t[n].rchild \in Nodes \cup {Null}
           /\ Children(t, n) \subseteq Nodes
  BY DEF Typed, NodeTypes, Children

LEMMA UnderLeast ==
    ASSUME NEW t, NEW n, NEW s \in SUBSET Nodes, n \in s \cup {Null}, Closed(t, s)
    PROVE  Under(t, n) \subseteq s
  BY DEF Under

LEMMA UnderNodes ==
    ASSUME NEW t, NEW n
    PROVE  Under(t, n) \subseteq Nodes
  BY DEF Under

LEMMA UnderNull ==
    ASSUME NEW t
    PROVE  Under(t, Null) = {}
<1>1. Closed(t, {})
  BY DEF Closed
<1> QED BY <1>1, UnderLeast

LEMMA UnderSelf ==
    ASSUME NEW t, NEW n \in Nodes
    PROVE  n \in Under(t, n)
  BY NodesFacts DEF Under

LEMMA UnderClosed ==
    ASSUME NEW t, Typed(t), NEW n
    PROVE  Closed(t, Under(t, n))
<1> SUFFICES ASSUME NEW m \in Under(t, n), NEW x \in Children(t, m)
             PROVE  x \in Under(t, n)
  BY DEF Closed
<1>1. m \in Nodes /\ x \in Nodes
  BY UnderNodes, ChildTypes
<1>2. ASSUME NEW s \in SUBSET Nodes, n \in s \cup {Null}, Closed(t, s) PROVE x \in s
  BY <1>2, UnderLeast DEF Closed
<1> QED BY <1>1, <1>2 DEF Under

LEMMA UnderChild ==
    ASSUME NEW t, Typed(t), NEW n, NEW m \in Under(t, n), NEW x \in Children(t, m)
    PROVE  x \in Under(t, n)
  BY UnderClosed DEF Closed

LEMMA UnderTrans ==
    ASSUME NEW t, Typed(t), NEW n, NEW m \in Under(t, n)
    PROVE  Under(t, m) \subseteq Under(t, n)
  BY UnderClosed, UnderNodes, UnderLeast

LEMMA UnderSides ==
    ASSUME NEW t, Typed(t), NEW n \in Nodes
    PROVE  Under(t, n) = {n} \cup Under(t, t[n].lchild) \cup Under(t, t[n].rchild)
<1> DEFINE s == {n} \cup Under(t, t[n].lchild) \cup Under(t, t[n].rchild)
<1>1. s \in SUBSET Nodes
  BY UnderNodes
<1>2. Closed(t, s)
  <2> SUFFICES ASSUME NEW m \in s, NEW x \in Children(t, m) PROVE x \in s
    BY DEF Closed
  <2>1. CASE m = n
    BY <2>1, ChildTypes, UnderSelf DEF Children
  <2>2. CASE m \in Under(t, t[n].lchild)
    BY <2>2, UnderChild
  <2>3. CASE m \in Under(t, t[n].rchild)
    BY <2>3, UnderChild
  <2> QED BY <2>1, <2>2, <2>3
<1>3. Under(t, n) \subseteq s
  BY <1>1, <1>2, UnderLeast
<1>4. ASSUME NEW side \in {t[n].lchild, t[n].rchild} PROVE Under(t, side) \subseteq Under(t, n)
  <2>1. CASE side = Null
    BY <2>1, UnderNull
  <2>2. CASE side # Null
    <3>1. side \in Under(t, n)
      BY <2>2, UnderSelf, UnderChild DEF Children
    <3> QED BY <3>1, UnderTrans
  <2> QED BY <2>1, <2>2
<1> QED BY <1>3, <1>4, UnderSelf

-----------------------------------------------------------------------------------
(* Trees whose names are in order, up to copies that are about to go.        *)

\* The parts of ShapeOK that do not speak of names.
Shape(t) ==
    /\ t[Root].lchild = Null
    /\ \A n \in Under(t, Root) : Root \notin Children(t, n)
    /\ \A m, n \in Under(t, Root) : m # n => Children(t, m) \cap Children(t, n) = {}

Copied(t, copies) == \A n, m \in Nodes : <<n, m>> \in copies => n # m /\ t[n].name = t[m].name

GoodTree(t, copies) == Typed(t) /\ Shape(t) /\ Sorted(t, copies) /\ Copied(t, copies)

LEMMA NameTypes ==
    ASSUME NEW t, Typed(t), NEW n \in Nodes
    PROVE  t[n].name \in Nat
<1>1. t[n].name \in Keys \cup {0}
  BY DEF Typed, NodeTypes
<1>2. Keys \cup {0} \subseteq Nat
  BY PoolAssumption
<1> QED BY <1>1, <1>2

LEMMA LeftNames ==
    ASSUME NEW t, NEW copies, GoodTree(t, copies),
           NEW x \in Under(t, Root), NEW m \in Under(t, t[x].lchild)
    PROVE  x # Root /\ m \in Under(t, Root) /\ t[m].name < t[x].name
<1>0. Typed(t) /\ Shape(t)
  BY DEF GoodTree
<1>1. x # Root
  BY <1>0, UnderNull DEF Shape
<1>2. m \in Under(t, x) /\ x \in Nodes
  BY <1>0, UnderSides, UnderNodes
<1>3. m \in Under(t, Root)
  BY <1>0, <1>2, UnderTrans
<1> QED BY <1>1, <1>3 DEF GoodTree, Sorted

LEMMA RightNames ==
    ASSUME NEW t, NEW copies, GoodTree(t, copies),
           NEW x \in Under(t, Root), NEW m \in Under(t, t[x].rchild)
    PROVE  /\ m \in Under(t, Root)
           /\ x # Root => t[m].name > t[x].name \/ (<<x, m>> \in copies /\ t[m].name = t[x].name)
<1>0. Typed(t)
  BY DEF GoodTree
<1>2. m \in Under(t, x) /\ x \in Nodes /\ m \in Nodes
  BY <1>0, UnderSides, UnderNodes
<1>3. m \in Under(t, Root)
  BY <1>0, <1>2, UnderTrans
<1>4. x # Root => t[m].name > t[x].name \/ <<x, m>> \in copies
  BY DEF GoodTree, Sorted
<1> QED BY <1>2, <1>3, <1>4 DEF GoodTree, Copied

LEMMA RootAbove ==
    ASSUME NEW t, Typed(t), Shape(t), NEW n \in Under(t, Root), NEW x \in Children(t, n)
    PROVE  Root \notin Under(t, x)
<1> DEFINE s == Under(t, x) \ {Root}
<1>1. x \in Under(t, Root) /\ x # Root /\ x \in Nodes
  BY UnderChild, UnderNodes DEF Shape
<1>2. Closed(t, s)
  <2> SUFFICES ASSUME NEW m \in s, NEW y \in Children(t, m) PROVE y \in s
    BY DEF Closed
  <2>1. m \in Under(t, Root)
    BY <1>1, UnderTrans
  <2> QED BY <2>1, UnderChild DEF Shape
<1>3. x \in s /\ s \in SUBSET Nodes
  BY <1>1, UnderSelf, UnderNodes
<1> QED BY <1>2, <1>3, UnderLeast

LEMMA SelfAbove ==
    ASSUME NEW t, NEW copies, GoodTree(t, copies), NEW x \in Under(t, Root)
    PROVE  /\ x \notin Under(t, t[x].lchild) /\ x \notin Under(t, t[x].rchild)
           /\ x \notin Children(t, x)
<1>0. Typed(t) /\ Shape(t) /\ x \in Nodes
  BY UnderNodes DEF GoodTree
<1>1. t[x].name \in Nat
  BY <1>0, NameTypes
<1>2. x \notin Under(t, t[x].lchild)
  BY <1>1, LeftNames
<1>3. x \notin Under(t, t[x].rchild)
  <2>1. CASE x = Root
    <3>1. CASE t[x].rchild = Null
      BY <3>1, UnderNull
    <3>2. CASE t[x].rchild # Null
      <4>1. t[x].rchild \in Children(t, x)
        BY <3>2 DEF Children
      <4> QED BY <1>0, <2>1, <4>1, RootAbove
    <3> QED BY <3>1, <3>2
  <2>2. CASE x # Root
    <3>1. <<x, x>> \notin copies
      BY <1>0 DEF GoodTree, Copied
    <3> QED BY <1>1, <2>2, <3>1, RightNames
  <2> QED BY <2>1, <2>2
<1>4. x \notin Children(t, x)
  BY <1>0, <1>2, <1>3, UnderSelf DEF Children
<1> QED BY <1>2, <1>3, <1>4

LEMMA SidesApart ==
    ASSUME NEW t, NEW copies, GoodTree(t, copies), NEW x \in Under(t, Root),
           NEW a \in Under(t, t[x].lchild), NEW b \in Under(t, t[x].rchild)
    PROVE  t[a].name < t[b].name /\ a # b
<1>1. Typed(t) /\ a \in Nodes /\ b \in Nodes /\ x \in Nodes
  BY UnderNodes DEF GoodTree
<1>2. t[a].name \in Nat /\ t[b].name \in Nat /\ t[x].name \in Nat
  BY <1>1, NameTypes
<1>3. x # Root /\ t[a].name < t[x].name
  BY LeftNames
<1>4. t[b].name > t[x].name \/ t[b].name = t[x].name
  BY <1>3, RightNames
<1> QED BY <1>2, <1>3, <1>4

\* Nodes a and b are on different sides of x.
Parts(t, x, a, b) ==
    \/ a \in Under(t, t[x].lchild) /\ b \in Under(t, t[x].rchild)
    \/ a \in Under(t, t[x].rchild) /\ b \in Under(t, t[x].lchild)

LEMMA Branching ==
    ASSUME NEW t, Typed(t), NEW a \in Under(t, Root), NEW b \in Under(t, Root)
    PROVE  a \in Under(t, b) \/ b \in Under(t, a) \/ \E x \in Under(t, Root) : Parts(t, x, a, b)
<1> DEFINE near(y) == a \in Under(t, y) \/ y \in Under(t, a) \/ \E x \in Under(t, Root) : Parts(t, x, a, y)
<1> DEFINE s == {y \in Under(t, Root) : near(y)}
<1>1. Closed(t, s)
  <2> SUFFICES ASSUME NEW y \in s, NEW z \in Children(t, y) PROVE z \in s
    BY DEF Closed
  <2>0. /\ y \in Under(t, Root) /\ y \in Nodes /\ z \in Under(t, Root) /\ z \in Nodes /\ a \in Nodes
        /\ near(y)
    BY UnderNodes, UnderChild
  <2>z. z \in {t[y].lchild, t[y].rchild} /\ z \in Under(t, z)
    BY <2>0, UnderSelf DEF Children
  <2>1. CASE y \in Under(t, a)
    <3>1. z \in Under(t, a)
      BY <2>1, UnderChild
    <3> QED BY <2>0, <3>1
  <2>2. CASE a \in Under(t, y)
    <3>1. a = y \/ a \in Under(t, t[y].lchild) \/ a \in Under(t, t[y].rchild)
      BY <2>0, <2>2, UnderSides
    <3>2. CASE a = y
      <4>1. z \in Under(t, a)
        BY <2>0, <2>z, <3>2, UnderSides
      <4> QED BY <2>0, <4>1
    <3>3. CASE a \in Under(t, z)
      BY <2>0, <3>3
    <3>4. CASE a # y /\ a \notin Under(t, z)
      <4>1. Parts(t, y, a, z)
        BY <2>z, <3>1, <3>4 DEF Parts
      <4> QED BY <2>0, <4>1
    <3> QED BY <3>2, <3>3, <3>4
  <2>3. CASE \E x \in Under(t, Root) : Parts(t, x, a, y)
    <3>1. PICK x \in Under(t, Root) : Parts(t, x, a, y)
      BY <2>3
    <3>2. Parts(t, x, a, z)
      BY <3>1, UnderChild DEF Parts
    <3> QED BY <2>0, <3>2
  <2> QED BY <2>0, <2>1, <2>2, <2>3
<1>2. Root \in s /\ s \in SUBSET Nodes
  BY UnderSelf, UnderNodes, NodesFacts
<1>3. Under(t, Root) \subseteq s
  BY <1>1, <1>2, UnderLeast
<1> QED BY <1>3

LEMMA SameName ==
    ASSUME NEW t, NEW copies, GoodTree(t, copies),
           NEW a \in Under(t, Root) \ {Root}, NEW b \in Under(t, Root) \ {Root}, t[a].name = t[b].name
    PROVE  a = b \/ <<a, b>> \in copies \/ <<b, a>> \in copies
<1>0. Typed(t) /\ a \in Nodes /\ b \in Nodes
  BY UnderNodes DEF GoodTree
<1>1. t[a].name \in Nat /\ t[b].name \in Nat
  BY <1>0, NameTypes
<1>2. ASSUME NEW u \in Under(t, Root) \ {Root}, NEW v \in Under(t, u), t[u].name = t[v].name
      PROVE  u = v \/ <<u, v>> \in copies
  <2>1. v = u \/ v \in Under(t, t[u].lchild) \/ v \in Under(t, t[u].rchild)
    BY <1>0, UnderNodes, UnderSides
  <2>2. t[u].name \in Nat
    BY <1>0, UnderNodes, NameTypes
  <2> QED BY <1>2, <2>1, <2>2, LeftNames, RightNames
<1>3. ASSUME NEW x \in Under(t, Root) PROVE ~Parts(t, x, a, b)
  BY <1>1, SidesApart DEF Parts
<1> QED BY <1>0, <1>2, <1>3, Branching

LEMMA ParentBelow ==
    ASSUME NEW t, Typed(t), NEW r \in Nodes, NEW n \in Under(t, r) \ {r}
    PROVE  \E m \in Under(t, r) : n \in Children(t, m)
<1> DEFINE s == {r} \cup {x \in Under(t, r) : \E m \in Under(t, r) : x \in Children(t, m)}
<1>1. r \in Under(t, r)
  BY UnderSelf
<1>2. Closed(t, s)
  BY <1>1, UnderChild DEF Closed
<1>3. s \in SUBSET Nodes
  BY UnderNodes
<1> QED BY <1>2, <1>3, UnderLeast

LEMMA ParentExists ==
    ASSUME NEW t, Typed(t), NEW n \in Under(t, Root) \ {Root}
    PROVE  \E m \in Under(t, Root) : n \in Children(t, m)
  BY ParentBelow, NodesFacts

\* Whatever lies above a node, from x down, lies above its parent or is its parent.
LEMMA AboveParent ==
    ASSUME NEW t, Typed(t), Shape(t), NEW p \in Under(t, Root), NEW n \in Children(t, p),
           NEW x \in Under(t, Root), NEW side \in Children(t, x), n \in Under(t, side)
    PROVE  (x = p /\ n = side) \/ p \in Under(t, side)
<1>1. side \in Nodes /\ side \in Under(t, Root)
  BY UnderChild, UnderNodes
<1>2. CASE n = side
  BY <1>2 DEF Shape
<1>3. CASE n # side
  <2>1. PICK m \in Under(t, side) : n \in Children(t, m)
    BY <1>1, <1>3, ParentBelow
  <2>2. m \in Under(t, Root)
    BY <1>1, UnderTrans
  <2> QED BY <2>1, <2>2 DEF Shape
<1> QED BY <1>2, <1>3

-----------------------------------------------------------------------------------
(* How a tree changes.                                                       *)

SameSides(t, u, x) == u[x].lchild = t[x].lchild /\ u[x].rchild = t[x].rchild

LEMMA SameUnder ==
    ASSUME NEW t, NEW u, Typed(t), Typed(u),
           \A x \in Under(t, Root) : SameSides(t, u, x),
           NEW n \in Under(t, Root) \cup {Null}
    PROVE  Under(u, n) = Under(t, n)
<1>1. CASE n = Null
  BY <1>1, UnderNull
<1>2. CASE n # Null
  <2>1. Under(t, n) \subseteq Under(t, Root)
    BY <1>2, UnderTrans
  <2>2. \A x \in Under(t, n) : Children(u, x) = Children(t, x)
    BY <2>1 DEF SameSides, Children
  <2>3. Closed(u, Under(t, n))
    BY <2>2, UnderClosed DEF Closed
  <2>4. n \in Nodes /\ n \in Under(t, n) /\ n \in Under(u, n)
    BY <1>2, UnderNodes, UnderSelf
  <2>5. Under(u, n) \subseteq Under(t, n)
    BY <2>3, <2>4, UnderNodes, UnderLeast
  <2>6. Closed(t, Under(u, n))
    BY <2>2, <2>5, UnderClosed DEF Closed
  <2> QED BY <2>4, <2>5, <2>6, UnderNodes, UnderLeast
<1> QED BY <1>1, <1>2

\* In u node d is gone, and h, its only child if it has one, is in its place.
Cut(old, d, h) == IF old = d THEN h ELSE old
Without(t, u, d, h) ==
    /\ d \in Under(t, Root) \ {Root}
    /\ h \in Children(t, d) \cup {Null} /\ Children(t, d) \subseteq {h}
    /\ \A x \in Under(t, Root) \ {d} :
          u[x].lchild = Cut(t[x].lchild, d, h) /\ u[x].rchild = Cut(t[x].rchild, d, h)

LEMMA CutChildren ==
    ASSUME NEW t, NEW u, Typed(t), Typed(u), NEW d, NEW h, Without(t, u, d, h), d \notin Children(t, d),
           NEW x \in Under(t, Root) \ {d}
    PROVE  /\ Children(u, x) = (Children(t, x) \ {d}) \cup (IF d \in Children(t, x) THEN {h} \ {Null} ELSE {})
           /\ d \notin Children(u, x)
<1>0. d \in Nodes /\ d # Null
  BY UnderNodes, NodesFacts DEF Without
<1>1. h # d
  BY <1>0 DEF Without
<1>2. u[x].lchild = Cut(t[x].lchild, d, h) /\ u[x].rchild = Cut(t[x].rchild, d, h)
  BY DEF Without
<1>3. Children(t, x) = {t[x].lchild, t[x].rchild} \ {Null} /\ Children(u, x) = {u[x].lchild, u[x].rchild} \ {Null}
  BY DEF Children
<1> QED BY <1>0, <1>1, <1>2, <1>3 DEF Cut

LEMMA UnderWithout ==
    ASSUME NEW t, NEW u, Typed(t), Typed(u), NEW d, NEW h, Without(t, u, d, h), d \notin Children(t, d),
           NEW n \in (Under(t, Root) \ {d}) \cup {Null}
    PROVE  Under(u, n) = Under(t, n) \ {d}
<1>1. CASE n = Null
  BY <1>1, UnderNull
<1>2. CASE n # Null
  <2> DEFINE s == Under(t, n) \ {d}
  <2>0. n \in Nodes /\ n \in Under(t, n) /\ n \in Under(u, n) /\ n # d
    BY <1>2, UnderNodes, UnderSelf
  <2>1. Under(t, n) \subseteq Under(t, Root)
    BY <1>2, UnderTrans
  <2>2. Closed(u, s)
    <3> SUFFICES ASSUME NEW y \in s, NEW z \in Children(u, y) PROVE z \in s
      BY DEF Closed
    <3>1. z \in Children(t, y) \/ (d \in Children(t, y) /\ z = h /\ h # Null)
      BY <2>1, CutChildren
    <3>2. z # d
      BY <2>1, CutChildren
    <3>3. CASE z \in Children(t, y)
      BY <3>2, <3>3, UnderChild
    <3>4. CASE d \in Children(t, y) /\ z = h /\ h # Null
      <4>1. d \in Under(t, n) /\ z \in Children(t, d)
        BY <3>4, UnderChild DEF Without
      <4> QED BY <3>2, <4>1, UnderChild
    <3> QED BY <3>1, <3>3, <3>4
  <2>3. Under(u, n) \subseteq s
    BY <2>0, <2>2, UnderNodes, UnderLeast
  <2> DEFINE r == Under(u, n) \cup {z \in {d} : \E y \in Under(u, n) : z \in Children(t, y)}
  <2>4. Closed(t, r)
    <3> SUFFICES ASSUME NEW y \in r, NEW z \in Children(t, y) PROVE z \in r
      BY DEF Closed
    <3>1. CASE y \in Under(u, n)
      <4>1. z = d \/ z \in Children(u, y)
        BY <2>1, <2>3, <3>1, CutChildren
      <4> QED BY <3>1, <4>1, UnderChild
    <3>2. CASE y \notin Under(u, n)
      <4>1. PICK x \in Under(u, n) : d \in Children(t, x)
        BY <3>2
      <4>2. y = d /\ z = h /\ h # Null
        BY <3>2 DEF Without, Children
      <4>3. z \in Children(u, x)
        BY <2>1, <2>3, <4>1, <4>2, CutChildren
      <4> QED BY <4>3, UnderChild
    <3> QED BY <3>1, <3>2
  <2>5. r \in SUBSET Nodes /\ n \in r
    BY <2>0, UnderNodes DEF Without
  <2>6. Under(t, n) \subseteq r
    BY <2>4, <2>5, UnderLeast
  <2> QED BY <2>3, <2>6
<1> QED BY <1>1, <1>2

\* What lies to the left or to the right of a node that stays.
LEMMA SidesWithout ==
    ASSUME NEW t, NEW u, Typed(t), Typed(u), NEW d, NEW h, Without(t, u, d, h), d \notin Children(t, d),
           NEW n \in Under(t, Root) \ {d}
    PROVE  /\ Under(u, u[n].lchild) = Under(t, t[n].lchild) \ {d}
           /\ Under(u, u[n].rchild) = Under(t, t[n].rchild) \ {d}
<1>1. ASSUME NEW old \in {t[n].lchild, t[n].rchild} PROVE Under(u, Cut(old, d, h)) = Under(t, old) \ {d}
  <2>0. d \in Nodes /\ h # d /\ h \in Nodes \cup {Null}
    BY UnderNodes, NodesFacts, ChildTypes DEF Without
  <2>1. old \in Under(t, Root) \cup {Null}
    BY UnderChild DEF Children
  <2>2. CASE old # d
    BY <2>1, <2>2, UnderWithout DEF Cut
  <2>3. CASE old = d
    <3>1. h \in (Under(t, Root) \ {d}) \cup {Null}
      BY <2>0, UnderChild DEF Without
    <3>2. Under(u, h) = Under(t, h) \ {d}
      BY <3>1, UnderWithout
    <3>3. Under(t, d) \ {d} = Under(t, h) \ {d}
      <4>1. Under(t, d) = {d} \cup Under(t, t[d].lchild) \cup Under(t, t[d].rchild)
        BY <2>0, UnderSides
      <4>2. t[d].lchild \in {h, Null} /\ t[d].rchild \in {h, Null} /\ (h # Null => h \in {t[d].lchild, t[d].rchild})
        BY DEF Without, Children
      <4> QED BY <4>1, <4>2, UnderNull
    <3> QED BY <2>3, <3>2, <3>3 DEF Cut
  <2> QED BY <2>2, <2>3
<1> QED BY <1>1 DEF Without

LEMMA GoodWithout ==
    ASSUME NEW t, NEW copies, GoodTree(t, copies), NEW u, Typed(u), NEW d, NEW h, Without(t, u, d, h),
           \A x \in Under(t, Root) \ {d} : u[x].name = t[x].name,
           NEW kept, \A x, y \in Under(t, Root) \ {d} : <<x, y>> \in copies => <<x, y>> \in kept
    PROVE  Shape(u) /\ Sorted(u, kept)
<1>0. Typed(t) /\ Shape(t) /\ d \in Under(t, Root) /\ d \notin Children(t, d)
  BY SelfAbove DEF GoodTree, Without
<1>1. Under(u, Root) = Under(t, Root) \ {d} /\ Root \in Under(t, Root) \ {d}
  BY <1>0, UnderWithout, UnderSelf, NodesFacts DEF Without
<1>2. Shape(u)
  <2>0. \A x \in Under(t, Root) \ {d} :
           /\ Children(u, x) = (Children(t, x) \ {d}) \cup (IF d \in Children(t, x) THEN {h} \ {Null} ELSE {})
           /\ d \notin Children(u, x)
    BY <1>0, CutChildren
  <2>h. h # Null => h \in Children(t, d)
    BY DEF Without
  <2>1. u[Root].lchild = Null
    <3>1. d # Null
      BY UnderNodes, NodesFacts DEF Without
    <3> QED BY <1>0, <1>1, <3>1 DEF Shape, Without, Cut
  <2>2. \A x \in Under(u, Root) : Root \notin Children(u, x)
    BY <1>0, <1>1, <2>0, <2>h DEF Shape
  <2>3. ASSUME NEW x \in Under(u, Root), NEW y \in Under(u, Root), x # y, NEW z \in Children(u, x), z \in Children(u, y)
        PROVE  FALSE
    <3>1. Children(t, x) \cap Children(t, y) = {} /\ Children(t, x) \cap Children(t, d) = {}
          /\ Children(t, y) \cap Children(t, d) = {}
      BY <1>0, <1>1, <2>3 DEF Shape
    <3>2. z \in Children(t, x) \/ (d \in Children(t, x) /\ z = h /\ h # Null)
      BY <1>1, <2>0
    <3>3. z \in Children(t, y) \/ (d \in Children(t, y) /\ z = h /\ h # Null)
      BY <1>1, <2>0, <2>3
    <3> QED BY <2>h, <3>1, <3>2, <3>3
  <2> QED BY <2>1, <2>2, <2>3 DEF Shape
<1>3. ASSUME NEW n \in Under(u, Root) \ {Root}
      PROVE  /\ \A m \in Under(u, u[n].lchild) : u[m].name < u[n].name
             /\ \A m \in Under(u, u[n].rchild) : u[m].name > u[n].name \/ <<n, m>> \in kept
  <2>1. /\ Under(u, u[n].lchild) = Under(t, t[n].lchild) \ {d}
        /\ Under(u, u[n].rchild) = Under(t, t[n].rchild) \ {d}
    BY <1>0, <1>1, SidesWithout
  <2>2. \A m \in Under(u, u[n].lchild) : m \in Under(t, Root) \ {d} /\ t[m].name < t[n].name
    BY <1>1, <2>1, LeftNames
  <2>3. \A m \in Under(u, u[n].rchild) :
           m \in Under(t, Root) \ {d} /\ (t[m].name > t[n].name \/ <<n, m>> \in copies)
    BY <1>1, <2>1, RightNames
  <2> QED BY <1>1, <2>2, <2>3
<1> QED BY <1>2, <1>3 DEF Sorted

\* In u there is a new leaf below p.
With(t, u, p, new) ==
    /\ p \in Under(t, Root) /\ new \in Nodes \ Under(t, Root)
    /\ u[new].lchild = Null /\ u[new].rchild = Null
    /\ \A x \in Under(t, Root) \ {p} : SameSides(t, u, x)
    /\ \/ u[p].lchild = new /\ t[p].lchild = Null /\ u[p].rchild = t[p].rchild
       \/ u[p].rchild = new /\ t[p].rchild = Null /\ u[p].lchild = t[p].lchild

LEMMA WithChildren ==
    ASSUME NEW t, NEW u, Typed(t), Typed(u), NEW p, NEW new, With(t, u, p, new), NEW x \in Under(t, Root)
    PROVE  Children(u, x) = Children(t, x) \cup (IF x = p THEN {new} ELSE {})
<1>1. new # Null
  BY NodesFacts DEF With
<1> QED BY <1>1 DEF With, SameSides, Children

LEMMA UnderLeaf ==
    ASSUME NEW t, NEW u, Typed(t), Typed(u), NEW p, NEW new, With(t, u, p, new)
    PROVE  Under(u, new) = {new}
<1>1. Children(u, new) = {} /\ new \in Nodes
  BY DEF With, Children
<1>2. Closed(u, {new})
  BY <1>1 DEF Closed
<1> QED BY <1>1, <1>2, UnderLeast, UnderSelf

LEMMA UnderWith ==
    ASSUME NEW t, NEW u, Typed(t), Typed(u), NEW p, NEW new, With(t, u, p, new),
           NEW n \in Under(t, Root) \cup {Null}
    PROVE  Under(u, n) = Under(t, n) \cup (IF p \in Under(t, n) THEN {new} ELSE {})
<1>1. CASE n = Null
  BY <1>1, UnderNull
<1>2. CASE n # Null
  <2> DEFINE s == Under(t, n) \cup (IF p \in Under(t, n) THEN {new} ELSE {})
  <2>0. n \in Nodes /\ n \in Under(t, n) /\ n \in Under(u, n) /\ new \in Nodes
    BY <1>2, UnderNodes, UnderSelf DEF With
  <2>1. Under(t, n) \subseteq Under(t, Root)
    BY <1>2, UnderTrans
  <2>2. Closed(u, s)
    <3> SUFFICES ASSUME NEW y \in s, NEW z \in Children(u, y) PROVE z \in s
      BY DEF Closed
    <3>1. y # new
      BY DEF With, Children
    <3>2. z \in Children(t, y) \/ (y = p /\ z = new)
      BY <2>1, <3>1, WithChildren
    <3> QED BY <3>1, <3>2, UnderChild
  <2>3. Under(u, n) \subseteq s
    BY <2>0, <2>2, UnderNodes, UnderLeast
  <2>4. Closed(t, Under(u, n) \cap Under(t, n))
    <3> SUFFICES ASSUME NEW y \in Under(u, n) \cap Under(t, n), NEW z \in Children(t, y)
                 PROVE  z \in Under(u, n) \cap Under(t, n)
      BY DEF Closed
    <3>1. z \in Children(u, y)
      BY <2>1, WithChildren
    <3> QED BY <3>1, UnderChild
  <2>5. Under(t, n) \subseteq Under(u, n)
    BY <2>0, <2>4, UnderNodes, UnderLeast
  <2>6. ASSUME p \in Under(t, n) PROVE new \in Under(u, n)
    <3>1. new \in Children(u, p)
      BY <2>1, <2>6, WithChildren
    <3> QED BY <2>5, <2>6, <3>1, UnderChild
  <2> QED BY <2>3, <2>5, <2>6
<1> QED BY <1>1, <1>2

\* What lies to the left or to the right of a node that was there.
LEMMA SidesWith ==
    ASSUME NEW t, NEW u, Typed(t), Typed(u), NEW p, NEW new, With(t, u, p, new), NEW n \in Under(t, Root)
    PROVE  /\ \A m \in Under(u, u[n].lchild) :
                 \/ m \in Under(t, t[n].lchild)
                 \/ m = new /\ (p \in Under(t, t[n].lchild) \/ (n = p /\ u[p].lchild = new))
           /\ \A m \in Under(u, u[n].rchild) :
                 \/ m \in Under(t, t[n].rchild)
                 \/ m = new /\ (p \in Under(t, t[n].rchild) \/ (n = p /\ u[p].rchild = new))
<1>1. t[n].lchild \in Under(t, Root) \cup {Null} /\ t[n].rchild \in Under(t, Root) \cup {Null}
  BY UnderChild DEF Children
<1>2. u[n].lchild = t[n].lchild \/ (n = p /\ u[n].lchild = new)
  BY DEF With, SameSides
<1>3. u[n].rchild = t[n].rchild \/ (n = p /\ u[n].rchild = new)
  BY DEF With, SameSides
<1> QED BY <1>1, <1>2, <1>3, UnderWith, UnderLeaf

LEMMA GoodWith ==
    ASSUME NEW t, NEW copies, GoodTree(t, copies), NEW u, Typed(u), NEW p, NEW new, With(t, u, p, new),
           \A x \in Under(t, Root) : u[x].name = t[x].name,
           Fits(t, p, u[new].name),
           u[p].lchild = new => p # Root /\ u[new].name < t[p].name,
           u[p].rchild = new /\ p # Root => u[new].name > t[p].name,
           NEW kept, copies \subseteq kept
    PROVE  Shape(u) /\ Sorted(u, kept)
<1>0. Typed(t) /\ Shape(t) /\ p \in Under(t, Root) /\ new \notin Under(t, Root) /\ new \in Nodes
  BY DEF GoodTree, With
<1>1. Under(u, Root) = Under(t, Root) \cup {new} /\ Root \in Under(t, Root)
  BY <1>0, UnderWith, UnderSelf, NodesFacts
<1>2. Shape(u)
  <2>0. \A x \in Under(t, Root) : Children(u, x) = Children(t, x) \cup (IF x = p THEN {new} ELSE {})
    BY <1>0, WithChildren
  <2>1. u[Root].lchild = Null
    BY <1>0, <1>1 DEF Shape, With, SameSides
  <2>2. Children(u, new) = {}
    BY DEF With, Children
  <2>3. \A x \in Under(u, Root) : Root \notin Children(u, x)
    BY <1>0, <1>1, <2>0, <2>2 DEF Shape
  <2>4. \A x \in Under(t, Root) : new \notin Children(t, x)
    BY <1>0, UnderChild
  <2>5. ASSUME NEW x \in Under(u, Root), NEW y \in Under(u, Root), x # y
        PROVE  Children(u, x) \cap Children(u, y) = {}
    <3>1. CASE x = new \/ y = new
      BY <2>2, <3>1
    <3>2. CASE x # new /\ y # new
      <4>1. Children(t, x) \cap Children(t, y) = {}
        BY <1>0, <1>1, <2>5, <3>2 DEF Shape
      <4> QED BY <1>1, <2>0, <2>4, <2>5, <3>2, <4>1
    <3> QED BY <3>1, <3>2
  <2> QED BY <2>1, <2>3, <2>5 DEF Shape
<1>3. ASSUME NEW n \in Under(u, Root) \ {Root}
      PROVE  /\ \A m \in Under(u, u[n].lchild) : u[m].name < u[n].name
             /\ \A m \in Under(u, u[n].rchild) : u[m].name > u[n].name \/ <<n, m>> \in kept
  <2>1. CASE n = new
    BY <2>1, UnderNull DEF With
  <2>2. CASE n # new
    <3>0. n \in Under(t, Root) \ {Root} /\ u[n].name = t[n].name
      BY <1>1, <2>2
    <3>1. ASSUME NEW m \in Under(u, u[n].lchild) PROVE u[m].name < u[n].name
      <4>1. CASE m \in Under(t, t[n].lchild)
        BY <3>0, <4>1, LeftNames
      <4>2. CASE m = new /\ p \in Under(t, t[n].lchild)
        BY <3>0, <4>2 DEF Fits
      <4>3. CASE m = new /\ n = p /\ u[p].lchild = new
        BY <3>0, <4>3
      <4> QED BY <1>0, <3>0, <4>1, <4>2, <4>3, SidesWith
    <3>2. ASSUME NEW m \in Under(u, u[n].rchild) PROVE u[m].name > u[n].name \/ <<n, m>> \in kept
      <4>1. CASE m \in Under(t, t[n].rchild)
        BY <3>0, <4>1, RightNames
      <4>2. CASE m = new /\ p \in Under(t, t[n].rchild)
        BY <3>0, <4>2 DEF Fits
      <4>3. CASE m = new /\ n = p /\ u[p].rchild = new
        BY <3>0, <4>3
      <4> QED BY <1>0, <3>0, <4>1, <4>2, <4>3, SidesWith
    <3> QED BY <3>1, <3>2
  <2> QED BY <2>1, <2>2
<1> QED BY <1>2, <1>3 DEF Sorted

\* s leads from d to n, the leftmost node to the right of d.
Path(t, d, n, s) == Way(t, d, n, s) /\ d # Root /\ t[n].lchild = Null

LEMMA RightOfPath ==
    ASSUME NEW t, NEW copies, GoodTree(t, copies), NEW d, NEW n, NEW s, Path(t, d, n, s),
           NEW m \in Under(t, t[d].rchild)
    PROVE  m \in (s \ {d}) \cup {n} \/ \E x \in (s \ {d}) \cup {n} : m \in Under(t, t[x].rchild)
<1> DEFINE way == (s \ {d}) \cup {n}
<1> DEFINE right == Under(t, t[d].rchild)
<1> DEFINE r == {y \in right : y \in way \/ \E x \in way : y \in Under(t, t[x].rchild)}
<1>0. Typed(t) /\ d \in Under(t, Root) /\ d \notin right /\ d \in Nodes
  BY SelfAbove, UnderNodes DEF GoodTree, Path, Way
<1>1. t[d].rchild \in right
  <2>1. t[d].rchild # Null
    BY UnderNull DEF Path, Way
  <2> QED BY <1>0, <2>1, ChildTypes, UnderSelf
<1>2. Closed(t, r)
  <2> SUFFICES ASSUME NEW y \in r, NEW z \in Children(t, y) PROVE z \in r
    BY DEF Closed
  <2>1. z \in right /\ z # d /\ z # Null /\ z \in {t[y].lchild, t[y].rchild}
    BY <1>0, UnderChild DEF Children
  <2>2. CASE y \in way
    <3>1. CASE z = t[y].lchild
      BY <2>1, <2>2, <3>1 DEF Path, Way
    <3>2. CASE z = t[y].rchild
      <4>1. z \in Under(t, t[y].rchild)
        BY <2>1, <3>2, UnderSelf, UnderNodes
      <4> QED BY <2>1, <2>2, <4>1
    <3> QED BY <2>1, <3>1, <3>2
  <2>3. CASE \E x \in way : y \in Under(t, t[x].rchild)
    BY <1>0, <2>1, <2>3, UnderChild
  <2> QED BY <2>2, <2>3
<1>3. t[d].rchild \in r /\ r \in SUBSET Nodes
  <2>1. t[d].rchild \in way
    BY <1>0, <1>1 DEF Path, Way
  <2> QED BY <1>1, <2>1, UnderNodes
<1>4. right \subseteq r
  BY <1>2, <1>3, UnderLeast
<1> QED BY <1>4

\* No copy is under way from a node of s or n, nor to d or n.
Untouched(copies, d, n, s) ==
    /\ \A y \in s \cup {n}, m \in Nodes : <<y, m>> \notin copies
    /\ \A x \in Nodes : <<x, d>> \notin copies /\ <<x, n>> \notin copies

LEMMA LeftmostName ==
    ASSUME NEW t, NEW copies, GoodTree(t, copies), NEW d, NEW n, NEW s, Path(t, d, n, s),
           Untouched(copies, d, n, s), NEW m \in Under(t, t[d].rchild)
    PROVE  m = n \/ t[m].name > t[n].name
<1>0. Typed(t) /\ d \in Under(t, Root) /\ n \in Under(t, Root) /\ s \subseteq Under(t, Root)
      /\ m \in Under(t, Root)
  BY RightNames DEF GoodTree, Path, Way
<1>1. \A x \in (s \ {d}) \cup {n} : x \in Under(t, Root) \ {Root} /\ t[x].name \in Nat /\ (x = n \/ t[x].name > t[n].name)
  <2>1. Root \notin Under(t, t[d].rchild)
    <3>1. t[d].rchild # Null
      BY UnderNull DEF Path, Way
    <3>2. t[d].rchild \in Children(t, d)
      BY <3>1 DEF Children
    <3> QED BY <1>0, <3>2, RootAbove DEF GoodTree
  <2> QED BY <1>0, <2>1, UnderNodes, NameTypes DEF Path, Way
<1>2. CASE m \in (s \ {d}) \cup {n}
  BY <1>1, <1>2
<1>3. ASSUME NEW x \in (s \ {d}) \cup {n}, m \in Under(t, t[x].rchild) PROVE t[m].name > t[n].name
  <2>1. <<x, m>> \notin copies
    BY <1>0, UnderNodes DEF Untouched
  <2>2. t[m].name > t[x].name
    BY <1>1, <1>3, <2>1, RightNames
  <2>3. t[m].name \in Nat /\ t[x].name \in Nat /\ t[n].name \in Nat
    BY <1>0, <1>1, UnderNodes, NameTypes
  <2> QED BY <1>1, <2>2, <2>3
<1> QED BY <1>2, <1>3, RightOfPath

\* In u node d has the name of n.
Renamed(t, u, d, n) ==
    /\ \A x \in Under(t, Root) : SameSides(t, u, x)
    /\ \A x \in Under(t, Root) \ {d} : u[x].name = t[x].name
    /\ u[d].name = t[n].name

LEMMA GoodRenamed ==
    ASSUME NEW t, NEW copies, GoodTree(t, copies), NEW d, NEW n, NEW s, Path(t, d, n, s),
           Untouched(copies, d, n, s), NEW u, Typed(u), Renamed(t, u, d, n),
           NEW kept, copies \subseteq kept, <<d, n>> \in kept
    PROVE  Shape(u) /\ Sorted(u, kept)
<1>0. /\ Typed(t) /\ Shape(t) /\ d \in Under(t, Root) \ {Root} /\ n \in Under(t, Root)
      /\ Root \in Under(t, Root) /\ d # n
  BY RightNames, UnderSelf, NodesFacts DEF GoodTree, Path, Way
<1>1. \A x \in Under(t, Root) \cup {Null} : Under(u, x) = Under(t, x)
  BY <1>0, SameUnder DEF Renamed
<1>2. \A x \in Under(t, Root) : SameSides(t, u, x) /\ Children(u, x) = Children(t, x)
  BY DEF Renamed, SameSides, Children
<1>3. Shape(u)
  BY <1>0, <1>1, <1>2 DEF Shape, SameSides
<1>n. \A x \in Under(t, Root) : t[x].name \in Nat
  BY <1>0, UnderNodes, NameTypes
<1>d. t[n].name > t[d].name
  <2>1. <<d, n>> \notin copies
    BY <1>0, UnderNodes DEF Untouched
  <2> QED BY <1>0, <2>1, RightNames DEF Path, Way
<1>4. ASSUME NEW x \in Under(t, Root) \ {Root}
      PROVE  /\ \A m \in Under(t, t[x].lchild) : u[m].name < u[x].name
             /\ \A m \in Under(t, t[x].rchild) : u[m].name > u[x].name \/ <<x, m>> \in kept
  <2>1. CASE x = d
    <3>1. ASSUME NEW m \in Under(t, t[x].lchild) PROVE u[m].name < u[x].name
      <4>1. m # d /\ m \in Under(t, Root) /\ t[m].name < t[d].name
        BY <1>0, <2>1, LeftNames, SelfAbove
      <4> QED BY <1>0, <1>n, <1>d, <2>1, <4>1 DEF Renamed
    <3>2. ASSUME NEW m \in Under(t, t[x].rchild) PROVE u[m].name > u[x].name \/ <<x, m>> \in kept
      <4>1. m # d /\ m \in Under(t, Root)
        BY <1>0, <2>1, RightNames, SelfAbove
      <4>2. m = n \/ t[m].name > t[n].name
        BY <2>1, LeftmostName
      <4> QED BY <2>1, <4>1, <4>2 DEF Renamed
    <3> QED BY <3>1, <3>2
  <2>2. CASE x # d
    <3>0. u[x].name = t[x].name /\ t[x].name \in Nat
      BY <1>n, <2>2 DEF Renamed
    <3>d. ASSUME NEW side \in {t[x].lchild, t[x].rchild}, d \in Under(t, side) PROVE n \in Under(t, side)
      <4>1. n \in Under(t, d)
        BY <1>0, UnderSides, UnderNodes DEF Path, Way
      <4> QED BY <1>0, <3>d, <4>1, UnderTrans
    <3>1. ASSUME NEW m \in Under(t, t[x].lchild) PROVE u[m].name < u[x].name
      <4>1. CASE m = d
        BY <1>0, <3>0, <3>d, <4>1, LeftNames DEF Renamed
      <4>2. CASE m # d
        BY <3>0, <4>2, LeftNames DEF Renamed
      <4> QED BY <4>1, <4>2
    <3>2. ASSUME NEW m \in Under(t, t[x].rchild) PROVE u[m].name > u[x].name \/ <<x, m>> \in kept
      <4>1. CASE m = d
        <5>1. <<x, n>> \notin copies
          BY UnderNodes DEF Untouched
        <5>2. t[n].name > t[x].name
          BY <3>d, <4>1, <5>1, RightNames
        <5> QED BY <3>0, <4>1, <5>2 DEF Renamed
      <4>2. CASE m # d
        <5>1. t[m].name > t[x].name \/ <<x, m>> \in copies
          BY RightNames
        <5>2. u[m].name = t[m].name
          BY <4>2, RightNames DEF Renamed
        <5> QED BY <3>0, <5>1, <5>2
      <4> QED BY <4>1, <4>2
    <3> QED BY <3>1, <3>2
  <2> QED BY <2>1, <2>2
<1>5. Sorted(u, kept)
  <2> SUFFICES ASSUME NEW x \in Under(u, Root) \ {Root}
               PROVE  /\ \A m \in Under(u, u[x].lchild) : u[m].name < u[x].name
                      /\ \A m \in Under(u, u[x].rchild) : u[m].name > u[x].name \/ <<x, m>> \in kept
    BY DEF Sorted
  <2>1. x \in Under(t, Root) \ {Root}
    BY <1>0, <1>1
  <2>2. t[x].lchild \in Under(t, Root) \cup {Null} /\ t[x].rchild \in Under(t, Root) \cup {Null}
    BY <1>0, <2>1, UnderChild DEF Children
  <2>3. Under(u, u[x].lchild) = Under(t, t[x].lchild) /\ Under(u, u[x].rchild) = Under(t, t[x].rchild)
    BY <1>1, <1>2, <2>1, <2>2 DEF SameSides
  <2> QED BY <1>4, <2>1, <2>3
<1> QED BY <1>3, <1>5

-----------------------------------------------------------------------------------
(* What the others rely on survives such changes.                            *)

LEMMA FitsSame ==
    ASSUME NEW t, NEW u, Typed(t), Typed(u),
           \A x \in Under(t, Root) : SameSides(t, u, x) /\ u[x].name = t[x].name,
           NEW p, NEW k, Fits(t, p, k)
    PROVE  Fits(u, p, k)
<1>1. \A x \in Under(t, Root) \cup {Null} : Under(u, x) = Under(t, x)
  BY SameUnder
<1>2. Root \in Under(t, Root)
  BY UnderSelf, NodesFacts
<1> SUFFICES ASSUME NEW x \in Under(u, Root) \ {Root}
             PROVE  /\ p \in Under(u, u[x].lchild) => k < u[x].name
                    /\ p \in Under(u, u[x].rchild) => k > u[x].name
  BY DEF Fits
<1>3. x \in Under(t, Root) \ {Root}
  BY <1>1, <1>2
<1>4. t[x].lchild \in Under(t, Root) \cup {Null} /\ t[x].rchild \in Under(t, Root) \cup {Null}
  BY <1>3, UnderChild DEF Children
<1>5. Under(u, u[x].lchild) = Under(t, t[x].lchild) /\ Under(u, u[x].rchild) = Under(t, t[x].rchild)
  BY <1>1, <1>3, <1>4 DEF SameSides
<1> QED BY <1>3, <1>5 DEF Fits

LEMMA FitsWithout ==
    ASSUME NEW t, NEW copies, GoodTree(t, copies), NEW u, Typed(u), NEW d, NEW h, Without(t, u, d, h),
           \A x \in Under(t, Root) \ {d} : u[x].name = t[x].name,
           NEW p, NEW k, Fits(t, p, k)
    PROVE  Fits(u, p, k)
<1>0. Typed(t) /\ d \in Under(t, Root) /\ d \notin Children(t, d)
  BY SelfAbove DEF GoodTree, Without
<1>1. Under(u, Root) = Under(t, Root) \ {d}
  BY <1>0, UnderWithout, UnderSelf, NodesFacts DEF Without
<1> SUFFICES ASSUME NEW x \in Under(u, Root) \ {Root}
             PROVE  /\ p \in Under(u, u[x].lchild) => k < u[x].name
                    /\ p \in Under(u, u[x].rchild) => k > u[x].name
  BY DEF Fits
<1>2. /\ Under(u, u[x].lchild) = Under(t, t[x].lchild) \ {d}
      /\ Under(u, u[x].rchild) = Under(t, t[x].rchild) \ {d}
  BY <1>0, <1>1, SidesWithout
<1> QED BY <1>1, <1>2 DEF Fits

LEMMA FitsWith ==
    ASSUME NEW t, NEW u, Typed(t), Typed(u), NEW p, NEW new, With(t, u, p, new),
           \A x \in Under(t, Root) : u[x].name = t[x].name,
           NEW q \in Under(t, Root), NEW k, Fits(t, q, k)
    PROVE  Fits(u, q, k)
<1>0. Under(u, Root) = Under(t, Root) \cup {new} /\ new \notin Under(t, Root) /\ p \in Under(t, Root)
  BY UnderWith, UnderSelf, NodesFacts DEF With
<1> SUFFICES ASSUME NEW x \in Under(u, Root) \ {Root}
             PROVE  /\ q \in Under(u, u[x].lchild) => k < u[x].name
                    /\ q \in Under(u, u[x].rchild) => k > u[x].name
  BY DEF Fits
<1>1. CASE x = new
  BY <1>1, UnderNull DEF With
<1>2. CASE x # new
  <2>1. x \in Under(t, Root) \ {Root} /\ q # new
    BY <1>0, <1>2
  <2>2. q \in Under(u, u[x].lchild) => q \in Under(t, t[x].lchild)
    BY <2>1, SidesWith
  <2>3. q \in Under(u, u[x].rchild) => q \in Under(t, t[x].rchild)
    BY <2>1, SidesWith
  <2> QED BY <2>1, <2>2, <2>3 DEF Fits
<1> QED BY <1>1, <1>2

LEMMA FitsRenamed ==
    ASSUME NEW t, NEW copies, GoodTree(t, copies), NEW d, NEW n, NEW s, Path(t, d, n, s),
           Untouched(copies, d, n, s), NEW u, Typed(u), Renamed(t, u, d, n),
           NEW p \in Under(t, Root) \ (s \cup {n}), NEW k \in Nat, Fits(t, p, k)
    PROVE  Fits(u, p, k)
<1>0. Typed(t) /\ d \in Under(t, Root) \ {Root} /\ n \in Under(t, Root) /\ Root \in Under(t, Root)
  BY RightNames, UnderSelf, NodesFacts DEF GoodTree, Path, Way
<1>1. \A x \in Under(t, Root) \cup {Null} : Under(u, x) = Under(t, x)
  BY <1>0, SameUnder DEF Renamed
<1>n. \A x \in Under(t, Root) : t[x].name \in Nat
  BY <1>0, UnderNodes, NameTypes
<1> SUFFICES ASSUME NEW x \in Under(u, Root) \ {Root}
             PROVE  /\ p \in Under(u, u[x].lchild) => k < u[x].name
                    /\ p \in Under(u, u[x].rchild) => k > u[x].name
  BY DEF Fits
<1>2. x \in Under(t, Root) \ {Root}
  BY <1>0, <1>1
<1>3. t[x].lchild \in Under(t, Root) \cup {Null} /\ t[x].rchild \in Under(t, Root) \cup {Null}
  BY <1>0, <1>2, UnderChild DEF Children
<1>4. Under(u, u[x].lchild) = Under(t, t[x].lchild) /\ Under(u, u[x].rchild) = Under(t, t[x].rchild)
  BY <1>1, <1>2, <1>3 DEF SameSides, Renamed
<1>5. CASE x # d
  BY <1>2, <1>4, <1>5 DEF Fits, Renamed
<1>6. CASE x = d
  <2>1. u[x].name = t[n].name /\ t[n].name > t[d].name
    <3>1. <<d, n>> \notin copies
      BY <1>0, UnderNodes DEF Untouched
    <3> QED BY <1>0, <1>6, <3>1, RightNames DEF Path, Way, Renamed
  <2>2. ASSUME p \in Under(t, t[d].lchild) PROVE k < t[n].name
    BY <1>0, <1>n, <2>1, <2>2 DEF Fits
  <2>3. ASSUME p \in Under(t, t[d].rchild) PROVE k > t[n].name
    <3>1. PICK y \in (s \ {d}) \cup {n} : p \in Under(t, t[y].rchild)
      BY <2>3, RightOfPath
    <3>2. y \in Under(t, t[d].rchild) /\ (y = n \/ t[y].name > t[n].name)
      BY DEF Path, Way
    <3>3. y \in Under(t, Root) /\ y # Root
      <4>1. t[d].rchild # Null
        BY UnderNull DEF Path, Way
      <4>2. t[d].rchild \in Children(t, d)
        BY <4>1 DEF Children
      <4>3. Root \notin Under(t, t[d].rchild)
        BY <1>0, <4>2, RootAbove DEF GoodTree
      <4> QED BY <1>0, <3>2, <4>3, RightNames
    <3>4. k > t[y].name
      BY <3>1, <3>3 DEF Fits
    <3> QED BY <1>0, <1>n, <3>2, <3>3, <3>4
  <2> QED BY <1>4, <1>6, <2>1, <2>2, <2>3
<1> QED BY <1>5, <1>6

LEMMA WaySame ==
    ASSUME NEW t, NEW u, Typed(t), Typed(u), NEW d \in Under(t, Root), NEW n, NEW s, Way(t, d, n, s),
           \A x \in Under(t, Root) : SameSides(t, u, x),
           \A x \in (s \ {d}) \cup {n} : u[x].name = t[x].name
    PROVE  Way(u, d, n, s)
<1>1. \A x \in Under(t, Root) \cup {Null} : Under(u, x) = Under(t, x)
  BY SameUnder
<1>2. Root \in Under(t, Root) /\ t[d].rchild \in Under(t, Root) \cup {Null}
  BY UnderSelf, NodesFacts, UnderChild DEF Children
<1>3. Under(u, Root) = Under(t, Root) /\ Under(u, u[d].rchild) = Under(t, t[d].rchild)
  BY <1>1, <1>2 DEF SameSides
<1>4. \A x \in Under(t, Root) : Children(u, x) = Children(t, x)
  BY DEF SameSides, Children
<1> QED BY <1>3, <1>4 DEF Way, SameSides

LEMMA WayWithout ==
    ASSUME NEW t, NEW copies, GoodTree(t, copies), NEW u, Typed(u), NEW e, NEW h, Without(t, u, e, h),
           NEW d \in Under(t, Root), NEW n, NEW s, Way(t, d, n, s), e \notin s \cup {n},
           \A x \in s \cup {n} : u[x].name = t[x].name
    PROVE  Way(u, d, n, s)
<1>0. Typed(t) /\ e \in Under(t, Root) /\ e \notin Children(t, e) /\ e # d /\ d \in Under(t, Root) \ {e}
  BY SelfAbove DEF GoodTree, Without, Way
<1>1. Under(u, Root) = Under(t, Root) \ {e} /\ Under(u, u[d].rchild) = Under(t, t[d].rchild) \ {e}
  BY <1>0, UnderWithout, SidesWithout, UnderSelf, NodesFacts DEF Without
<1>2. \A y \in s : u[y].lchild = Cut(t[y].lchild, e, h) /\ u[y].rchild = Cut(t[y].rchild, e, h)
  BY DEF Without, Way
<1>3. \A y \in s \ {d} : u[y].lchild \in s \cup {n}
  BY <1>2 DEF Way, Cut
<1>4. u[d].rchild \in s \cup {n}
  BY <1>2 DEF Way, Cut
<1>5. ASSUME NEW y \in s \ {d} PROVE \E x \in s : y \in Children(u, x)
  <2>1. PICK x \in s : y \in Children(t, x)
    BY DEF Way
  <2>2. x \in Under(t, Root) \ {e} /\ y # e
    BY DEF Way
  <2>3. y \in Children(u, x)
    BY <1>0, <2>1, <2>2, CutChildren
  <2> QED BY <2>3
<1>6. d \in s /\ s \subseteq Under(u, Root) /\ n \in Under(u, u[d].rchild) \ s
  BY <1>1 DEF Way
<1>7. \A y \in s \ {d} : y \in Under(u, u[d].rchild) /\ u[y].name > u[n].name
  BY <1>1 DEF Way
<1> QED BY <1>3, <1>4, <1>5, <1>6, <1>7 DEF Way

LEMMA WayWith ==
    ASSUME NEW t, NEW u, Typed(t), Typed(u), NEW p, NEW new, With(t, u, p, new),
           NEW d \in Under(t, Root), NEW n, NEW s, Way(t, d, n, s), p \notin s,
           \A x \in s \cup {n} : u[x].name = t[x].name
    PROVE  Way(u, d, n, s)
<1>1. Root \in Under(t, Root) /\ t[d].rchild \in Under(t, Root) \cup {Null} /\ d # p
  BY UnderSelf, NodesFacts, UnderChild DEF Children, Way
<1>2. \A y \in s : u[y].lchild = t[y].lchild /\ u[y].rchild = t[y].rchild /\ Children(u, y) = Children(t, y)
  BY DEF With, SameSides, Way, Children
<1>3. Under(t, Root) \subseteq Under(u, Root) /\ Under(t, t[d].rchild) \subseteq Under(u, u[d].rchild)
  BY <1>1, <1>2, UnderWith DEF Way
<1> QED BY <1>2, <1>3 DEF Way

\* The search goes on below p.
LEMMA FitsChild ==
    ASSUME NEW t, NEW copies, GoodTree(t, copies), NEW p \in Under(t, Root), NEW k \in Nat,
           Fits(t, p, k), p # Root => t[p].name # k, NEW n \in Children(t, p),
           n = IF k < t[p].name THEN t[p].lchild ELSE t[p].rchild
    PROVE  Fits(t, n, k)
<1>0. Typed(t) /\ Shape(t) /\ p \in Nodes /\ t[p].name \in Nat /\ n \in Under(t, n)
  BY UnderNodes, NameTypes, ChildTypes, UnderSelf DEF GoodTree
<1> SUFFICES ASSUME NEW x \in Under(t, Root) \ {Root}
             PROVE  /\ n \in Under(t, t[x].lchild) => k < t[x].name
                    /\ n \in Under(t, t[x].rchild) => k > t[x].name
  BY DEF Fits
<1>1. \A side \in {t[x].lchild, t[x].rchild} : n \in Under(t, side) => side \in Children(t, x)
  BY UnderNull DEF Children
<1>2. ASSUME n \in Under(t, t[x].lchild) PROVE k < t[x].name
  <2>1. CASE p \in Under(t, t[x].lchild)
    BY <2>1 DEF Fits
  <2>2. CASE x = p /\ n = t[x].lchild
    <3>1. n # t[p].rchild
      BY <1>0, <1>2, <2>2, SidesApart
    <3> QED BY <2>2, <3>1
  <2> QED BY <1>0, <1>1, <1>2, <2>1, <2>2, AboveParent
<1>3. ASSUME n \in Under(t, t[x].rchild) PROVE k > t[x].name
  <2>1. CASE p \in Under(t, t[x].rchild)
    BY <2>1 DEF Fits
  <2>2. CASE x = p /\ n = t[x].rchild
    <3>1. n # t[p].lchild
      BY <1>0, <1>3, <2>2, SidesApart
    <3>2. ~(k < t[p].name) /\ t[p].name # k
      BY <2>2, <3>1
    <3> QED BY <1>0, <2>2, <3>2
  <2> QED BY <1>0, <1>1, <1>3, <2>1, <2>2, AboveParent
<1> QED BY <1>2, <1>3

LEMMA GoodSame ==
    ASSUME NEW t, NEW copies, GoodTree(t, copies), NEW u, Typed(u),
           \A x \in Under(t, Root) : SameSides(t, u, x) /\ u[x].name = t[x].name
    PROVE  Shape(u) /\ Sorted(u, copies) /\ Under(u, Root) = Under(t, Root)
<1>0. Typed(t) /\ Shape(t) /\ Root \in Under(t, Root)
  BY UnderSelf, NodesFacts DEF GoodTree
<1>1. \A x \in Under(t, Root) \cup {Null} : Under(u, x) = Under(t, x)
  BY <1>0, SameUnder
<1>2. \A x \in Under(t, Root) : Children(u, x) = Children(t, x)
  BY DEF SameSides, Children
<1>3. Shape(u)
  BY <1>0, <1>1, <1>2 DEF Shape, SameSides
<1>4. ASSUME NEW n \in Under(t, Root) \ {Root}
      PROVE  /\ \A m \in Under(u, u[n].lchild) : u[m].name < u[n].name
             /\ \A m \in Under(u, u[n].rchild) : u[m].name > u[n].name \/ <<n, m>> \in copies
  <2>1. t[n].lchild \in Under(t, Root) \cup {Null} /\ t[n].rchild \in Under(t, Root) \cup {Null}
    BY <1>0, UnderChild DEF Children
  <2>2. Under(u, u[n].lchild) = Under(t, t[n].lchild) /\ Under(u, u[n].rchild) = Under(t, t[n].rchild)
    BY <1>1, <2>1 DEF SameSides
  <2>3. /\ \A m \in Under(t, t[n].lchild) : m \in Under(t, Root) /\ t[m].name < t[n].name
        /\ \A m \in Under(t, t[n].rchild) : m \in Under(t, Root)
    BY LeftNames, RightNames
  <2>4. \A m \in Under(t, t[n].rchild) : t[m].name > t[n].name \/ <<n, m>> \in copies
    BY DEF GoodTree, Sorted
  <2> QED BY <2>2, <2>3, <2>4
<1> QED BY <1>0, <1>1, <1>3, <1>4 DEF Sorted

-----------------------------------------------------------------------------------
(* What the invariant says of one state.                                     *)

LEMMA GoodNow ==
    ASSUME DbInv
    PROVE  GoodTree(node, Copies) /\ Typed(node) /\ Shape(node) /\ Root \in InTree /\ InTree \subseteq Nodes
<1>1. Typed(node) /\ Shape(node)
  BY DEF DbInv, TypeOK, ShapeOK, Typed, Shape, InTree
<1>2. Copied(node, Copies)
  <2> SUFFICES ASSUME NEW n \in Nodes, NEW m \in Nodes, <<n, m>> \in Copies
               PROVE  n # m /\ node[n].name = node[m].name
    BY DEF Copied
  <2>1. PICK c \in Clients : Pc(c) = "unhook" /\ n = frame[c].target /\ m = frame[c].next
    BY DEF Copies
  <2>2. WalkOK(c) /\ UnhookOK(c)
    BY DEF DbInv
  <2>3. n # m
    BY <2>1, <2>2 DEF WalkOK, Chain, Way
  <2> QED BY <2>1, <2>2, <2>3 DEF UnhookOK
<1> QED BY <1>1, <1>2, UnderSelf, UnderNodes, NodesFacts DEF DbInv, GoodTree, InTree

LEMMA FrameFacts ==
    ASSUME FramesOK, NEW c \in Clients
    PROVE  /\ frame[c] \in FrameTypes /\ FrameOK(frame[c], answer[c])
           /\ Pc(c) # "idle" => /\ frame[c].req \in AllRequests
                                /\ Op(c) \in {"q", "a", "d"}
                                /\ Key(c) \in Keys /\ Key(c) \in Nat \ {0} /\ frame[c].req.val \in Keys
<1>1. frame[c] \in FrameTypes /\ FrameOK(frame[c], answer[c])
  BY DEF FramesOK
<1>2. frame[c].req \in AllRequests \cup {Absent}
  BY <1>1 DEF FrameTypes
<1>3. Pc(c) # "idle" => frame[c].req \in AllRequests
  BY <1>1, <1>2 DEF FrameOK, Pc
<1>4. \A r \in AllRequests : r.op \in {"q", "a", "d"} /\ r.key \in Keys /\ r.val \in Keys
  BY RequestAssumption
<1>5. Keys \subseteq Nat \ {0}
  BY PoolAssumption
<1> QED BY <1>1, <1>3, <1>4, <1>5 DEF Op, Key

LEMMA HeldNames ==
    ASSUME DbInv, NEW c \in Clients
    PROVE  Held(c) \subseteq Names(c) /\ Held(c) \subseteq InTree
<1>1. SearchOK(c) /\ FoundOK(c) /\ WalkOK(c)
  BY DEF DbInv
<1>2. Null \notin InTree
  BY GoodNow, NodesFacts
<1>3. Held(c) \subseteq InTree
  BY <1>1 DEF SearchOK, FoundOK, WalkOK, Held
<1>4. Held(c) \subseteq {frame[c].parent, frame[c].target, frame[c].next}
  BY DEF Held
<1> QED BY <1>2, <1>3, <1>4 DEF Names

\* What an update has locked nobody else has.
LEMMA HeldApart ==
    ASSUME DbInv, NEW c \in Clients, NEW d \in Clients \ {c}, Op(c) # "q", NEW n \in Held(c)
    PROVE  n \notin Held(d)
<1>1. n \in Nodes
  BY HeldNames, GoodNow
<1>2. writer[n] = c /\ c # Absent
  BY RequestAssumption DEF DbInv, LocksOK
<1>3. readers[n] = {}
  BY <1>1, <1>2 DEF DbInv, LocksOK
<1>4. n \notin {x \in Nodes : writer[x] = d \/ d \in readers[x]}
  BY <1>2, <1>3
<1> QED BY <1>4 DEF DbInv, TypeOK

\* And nobody has a pointer to it.
LEMMA NamesApart ==
    ASSUME DbInv, NEW c \in Clients, NEW d \in Clients \ {c}, Op(c) # "q", NEW n \in Held(c)
    PROVE  n \notin Names(d)
<1>1. n \notin Held(d) /\ n \in InTree /\ n \in Names(c) /\ n # Null
  BY HeldApart, HeldNames, GoodNow, NodesFacts
<1>2. FrameOK(frame[d], answer[d]) /\ frame[d] \in FrameTypes
  BY FrameFacts DEF DbInv
<1>3. CASE Pc(d) \in {"walk", "unhook"}
  <2>1. PICK s : Chain(d, s)
    BY <1>3 DEF DbInv, WalkOK
  <2>2. n # frame[d].pnext
    BY <1>1, <2>1 DEF Chain
  <2> QED BY <1>1, <1>3, <2>2 DEF Names, Held
<1>4. CASE Pc(d) = "destroy"
  <2>1. frame[d].next \in Unlinked
    BY <1>4 DEF Unlinked
  <2>2. n # frame[d].next
    BY <1>1, <2>1 DEF DbInv, AllocOK
  <2> QED BY <1>1, <1>2, <1>4, <2>2 DEF Names, FrameOK, Pc
<1>5. CASE Pc(d) \notin {"walk", "unhook", "destroy"}
  BY <1>1, <1>2, <1>5 DEF Names, Held, FrameOK, Pc
<1> QED BY <1>3, <1>4, <1>5

\* A node that is free to be locked for writing, below one that c has, is in nobody's chain.
LEMMA NotInChain ==
    ASSUME DbInv, NEW c \in Clients, NEW p \in Names(c) \cap InTree, NEW n \in Children(node, p),
           writer[n] = Absent, NEW d \in Clients \ {c}, NEW s, Chain(d, s), Pc(d) \in {"walk", "unhook"}
    PROVE  n \notin s
<1> SUFFICES ASSUME n \in s PROVE FALSE
  OBVIOUS
<1>1. p \notin s
  BY DEF Chain
<1>2. n # frame[d].target
  <2>1. frame[d].target \in Held(d) /\ Op(d) = "d"
    BY FrameFacts DEF Held, Op, Pc, FrameOK, DbInv
  <2>2. writer[frame[d].target] = d /\ d # Absent
    BY <2>1, RequestAssumption DEF DbInv, LocksOK
  <2> QED BY <2>2
<1>3. PICK x \in s : n \in Children(node, x)
  BY <1>2 DEF Chain, Way
<1>4. x \in InTree
  BY DEF Chain, Way, InTree
<1> QED BY <1>1, <1>3, <1>4 DEF DbInv, ShapeOK

LEMMA RootNotInChain ==
    ASSUME DbInv, NEW d \in Clients, NEW s, Chain(d, s), Pc(d) \in {"walk", "unhook"}
    PROVE  Root \notin s
<1>1. frame[d].target # Root
  BY DEF DbInv, WalkOK
<1>2. \A x \in s \ {frame[d].target} : \E y \in InTree : x \in Children(node, y)
  BY DEF Chain, Way, InTree
<1> QED BY <1>1, <1>2 DEF DbInv, ShapeOK

-----------------------------------------------------------------------------------
(* Parts of a step.                                                          *)

LocksOf(c) == {n \in Nodes : writer[n] = c \/ c \in readers[n]}

LocksTyped == writer \in [Nodes -> Clients \cup {Absent}] /\ readers \in [Nodes -> SUBSET Clients]

\* What Relock does to the locks of c and of the others.
Relocked(c, n, given) ==
    /\ LocksTyped'
    /\ LocksOf(c)' = (LocksOf(c) \ given) \cup ({n} \ {Null})
    /\ \A d \in Clients \ {c} : LocksOf(d)' = LocksOf(d)
    /\ \A x \in Nodes : writer'[x] # Absent => readers'[x] = {}
    /\ \A d \in Clients \ {c} : \A x \in Nodes : writer[x] = d => writer'[x] = d
    /\ \A x \in Nodes \ given : writer[x] = c => writer'[x] = c

LEMMA RelockTakes ==
    ASSUME DbInv, NEW c \in Clients, NEW n \in Nodes, NEW mode \in {"read", "write"}, NEW given, n \notin given,
           CanLock(n, mode), Relock(c, n, mode, given)
    PROVE  Relocked(c, n, given) /\ (mode = "write" => writer'[n] = c)
<1>0. LocksTyped /\ c # Absent /\ Absent \notin Clients /\ n # Null
  BY RequestAssumption, NodesFacts DEF DbInv, TypeOK, LocksTyped
<1>1. \A x \in Nodes : writer[x] # Absent => readers[x] = {}
  BY DEF DbInv, LocksOK
<1>2. \A x \in Nodes : writer'[x] = IF x = n /\ mode = "write" THEN c
                                    ELSE IF x \in given /\ writer[x] = c THEN Absent ELSE writer[x]
  BY DEF Relock
<1>3. \A x \in Nodes : readers'[x] = IF x = n /\ mode = "read" THEN readers[x] \cup {c}
                                     ELSE IF x \in given THEN readers[x] \ {c} ELSE readers[x]
  BY DEF Relock
<1>4. writer[n] = Absent /\ (mode = "write" => readers[n] = {})
  BY DEF CanLock
<1>5. LocksTyped'
  <2>1. writer' \in [Nodes -> Clients \cup {Absent}]
    BY <1>0 DEF Relock, LocksTyped
  <2>2. readers' \in [Nodes -> SUBSET Clients]
    BY <1>0 DEF Relock, LocksTyped
  <2> QED BY <2>1, <2>2 DEF LocksTyped
<1>6. \A x \in Nodes : (writer'[x] = c \/ c \in readers'[x]) <=> (x \notin given /\ (writer[x] = c \/ c \in readers[x])) \/ x = n
  BY <1>0, <1>2, <1>3, <1>4
<1>7. \A d \in Clients \ {c} : \A x \in Nodes : (writer'[x] = d \/ d \in readers'[x]) <=> (writer[x] = d \/ d \in readers[x])
  BY <1>0, <1>2, <1>3, <1>4
<1>8. \A x \in Nodes : writer'[x] # Absent => readers'[x] = {}
  BY <1>0, <1>1, <1>2, <1>3, <1>4
<1>9. /\ \A d \in Clients \ {c} : \A x \in Nodes : writer[x] = d => writer'[x] = d
      /\ \A x \in Nodes \ given : writer[x] = c => writer'[x] = c
  BY <1>0, <1>2, <1>4
<1>10. LocksOf(c)' = (LocksOf(c) \ given) \cup ({n} \ {Null})
  BY <1>0, <1>6 DEF LocksOf
<1>11. \A d \in Clients \ {c} : LocksOf(d)' = LocksOf(d)
  BY <1>7 DEF LocksOf
<1> QED BY <1>2, <1>5, <1>8, <1>9, <1>10, <1>11 DEF Relocked

LEMMA RelockGives ==
    ASSUME DbInv, NEW c \in Clients, NEW given, Unlock(c, given)
    PROVE  Relocked(c, Null, given)
<1>0. LocksTyped /\ c # Absent /\ Absent \notin Clients
  BY RequestAssumption DEF DbInv, TypeOK, LocksTyped
<1>1. \A x \in Nodes : writer[x] # Absent => readers[x] = {}
  BY DEF DbInv, LocksOK
<1>2. /\ writer' = [x \in Nodes |-> IF x \in given /\ writer[x] = c THEN Absent ELSE writer[x]]
      /\ readers' = [x \in Nodes |-> IF x \in given THEN readers[x] \ {c} ELSE readers[x]]
  BY DEF Unlock, Relock
<1>3. LocksTyped'
  <2>1. writer' \in [Nodes -> Clients \cup {Absent}]
    BY <1>0, <1>2 DEF LocksTyped
  <2>2. readers' \in [Nodes -> SUBSET Clients]
    BY <1>0, <1>2 DEF LocksTyped
  <2> QED BY <2>1, <2>2 DEF LocksTyped
<1>4. LocksOf(c)' = (LocksOf(c) \ given) \cup ({Null} \ {Null})
  BY <1>0, <1>2 DEF LocksOf
<1>5. \A d \in Clients \ {c} : LocksOf(d)' = LocksOf(d)
  BY <1>0, <1>2 DEF LocksOf
<1> QED BY <1>0, <1>1, <1>2, <1>3, <1>4, <1>5 DEF Relocked

LEMMA RelockNone ==
    ASSUME DbInv, NEW c \in Clients, UNCHANGED <<writer, readers>>
    PROVE  Relocked(c, Null, {})
<1>0. LocksTyped
  BY DEF DbInv, TypeOK, LocksTyped
<1>1. \A x \in Nodes : writer[x] # Absent => readers[x] = {}
  BY DEF DbInv, LocksOK
<1>2. LocksTyped' /\ \A d \in Clients : LocksOf(d)' = LocksOf(d)
  BY <1>0 DEF LocksTyped, LocksOf
<1> QED BY <1>1, <1>2 DEF Relocked

\* Only c goes on.
Others(c) == \A d \in Clients \ {c} : frame'[d] = frame[d]

LEMMA OthersSame ==
    ASSUME NEW c \in Clients, Others(c), NEW d \in Clients \ {c}
    PROVE  /\ Pc(d)' = Pc(d) /\ Op(d)' = Op(d) /\ Key(d)' = Key(d)
           /\ Names(d)' = Names(d) /\ Held(d)' = Held(d) /\ PnextSide(d)' = PnextSide(d)
  BY DEF Others, Pc, Op, Key, Names, Held, PnextSide

LEMMA FrameEqual ==
    ASSUME NEW f \in FrameTypes, NEW g \in FrameTypes, f.pc = g.pc, f.req = g.req, f.parent = g.parent,
           f.target = g.target, f.next = g.next, f.pnext = g.pnext
    PROVE  f = g
  BY DEF FrameTypes

LEMMA FrameGoes ==
    ASSUME FramesOK, NEW c \in Clients, NEW f \in FrameTypes, Goto(c, f),
           NEW a, answer' = [answer EXCEPT ![c] = a], FrameOK(f, a)
    PROVE  FramesOK' /\ frame'[c] = f /\ answer'[c] = a /\ Others(c)
<1>1. frame' = [frame EXCEPT ![c] = f] /\ frame \in [Clients -> FrameTypes] /\ answer = [d \in Clients |-> answer[d]]
  BY DEF Goto, FramesOK
<1>2. frame' \in [Clients -> FrameTypes] /\ answer' = [d \in Clients |-> answer'[d]]
  BY <1>1
<1>3. frame'[c] = f /\ answer'[c] = a
  BY <1>1
<1>4. \A d \in Clients \ {c} : frame'[d] = frame[d] /\ answer'[d] = answer[d]
  BY <1>1
<1>5. \A d \in Clients : FrameOK(frame'[d], answer'[d])
  BY <1>3, <1>4 DEF FramesOK
<1> QED BY <1>2, <1>3, <1>4, <1>5 DEF FramesOK, Others

LocksFit == LocksOK /\ LocksTyped /\ \A d \in Clients : LocksOf(d) = Held(d)

LEMMA AnswerStays ==
    ASSUME FramesOK, NEW c \in Clients, UNCHANGED answer
    PROVE  answer' = [answer EXCEPT ![c] = answer[c]]
  BY DEF FramesOK

LEMMA OpenWhileBusy ==
    ASSUME DbInv, NEW c \in Clients, Pc(c) # "idle"
    PROVE  ~closed
  BY DEF DbInv, AllocOK

\* The locks are again those of the threads' steps.
LEMMA LocksGoOn ==
    ASSUME DbInv, NEW c \in Clients, Others(c), NEW n, NEW given, Relocked(c, n, given),
           Held(c)' = (Held(c) \ given) \cup ({n} \ {Null}),
           Op(c)' # "q" => /\ \A x \in Held(c)' : x = n \/ writer[x] = c
                           /\ n # Null => writer'[n] = c
    PROVE  LocksFit'
<1>1. \A d \in Clients : LocksOf(d) = Held(d)
  BY DEF DbInv, TypeOK, LocksOf
<1>2. \A d \in Clients : LocksOf(d)' = Held(d)'
  BY <1>1, OthersSame DEF Relocked
<1>3. \A x \in Nodes : writer'[x] # Absent => readers'[x] = {}
  BY DEF Relocked
<1>4. ASSUME NEW d \in Clients, NEW x \in Held(d)', (Op(d) # "q")' PROVE writer'[x] = d
  <2>0. x \in Nodes
    BY <1>2 DEF LocksOf
  <2>1. CASE d = c
    <3>1. CASE x = n /\ n # Null
      BY <1>4, <2>1, <3>1
    <3>2. CASE ~(x = n /\ n # Null)
      BY <1>4, <2>0, <2>1, <3>2, NodesFacts DEF Relocked
    <3> QED BY <3>1, <3>2
  <2>2. CASE d # c
    <3>1. x \in Held(d) /\ Op(d) # "q"
      BY <1>4, <2>2, OthersSame
    <3>2. writer[x] = d
      BY <3>1 DEF DbInv, LocksOK
    <3> QED BY <2>0, <2>2, <3>2 DEF Relocked
  <2> QED BY <2>1, <2>2
<1> QED BY <1>2, <1>3, <1>4 DEF LocksFit, LocksOK, Relocked

\* The nodes that c may have changed are in `mine`, and nobody else is in them.
Apart(c, mine) ==
    /\ \A x \in InTree \ mine : x \in InTree' /\ node'[x] = node[x]
    /\ mine \subseteq Names(c)
    /\ \A d \in Clients \ {c} : mine \cap Held(d) = {}
    /\ \A d \in Clients \ {c} : \A s :
          Chain(d, s) /\ Pc(d) \in {"walk", "unhook"} => Names(c)' \cap s = {}

ThreadOK(c) == SearchOK(c) /\ FoundOK(c) /\ WalkOK(c) /\ UnhookOK(c)

LEMMA OthersKeep ==
    ASSUME DbInv, NEW c \in Clients, Others(c), NEW mine, Apart(c, mine),
           \A d \in Clients \ {c} :
              Pc(d) = "search" => Fits(node', frame[d].parent, Key(d)),
           \A d \in Clients \ {c} : \A s :
              Chain(d, s) /\ Pc(d) \in {"walk", "unhook"} =>
                  Way(node', frame[d].target, frame[d].next, s),
           NEW d \in Clients \ {c}
    PROVE  ThreadOK(d)'
<1>0. /\ frame'[d] = frame[d] /\ Pc(d)' = Pc(d) /\ Op(d)' = Op(d) /\ Key(d)' = Key(d)
      /\ Names(d)' = Names(d) /\ PnextSide(d)' = PnextSide(d)
  BY OthersSame DEF Others
<1>1. \A x \in Held(d) : x \in InTree' /\ node'[x] = node[x]
  BY HeldNames DEF Apart
<1>2. SearchOK(d) /\ FoundOK(d) /\ WalkOK(d) /\ UnhookOK(d)
  BY DEF DbInv
<1>3. SearchOK(d)'
  <2> SUFFICES ASSUME Pc(d) = "search"
               PROVE  /\ frame[d].parent \in InTree'
                      /\ frame[d].parent # Root => node'[frame[d].parent].name # Key(d)
                      /\ Fits(node', frame[d].parent, Key(d))
    BY <1>0 DEF SearchOK
  <2>1. frame[d].parent \in Held(d)
    BY DEF Held
  <2> QED BY <1>1, <1>2, <2>1 DEF SearchOK
<1>4. FoundOK(d)'
  <2> SUFFICES ASSUME Pc(d) = "found"
               PROVE  /\ frame[d].target \in InTree' \ {Root} /\ node'[frame[d].target].name = Key(d)
                      /\ IF Op(d) = "q" THEN frame[d].parent = Null
                         ELSE frame[d].parent \in InTree' /\ Child(frame[d].parent, Key(d))' = frame[d].target
    BY <1>0 DEF FoundOK, Child, Side
  <2>1. frame[d].target \in Held(d) /\ (Op(d) # "q" => frame[d].parent \in Held(d))
    BY <1>2, GoodNow, NodesFacts DEF Held, FoundOK
  <2>2. Op(d) # "q" => Child(frame[d].parent, Key(d))' = Child(frame[d].parent, Key(d))
    BY <1>0, <1>1, <2>1 DEF Child, Side
  <2> QED BY <1>1, <1>2, <2>1, <2>2 DEF FoundOK
<1>5. WalkOK(d)'
  <2> SUFFICES ASSUME Pc(d) \in {"walk", "unhook"}
               PROVE  /\ {frame[d].parent, frame[d].target, frame[d].next} \subseteq InTree'
                      /\ frame[d].target # Root
                      /\ frame[d].target \in Children(node', frame[d].parent)
                      /\ Pc(d) = "walk" => node'[frame[d].target].name = Key(d)
                      /\ \E s \in SUBSET Nodes : Chain(d, s)'
    BY <1>0 DEF WalkOK, Children
  <2>1. {frame[d].parent, frame[d].target, frame[d].next} \subseteq Held(d)
    BY DEF Held
  <2>2. PICK s \in SUBSET Nodes : Chain(d, s)
    BY <1>2 DEF WalkOK
  <2>3. Way(node', frame'[d].target, frame'[d].next, s)
    BY <1>0, <2>2
  <2>4. frame[d].pnext \in s /\ node[frame[d].pnext][PnextSide(d)] = frame[d].next
    BY <2>2 DEF Chain
  <2>5. node'[frame[d].pnext] = node[frame[d].pnext]
    <3>1. frame[d].pnext \in InTree
      BY <2>2, <2>4 DEF Chain, Way, InTree
    <3>2. frame[d].pnext \notin mine
      BY <2>2, <2>4 DEF Chain, Apart
    <3> QED BY <3>1, <3>2 DEF Apart
  <2>6. \A e \in Clients \ {d} : Names(e)' \cap s = {}
    <3>1. ASSUME NEW e \in Clients \ {d}, e # c PROVE Names(e)' \cap s = {}
      BY <2>2, <3>1, OthersSame DEF Chain
    <3>2. Names(c)' \cap s = {}
      BY <2>2 DEF Apart
    <3> QED BY <3>1, <3>2
  <2>7. Chain(d, s)'
    BY <1>0, <2>3, <2>4, <2>5, <2>6 DEF Chain
  <2> QED BY <1>1, <1>2, <2>1, <2>7 DEF WalkOK, Children
<1>6. UnhookOK(d)'
  <2> SUFFICES ASSUME Pc(d) = "unhook" PROVE UnhookOK(d)'
    BY <1>0 DEF UnhookOK
  <2>1. frame[d].target \in Held(d) /\ frame[d].next \in Held(d)
    BY DEF Held
  <2>2. node'[frame[d].target] = node[frame[d].target] /\ node'[frame[d].next] = node[frame[d].next]
    BY <1>1, <2>1
  <2> QED BY <1>0, <1>2, <2>2 DEF UnhookOK
<1> QED BY <1>3, <1>4, <1>5, <1>6 DEF ThreadOK

\* A step that leaves the tree as it is, of a thread that neither has a copy under
\* way nor an unlinked node to free, before and after.
Quiet(c) ==
    /\ UNCHANGED <<node, alive, closed>> /\ Others(c)
    /\ {Pc(c), Pc(c)'} \cap {"unhook", "destroy"} = {}

TreeOK == ShapeOK /\ AllocOK /\ Sorted(node, Copies)

LEMMA QuietTree ==
    ASSUME DbInv, NEW c \in Clients, Quiet(c), ~closed
    PROVE  TreeOK' /\ Copies' = Copies /\ Unlinked' = Unlinked /\ InTree' = InTree
<1>1. node' = node /\ alive' = alive /\ closed' = closed /\ Others(c)
  BY DEF Quiet
<1>2. InTree' = InTree
  BY <1>1 DEF InTree
<1>3. \A d \in Clients : /\ Pc(d) = "unhook" <=> Pc(d)' = "unhook"
                         /\ Pc(d) = "destroy" <=> Pc(d)' = "destroy"
  BY <1>1, OthersSame DEF Quiet
<1>4. \A d \in Clients : Pc(d) \in {"unhook", "destroy"} => frame'[d] = frame[d]
  BY <1>1 DEF Quiet, Others
<1>5. Copies' = Copies /\ Unlinked' = Unlinked
  <2>1. {d \in Clients : Pc(d) = "unhook"}' = {d \in Clients : Pc(d) = "unhook"}
    BY <1>3
  <2>2. {d \in Clients : Pc(d) = "destroy"}' = {d \in Clients : Pc(d) = "destroy"}
    BY <1>3
  <2> QED BY <1>4, <2>1, <2>2 DEF Copies, Unlinked
<1>6. ShapeOK'
  BY <1>1, <1>2 DEF DbInv, ShapeOK
<1>7. AllocOK'
  BY <1>1, <1>2, <1>3, <1>4, <1>5 DEF DbInv, AllocOK
<1>8. Sorted(node, Copies)'
  BY <1>1, <1>5 DEF DbInv
<1> QED BY <1>2, <1>5, <1>6, <1>7, <1>8 DEF TreeOK

LEMMA QuietOthers ==
    ASSUME DbInv, NEW c \in Clients, node' = node, Others(c),
           \A d \in Clients \ {c} : \A s :
              Chain(d, s) /\ Pc(d) \in {"walk", "unhook"} => Names(c)' \cap s = {},
           NEW d \in Clients \ {c}
    PROVE  ThreadOK(d)'
<1>1. InTree' = InTree
  BY DEF InTree
<1>2. Apart(c, {})
  BY <1>1 DEF Apart
<1>3. \A e \in Clients \ {c} : Pc(e) = "search" => Fits(node', frame[e].parent, Key(e))
  BY DEF DbInv, SearchOK
<1>4. \A e \in Clients \ {c} : \A s :
         Chain(e, s) /\ Pc(e) \in {"walk", "unhook"} => Way(node', frame[e].target, frame[e].next, s)
  BY DEF Chain
<1> QED BY <1>2, <1>3, <1>4, OthersKeep

LEMMA Together ==
    ASSUME Typed(node)', (alive \subseteq Nodes)', FramesOK', LocksFit', TreeOK',
           \A c \in Clients : ThreadOK(c)'
    PROVE  DbInv'
<1>1. TypeOK'
  BY DEF Typed, LocksFit, LocksTyped, LocksOf, TypeOK
<1> QED BY <1>1 DEF LocksFit, TreeOK, ThreadOK, DbInv

LEMMA QuietStep ==
    ASSUME DbInv, NEW c \in Clients, Quiet(c), ~closed, FramesOK', LocksFit', ThreadOK(c)',
           \A d \in Clients \ {c} : \A s :
              Chain(d, s) /\ Pc(d) \in {"walk", "unhook"} => Names(c)' \cap s = {}
    PROVE  DbInv'
<1>1. node' = node /\ alive' = alive /\ Others(c)
  BY DEF Quiet
<1>2. Typed(node)' /\ (alive \subseteq Nodes)'
  BY <1>1 DEF DbInv, TypeOK, Typed
<1>3. TreeOK'
  BY QuietTree
<1>4. \A d \in Clients : ThreadOK(d)'
  BY <1>1, QuietOthers
<1> QED BY <1>2, <1>3, <1>4, Together

\* What a thread may hold in a frame of its steps.
LEMMA OwnLocks ==
    ASSUME DbInv, NEW c \in Clients, Op(c) # "q"
    PROVE  \A n \in Held(c) : writer[n] = c
  BY DEF DbInv, LocksOK

-----------------------------------------------------------------------------------
(* The steps that leave the tree as it is.                                   *)

LEMMA EnterStep ==
    ASSUME DbInv, NEW c \in Clients, NEW r \in Requests[c], Enter(c, r)
    PROVE  DbInv'
<1> DEFINE f == [NoFrame EXCEPT !.pc = "search", !.req = r, !.parent = Root]
<1>1. FramesOK /\ Pc(c) = "idle" /\ ~closed /\ Goto(c, f) /\ UNCHANGED <<node, alive, answer, closed>>
  BY DEF Enter, DbInv
<1>r. r \in AllRequests /\ r # Absent /\ r.key \in Nat \ {0}
  <2>1. r \in AllRequests
    BY DEF AllRequests
  <2>2. r.key \in Keys
    BY <2>1, RequestAssumption
  <2> QED BY <2>1, <2>2, RequestAssumption, PoolAssumption
<1>2. /\ f.pc = "search" /\ f.req = r /\ f.parent = Root /\ f.target = Null /\ f.next = Null
      /\ f.pnext = Null
  BY DEF NoFrame
<1>3. f \in FrameTypes
  BY <1>r, NodesFacts DEF NoFrame, FrameTypes, Pcs
<1> HIDE DEF f
<1>4. answer[c] = Absent
  BY <1>1, FrameFacts DEF FrameOK, Pc
<1>5. FrameOK(f, answer[c])
  BY <1>2, <1>4, <1>r DEF FrameOK
<1>6. FramesOK' /\ frame'[c] = f /\ Others(c)
  BY <1>1, <1>3, <1>5, AnswerStays, FrameGoes
<1>7. Pc(c)' = "search" /\ Op(c)' = r.op /\ Key(c)' = r.key /\ Names(c)' = {Root} /\ Held(c)' = {Root}
  BY <1>2, <1>6, NodesFacts DEF Pc, Op, Key, Names, Held
<1>8. Quiet(c)
  BY <1>1, <1>6, <1>7 DEF Quiet
<1>9. LocksFit'
  <2>1. Relocked(c, Root, {}) /\ writer'[Root] = c
    BY NodesFacts, RelockTakes DEF Enter
  <2>2. Held(c) = {}
    BY <1>1 DEF Held
  <2> QED BY <1>6, <1>7, <2>1, <2>2, NodesFacts, LocksGoOn
<1>10. ThreadOK(c)'
  <2>1. Fits(node, Root, r.key)
    <3> SUFFICES ASSUME NEW x \in Under(node, Root) \ {Root},
                        NEW side \in {node[x].lchild, node[x].rchild}, Root \in Under(node, side)
                 PROVE  FALSE
      BY DEF Fits
    <3>1. side \in Children(node, x)
      BY UnderNull DEF Children
    <3> QED BY <3>1, GoodNow, RootAbove
  <2>2. SearchOK(c)'
    BY <1>1, <1>6, <1>7, <1>2, <2>1, GoodNow DEF SearchOK, InTree
  <2> QED BY <1>7, <2>2 DEF ThreadOK, FoundOK, WalkOK, UnhookOK
<1>11. \A d \in Clients \ {c} : \A s :
          Chain(d, s) /\ Pc(d) \in {"walk", "unhook"} => Names(c)' \cap s = {}
  BY <1>7, RootNotInChain
<1> QED BY <1>1, <1>6, <1>8, <1>9, <1>10, <1>11, QuietStep

LEMMA ChildBelow ==
    ASSUME DbInv, NEW p \in InTree, NEW k, Child(p, k) # Null
    PROVE  /\ Child(p, k) \in Children(node, p) /\ Child(p, k) \in InTree \ {Root}
           /\ Child(p, k) = (IF k < node[p].name THEN node[p].lchild ELSE node[p].rchild)
           /\ Child(p, k) # p
<1>1. Child(p, k) = (IF k < node[p].name THEN node[p].lchild ELSE node[p].rchild)
  BY DEF Child, Side
<1>2. Child(p, k) \in Children(node, p)
  BY <1>1 DEF Children
<1>3. Child(p, k) \in InTree \ {Root}
  BY <1>2, GoodNow, UnderChild DEF InTree, Shape
<1>4. p \notin Children(node, p)
  BY GoodNow, SelfAbove DEF InTree
<1> QED BY <1>1, <1>2, <1>3, <1>4

LEMMA SearchStepStep ==
    ASSUME DbInv, NEW c \in Clients, SearchStep(c)
    PROVE  DbInv'
<1> DEFINE p == frame[c].parent
<1> DEFINE n == Child(p, Key(c))
<1> DEFINE hit == node[n].name = Key(c)
<1> DEFINE keeps == hit /\ Op(c) # "q"
<1> DEFINE given == IF keeps THEN {} ELSE {p}
<1> DEFINE f == IF hit THEN [frame[c] EXCEPT !.pc = "found", !.target = n, !.parent = IF keeps THEN p ELSE Null]
                ELSE [frame[c] EXCEPT !.parent = n]
<1>1. /\ FramesOK /\ Pc(c) = "search" /\ n # Null /\ Goto(c, f) /\ UNCHANGED <<node, alive, answer, closed>>
      /\ CanLock(n, Mode(c)) /\ Relock(c, n, Mode(c), given) /\ ~closed
  BY OpenWhileBusy DEF SearchStep, DbInv
<1>2. /\ frame[c] \in FrameTypes /\ FrameOK(frame[c], answer[c]) /\ frame[c].req \in AllRequests
      /\ Key(c) \in Nat \ {0} /\ Op(c) \in {"q", "a", "d"}
  BY <1>1, FrameFacts
<1>3. p \in InTree /\ (p # Root => node[p].name # Key(c)) /\ Fits(node, p, Key(c)) /\ p # Null
  BY <1>1, GoodNow, NodesFacts DEF DbInv, SearchOK
<1>4. /\ n \in Children(node, p) /\ n \in InTree \ {Root} /\ n # p /\ n \in Nodes
      /\ n = (IF Key(c) < node[p].name THEN node[p].lchild ELSE node[p].rchild)
  BY <1>1, <1>3, ChildBelow, GoodNow
<1> HIDE DEF p, n, hit
<1>f. /\ f.pc = (IF hit THEN "found" ELSE "search") /\ f.req = frame[c].req
      /\ f.parent = (IF ~hit THEN n ELSE IF keeps THEN p ELSE Null)
      /\ f.target = (IF hit THEN n ELSE Null) /\ f.next = Null /\ f.pnext = Null
  BY <1>1, <1>2 DEF FrameTypes, FrameOK, Pc, p
<1>5. f \in FrameTypes /\ FrameOK(f, answer[c])
  <2>1. f \in FrameTypes
    BY <1>2, <1>3, <1>4, GoodNow DEF FrameTypes, Pcs
  <2> HIDE DEF f
  <2>2. frame[c].req # Absent /\ answer[c] = Absent
    BY <1>1, <1>2 DEF FrameOK, Pc
  <2>3. FrameOK(f, answer[c])
    BY <1>f, <2>2 DEF FrameOK
  <2> QED BY <2>1, <2>3
<1> HIDE DEF f
<1>6. FramesOK' /\ frame'[c] = f /\ Others(c)
  BY <1>1, <1>5, AnswerStays, FrameGoes
<1>7. /\ Pc(c)' = (IF hit THEN "found" ELSE "search") /\ Op(c)' = Op(c) /\ Key(c)' = Key(c)
      /\ frame'[c].parent = (IF ~hit THEN n ELSE IF keeps THEN p ELSE Null)
      /\ frame'[c].target = (IF hit THEN n ELSE Null)
      /\ frame'[c].next = Null /\ frame'[c].pnext = Null
  BY <1>f, <1>6 DEF Pc, Op, Key
<1>8. Held(c)' = (IF keeps THEN {p, n} ELSE {n}) /\ Names(c)' \subseteq {p, n}
  BY <1>7, <1>3, <1>1 DEF Held, Names
<1>9. Quiet(c)
  BY <1>1, <1>6, <1>7 DEF Quiet
<1>10. LocksFit'
  <2>0. Held(c) = {p}
    BY <1>1 DEF Held, p
  <2>1. n \notin given
    BY <1>4
  <2>2. Relocked(c, n, given) /\ (Mode(c) = "write" => writer'[n] = c)
    BY <1>1, <1>4, <2>1, RelockTakes DEF Mode
  <2>3. Held(c)' = (Held(c) \ given) \cup ({n} \ {Null})
    BY <1>1, <1>8, <2>0
  <2>4. Op(c)' # "q" => (\A x \in Held(c)' : x = n \/ writer[x] = c) /\ writer'[n] = c
    BY <1>7, <2>0, <2>2, <2>3, OwnLocks DEF Mode
  <2> QED BY <1>6, <2>2, <2>3, <2>4, LocksGoOn
<1>11. ThreadOK(c)'
  <2>0. InTree' = InTree /\ node' = node
    BY <1>1 DEF InTree
  <2>1. SearchOK(c)'
    <3>1. CASE hit
      BY <3>1, <1>7 DEF SearchOK
    <3>2. CASE ~hit
      <4>1. Fits(node, n, Key(c))
        BY <1>2, <1>3, <1>4, GoodNow, FitsChild DEF InTree
      <4>2. node[n].name # Key(c)
        BY <3>2 DEF hit
      <4> QED BY <3>2, <4>1, <4>2, <1>4, <1>7, <2>0 DEF SearchOK
    <3> QED BY <3>1, <3>2
  <2>2. FoundOK(c)'
    <3>1. CASE ~hit
      BY <3>1, <1>7 DEF FoundOK
    <3>2. CASE hit
      <4>1. node[n].name = Key(c)
        BY <3>2 DEF hit
      <4>2. keeps => Child(frame[c].parent, Key(c))' = n
        BY <3>2, <1>7, <2>0 DEF n, Child, Side
      <4> QED BY <3>2, <4>1, <4>2, <1>3, <1>4, <1>7, <2>0 DEF FoundOK
    <3> QED BY <3>1, <3>2
  <2> QED BY <1>7, <2>1, <2>2 DEF ThreadOK, WalkOK, UnhookOK
<1>12. \A d \in Clients \ {c} : \A s :
          Chain(d, s) /\ Pc(d) \in {"walk", "unhook"} => Names(c)' \cap s = {}
  <2> SUFFICES ASSUME NEW d \in Clients \ {c}, NEW s, Chain(d, s), Pc(d) \in {"walk", "unhook"}
               PROVE  p \notin s /\ n \notin s
    BY <1>8
  <2>1. p \in Names(c)
    BY <1>3 DEF Names, p
  <2>2. writer[n] = Absent
    BY <1>1 DEF CanLock
  <2> QED BY <1>3, <1>4, <2>1, <2>2, NotInChain DEF Chain
<1> QED BY <1>1, <1>6, <1>9, <1>10, <1>11, <1>12, QuietStep

LEMMA EndsFrame ==
    ASSUME FramesOK, NEW c \in Clients, Pc(c) # "idle", Ends(c), NEW a, a # Absent,
           answer' = [answer EXCEPT ![c] = a]
    PROVE  /\ FramesOK' /\ Others(c)
           /\ Pc(c)' = "done" /\ Held(c)' = {} /\ Names(c)' = {} /\ ThreadOK(c)'
           /\ frame'[c].req = frame[c].req /\ answer'[c] = a
<1> DEFINE f == [NoFrame EXCEPT !.pc = "done", !.req = frame[c].req]
<1>1. /\ f.pc = "done" /\ f.req = frame[c].req /\ f.parent = Null /\ f.target = Null /\ f.next = Null
      /\ f.pnext = Null
  BY DEF NoFrame
<1>2. frame[c].req \in AllRequests
  BY FrameFacts
<1>3. f \in FrameTypes
  BY <1>2 DEF NoFrame, FrameTypes, Pcs
<1>4. Goto(c, f)
  BY DEF Ends
<1> HIDE DEF f
<1>5. FrameOK(f, a)
  BY <1>1, <1>2, RequestAssumption DEF FrameOK
<1>6. FramesOK' /\ frame'[c] = f /\ answer'[c] = a /\ Others(c)
  BY <1>3, <1>4, <1>5, FrameGoes
<1>7. Pc(c)' = "done" /\ Held(c)' = {} /\ Names(c)' = {}
  BY <1>1, <1>6 DEF Pc, Held, Names
<1>8. ThreadOK(c)'
  BY <1>7 DEF ThreadOK, SearchOK, FoundOK, WalkOK, UnhookOK
<1> QED BY <1>1, <1>6, <1>7, <1>8

LEMMA EndsStep ==
    ASSUME DbInv, NEW c \in Clients, Pc(c) \in {"search", "found"}, NEW given, Held(c) \subseteq given,
           Unlock(c, given), Ends(c), NEW a, a # Absent, Answers(c, a), UNCHANGED <<node, alive, closed>>
    PROVE  DbInv'
<1>1. /\ FramesOK' /\ Others(c) /\ ThreadOK(c)'
      /\ Pc(c)' = "done" /\ Held(c)' = {} /\ Names(c)' = {}
  BY EndsFrame DEF DbInv, Answers
<1>2. Quiet(c) /\ ~closed
  BY <1>1, OpenWhileBusy DEF Quiet
<1>3. LocksFit'
  <2>1. Relocked(c, Null, given)
    BY RelockGives
  <2> QED BY <1>1, <2>1, LocksGoOn
<1> QED BY <1>1, <1>2, <1>3, QuietStep

LEMMA RepliesAreAnswers == Absent \notin Replies /\ Absent \notin Keys
  BY RequestAssumption

LEMMA MissStep ==
    ASSUME DbInv, NEW c \in Clients, Missed(c), NEW a \in Replies, Answers(c, a), UNCHANGED <<node, alive>>
    PROVE  DbInv'
<1>1. Pc(c) = "search" /\ Unlock(c, {frame[c].parent}) /\ Ends(c) /\ UNCHANGED closed
  BY DEF Missed, Ends
<1>2. Held(c) = {frame[c].parent}
  BY <1>1 DEF Held
<1> QED BY <1>1, <1>2, RepliesAreAnswers, EndsStep

LEMMA QueryMissStep == ASSUME DbInv, NEW c \in Clients, QueryMiss(c) PROVE DbInv'
  BY MissStep DEF QueryMiss, Replies

LEMMA RemoveMissStep == ASSUME DbInv, NEW c \in Clients, RemoveMiss(c) PROVE DbInv'
  BY MissStep DEF RemoveMiss, Replies

LEMMA QueryHitStep ==
    ASSUME DbInv, NEW c \in Clients, QueryHit(c)
    PROVE  DbInv'
<1>1. Pc(c) = "found" /\ Op(c) = "q" /\ Unlock(c, {frame[c].target}) /\ Ends(c)
      /\ Answers(c, node[frame[c].target].value) /\ UNCHANGED <<node, alive, closed>>
  BY DEF QueryHit
<1>2. FoundOK(c)
  BY DEF DbInv
<1>3. Held(c) \subseteq {frame[c].target}
  BY <1>1, <1>2 DEF Held, FoundOK
<1>4. node[frame[c].target].value # Absent
  BY <1>1, <1>2, RepliesAreAnswers DEF FoundOK, DbInv, ShapeOK
<1> QED BY <1>1, <1>3, <1>4, EndsStep

LEMMA AddHitStep ==
    ASSUME DbInv, NEW c \in Clients, AddHit(c)
    PROVE  DbInv'
<1>1. Pc(c) = "found" /\ Unlock(c, {frame[c].target, frame[c].parent}) /\ Ends(c)
      /\ Answers(c, "already in database") /\ UNCHANGED <<node, alive, closed>>
  BY DEF AddHit
<1>2. Held(c) \subseteq {frame[c].target, frame[c].parent}
  BY <1>1 DEF Held
<1>3. "already in database" # Absent
  BY RepliesAreAnswers DEF Replies
<1> QED BY <1>1, <1>2, <1>3, EndsStep

LEMMA ReturnStep ==
    ASSUME DbInv, NEW c \in Clients, Return(c)
    PROVE  DbInv'
<1>1. /\ FramesOK /\ Pc(c) = "done" /\ Goto(c, NoFrame) /\ Answers(c, Absent)
      /\ UNCHANGED <<node, alive, writer, readers, closed>> /\ ~closed
  BY OpenWhileBusy DEF Return, DbInv
<1>2. NoFrame \in FrameTypes /\ FrameOK(NoFrame, Absent)
  BY DEF NoFrame, FrameTypes, FrameOK, Pcs
<1>3. FramesOK' /\ frame'[c] = NoFrame /\ Others(c)
  BY <1>1, <1>2, FrameGoes DEF Answers
<1>4. Pc(c)' = "idle" /\ Held(c)' = {} /\ Names(c)' = {}
  BY <1>3 DEF Pc, Held, Names, NoFrame
<1>5. Quiet(c)
  BY <1>1, <1>3, <1>4 DEF Quiet
<1>6. LocksFit'
  <2>1. Relocked(c, Null, {}) /\ Held(c) = {}
    BY <1>1, RelockNone DEF Held
  <2> QED BY <1>3, <1>4, <2>1, LocksGoOn
<1>7. ThreadOK(c)'
  BY <1>4 DEF ThreadOK, SearchOK, FoundOK, WalkOK, UnhookOK
<1> QED BY <1>1, <1>3, <1>4, <1>5, <1>6, <1>7, QuietStep

\* The thread goes from p to n, to put that in its target's place.
WalksOn(c, p, n, given, s) ==
    /\ Pc(c) \in {"found", "walk"} /\ Op(c) = "d"
    /\ p \in Held(c) /\ n \in Children(node, p) /\ CanLock(n, "write")
    /\ given \subseteq {p} /\ Held(c) \ given = {frame[c].parent, frame[c].target}
    /\ Relock(c, n, "write", given)
    /\ Goto(c, [frame[c] EXCEPT !.pc = "walk", !.next = n, !.pnext = p])
    /\ UNCHANGED <<node, alive, answer, closed>>
    /\ frame[c].target \in InTree \ {Root} /\ frame[c].parent \in InTree
    /\ frame[c].target \in Children(node, frame[c].parent)
    /\ node[frame[c].target].name = Key(c)
    /\ node[p][IF p = frame[c].target THEN "rchild" ELSE "lchild"] = n
    /\ s \in SUBSET Nodes /\ Way(node, frame[c].target, n, s) /\ p \in s
    /\ \A d \in Clients \ {c} : Names(d) \cap s = {}

LEMMA WalkStep ==
    ASSUME DbInv, NEW c \in Clients, NEW p, NEW n, NEW given, NEW s, WalksOn(c, p, n, given, s)
    PROVE  DbInv'
<1> DEFINE f == [frame[c] EXCEPT !.pc = "walk", !.next = n, !.pnext = p]
<1>0. /\ Pc(c) \in {"found", "walk"} /\ Op(c) = "d"
      /\ p \in Held(c) /\ n \in Children(node, p) /\ CanLock(n, "write")
      /\ given \subseteq {p} /\ Held(c) \ given = {frame[c].parent, frame[c].target}
      /\ Relock(c, n, "write", given) /\ Goto(c, f) /\ UNCHANGED <<node, alive, answer, closed>>
      /\ frame[c].target \in InTree \ {Root} /\ frame[c].parent \in InTree
      /\ frame[c].target \in Children(node, frame[c].parent)
      /\ node[frame[c].target].name = Key(c)
      /\ node[p][IF p = frame[c].target THEN "rchild" ELSE "lchild"] = n
      /\ s \in SUBSET Nodes /\ Way(node, frame[c].target, n, s) /\ p \in s
      /\ \A d \in Clients \ {c} : Names(d) \cap s = {}
  BY DEF WalksOn
<1>1. /\ FramesOK /\ frame[c] \in FrameTypes /\ FrameOK(frame[c], answer[c]) /\ ~closed
      /\ answer[c] = Absent /\ frame[c].req # Absent
  BY <1>0, FrameFacts, OpenWhileBusy DEF DbInv, FrameOK, Pc
<1>2. p \in InTree /\ p \in Nodes /\ p # Null /\ n \in InTree /\ n \in Nodes /\ n # Null /\ n # p
  <2>1. p \in InTree /\ p \in Nodes
    BY <1>0, HeldNames, GoodNow
  <2>2. n \in InTree
    BY <1>0, <2>1, GoodNow, UnderChild DEF InTree
  <2>3. n # p
    BY <1>0, <2>1, GoodNow, SelfAbove DEF InTree
  <2> QED BY <1>0, <2>1, <2>2, <2>3, GoodNow, NodesFacts
<1>3. /\ f.pc = "walk" /\ f.req = frame[c].req /\ f.parent = frame[c].parent
      /\ f.target = frame[c].target /\ f.next = n /\ f.pnext = p
  BY <1>0, <1>1 DEF FrameTypes
<1>4. f \in FrameTypes
  BY <1>0, <1>1, <1>2 DEF FrameTypes, Pcs
<1> HIDE DEF f
<1>5. FrameOK(f, answer[c])
  BY <1>0, <1>1, <1>2, <1>3 DEF FrameOK, Op
<1>6. FramesOK' /\ frame'[c] = f /\ Others(c)
  BY <1>0, <1>1, <1>4, <1>5, AnswerStays, FrameGoes
<1>7. /\ Pc(c)' = "walk" /\ Op(c)' = "d" /\ Key(c)' = Key(c)
      /\ Held(c)' = {frame[c].parent, frame[c].target, n}
      /\ Names(c)' = {frame[c].parent, frame[c].target, n, p} \ {Null}
  BY <1>0, <1>3, <1>6 DEF Pc, Op, Key, Held, Names
<1>8. Quiet(c)
  BY <1>0, <1>6, <1>7 DEF Quiet
<1>9. n \notin Held(c)
  <2>1. writer[n] = Absent /\ Absent \notin Clients
    BY <1>0, RequestAssumption DEF CanLock
  <2> QED BY <1>0, <2>1, OwnLocks
<1>10. LocksFit'
  <2>1. Relocked(c, n, given) /\ writer'[n] = c
    BY <1>0, <1>2, RelockTakes
  <2>2. Held(c)' = (Held(c) \ given) \cup ({n} \ {Null})
    BY <1>0, <1>2, <1>7
  <2>3. \A x \in Held(c)' : x = n \/ writer[x] = c
    BY <1>0, <2>2, OwnLocks
  <2> QED BY <1>0, <1>6, <2>1, <2>2, <2>3, LocksGoOn
<1>11. ThreadOK(c)'
  <2>1. InTree' = InTree
    BY <1>0 DEF InTree
  <2>2. Chain(c, s)'
    <3>1. Way(node', frame'[c].target, frame'[c].next, s)
      BY <1>0, <1>3, <1>6
    <3>2. node'[frame'[c].pnext][PnextSide(c)'] = frame'[c].next /\ frame'[c].pnext \in s
      BY <1>0, <1>3, <1>6 DEF PnextSide
    <3>3. \A d \in Clients \ {c} : Names(d)' \cap s = {}
      BY <1>0, <1>6, OthersSame
    <3> QED BY <1>0, <3>1, <3>2, <3>3 DEF Chain
  <2>3. WalkOK(c)'
    BY <1>0, <1>2, <1>3, <1>6, <1>7, <2>1, <2>2 DEF WalkOK, Children
  <2> QED BY <1>0, <1>7, <2>3 DEF ThreadOK, SearchOK, FoundOK, UnhookOK
<1>12. \A d \in Clients \ {c} : \A r :
          Chain(d, r) /\ Pc(d) \in {"walk", "unhook"} => Names(c)' \cap r = {}
  <2> SUFFICES ASSUME NEW d \in Clients \ {c}, NEW r, Chain(d, r), Pc(d) \in {"walk", "unhook"}
               PROVE  Names(c)' \cap r = {}
    OBVIOUS
  <2>1. Names(c) \cap r = {} /\ p \in Names(c)
    BY <1>0, HeldNames DEF Chain
  <2>2. frame[c].parent \in Names(c) \cup {Null} /\ frame[c].target \in Names(c) \cup {Null}
    BY <1>0 DEF Names
  <2>3. n \notin r
    BY <1>0, <1>2, <2>1, NotInChain DEF CanLock
  <2> QED BY <1>0, <1>7, <2>1, <2>2, <2>3
<1> QED BY <1>0, <1>1, <1>6, <1>8, <1>10, <1>11, <1>12, QuietStep

LEMMA LockRightStep ==
    ASSUME DbInv, NEW c \in Clients, LockRight(c)
    PROVE  DbInv'
<1> DEFINE d == frame[c].target
<1> DEFINE n == node[d].rchild
<1>1. /\ Pc(c) = "found" /\ Op(c) = "d" /\ n # Null /\ CanLock(n, "write") /\ Relock(c, n, "write", {})
      /\ UNCHANGED <<node, alive, answer, closed>>
      /\ Goto(c, [frame[c] EXCEPT !.pc = "walk", !.next = n, !.pnext = d])
  BY DEF LockRight, Removing
<1>2. /\ d \in InTree \ {Root} /\ node[d].name = Key(c) /\ frame[c].parent \in InTree
      /\ d \in Children(node, frame[c].parent)
  <2>1. /\ d \in InTree \ {Root} /\ node[d].name = Key(c) /\ frame[c].parent \in InTree
        /\ Child(frame[c].parent, Key(c)) = d
    BY <1>1 DEF DbInv, FoundOK
  <2>2. d # Null
    BY <2>1, GoodNow, NodesFacts
  <2> QED BY <2>1, <2>2, ChildBelow
<1>3. Held(c) = {frame[c].parent, d} /\ d # Null
  BY <1>1, <1>2, GoodNow, NodesFacts DEF Held
<1>4. n \in Children(node, d)
  BY <1>1 DEF Children
<1>5. Way(node, d, n, {d})
  <2>1. n \in Under(node, n) /\ d \notin Children(node, d)
    BY <1>2, <1>4, GoodNow, ChildTypes, UnderSelf, SelfAbove DEF InTree
  <2> QED BY <1>2, <1>4, <2>1 DEF Way, InTree
<1>6. \A e \in Clients \ {c} : Names(e) \cap {d} = {}
  BY <1>1, <1>3, NamesApart
<1>7. {d} \in SUBSET Nodes
  BY <1>2, GoodNow
<1> HIDE DEF d, n
<1>8. node[d][IF d = frame[c].target THEN "rchild" ELSE "lchild"] = n
  BY DEF d, n
<1>9. d \in Held(c) /\ {} \in SUBSET {d} /\ Held(c) \ {} = {frame[c].parent, d} /\ Pc(c) \in {"found", "walk"}
  BY <1>1, <1>3
<1>10. d = frame[c].target
  BY DEF d
<1>11. WalksOn(c, d, n, {}, {d})
  BY <1>1, <1>2, <1>4, <1>5, <1>6, <1>7, <1>8, <1>9, <1>10 DEF WalksOn
<1> QED BY <1>11, WalkStep

LEMMA LockLeftStep ==
    ASSUME DbInv, NEW c \in Clients, LockLeft(c)
    PROVE  DbInv'
<1> DEFINE d == frame[c].target
<1> DEFINE n == frame[c].next
<1> DEFINE left == node[n].lchild
<1>1. /\ Pc(c) = "walk" /\ left # Null /\ CanLock(left, "write") /\ Relock(c, left, "write", {n})
      /\ UNCHANGED <<node, alive, answer, closed>>
      /\ Goto(c, [frame[c] EXCEPT !.next = left, !.pnext = n])
  BY DEF LockLeft
<1>2. /\ frame[c] \in FrameTypes /\ Op(c) = "d"
  BY <1>1, FrameFacts DEF DbInv, FrameOK, Pc, Op
<1>3. /\ {frame[c].parent, d, n} \subseteq InTree /\ d # Root /\ node[d].name = Key(c)
  BY <1>1 DEF DbInv, WalkOK
<1>4. PICK s \in SUBSET Nodes : Chain(c, s)
  BY <1>1 DEF DbInv, WalkOK
<1>5. Held(c) = {frame[c].parent, d, n}
  BY <1>1 DEF Held
<1>6. left \in Children(node, n) /\ left \in InTree
  BY <1>1, <1>3, GoodNow, UnderChild DEF Children, InTree
<1>7. Way(node, d, n, s) /\ n \notin s /\ d \in s /\ n # d /\ s \subseteq InTree
  BY <1>4 DEF Chain, Way, InTree
<1>p. n # frame[c].parent /\ d \in Children(node, frame[c].parent)
  <2>1. d \in Children(node, frame[c].parent)
    BY <1>1 DEF DbInv, WalkOK
  <2>2. n \in Under(node, node[d].rchild) /\ d \notin Under(node, node[d].rchild)
    BY <1>3, <1>7, GoodNow, SelfAbove DEF Way, InTree
  <2> QED BY <2>1, <2>2, GoodNow, UnderChild
<1>q. n \in Children(node, frame[c].pnext) /\ frame[c].pnext \in s
  <2>1. frame[c].pnext \in s /\ node[frame[c].pnext][PnextSide(c)] = n
    BY <1>4 DEF Chain
  <2>2. n # Null
    BY <1>3, GoodNow, NodesFacts
  <2> QED BY <2>1, <2>2 DEF Children, PnextSide
<1>8. Way(node, d, left, s \cup {n})
  <2> DEFINE right == Under(node, node[d].rchild)
  <2>1. left \in right /\ d \notin right /\ n \in right
    BY <1>3, <1>6, <1>7, GoodNow, UnderChild, SelfAbove DEF Way, InTree
  <2>2. n # Root /\ node[left].name < node[n].name /\ left # n
    BY <1>1, <1>3, <1>6, GoodNow, UnderSelf, LeftNames, SelfAbove DEF InTree
  <2>3. left \notin s
    <3> SUFFICES ASSUME left \in s PROVE FALSE
      OBVIOUS
    <3>1. PICK x \in s : left \in Children(node, x)
      BY <1>7, <2>1 DEF Way
    <3> QED BY <1>3, <1>6, <1>7, <3>1 DEF DbInv, ShapeOK
  <2>4. \A y \in s : node[y].name \in Nat
    BY <1>7, GoodNow, NameTypes
  <2>5. node[n].name \in Nat /\ node[left].name \in Nat
    BY <1>3, <1>6, GoodNow, NameTypes
  <2>6. \A y \in (s \cup {n}) \ {d} : node[y].name > node[left].name
    BY <1>7, <2>2, <2>4, <2>5 DEF Way
  <2>7. \A y \in (s \cup {n}) \ {d} : \E x \in s \cup {n} : y \in Children(node, x)
    BY <1>7, <1>q DEF Way
  <2>8. \A y \in (s \cup {n}) \ {d} : y \in right /\ node[y].lchild \in (s \cup {n}) \cup {left}
    BY <1>7, <2>1 DEF Way
  <2> QED BY <1>3, <1>7, <2>1, <2>2, <2>3, <2>6, <2>7, <2>8 DEF Way, InTree
<1>9. \A e \in Clients \ {c} : Names(e) \cap (s \cup {n}) = {}
  BY <1>2, <1>4, <1>5, NamesApart DEF Chain
<1>10. [frame[c] EXCEPT !.next = left, !.pnext = n] = [frame[c] EXCEPT !.pc = "walk", !.next = left, !.pnext = n]
  <2>1. {left, n} \subseteq Nodes
    BY <1>3, <1>6, GoodNow
  <2>2. /\ [frame[c] EXCEPT !.next = left, !.pnext = n] \in FrameTypes
        /\ [frame[c] EXCEPT !.pc = "walk", !.next = left, !.pnext = n] \in FrameTypes
    BY <1>2, <2>1 DEF FrameTypes, Pcs
  <2> QED BY <1>1, <1>2, <2>2, FrameEqual DEF FrameTypes, Pc
<1>a. /\ Goto(c, [frame[c] EXCEPT !.pc = "walk", !.next = left, !.pnext = n])
      /\ node[n][IF n = d THEN "rchild" ELSE "lchild"] = left
      /\ s \cup {n} \in SUBSET Nodes /\ Held(c) \ {n} = {frame[c].parent, d}
  BY <1>1, <1>3, <1>5, <1>7, <1>10, <1>p, GoodNow
<1>11. WalksOn(c, n, left, {n}, s \cup {n})
  BY <1>1, <1>2, <1>3, <1>5, <1>6, <1>8, <1>9, <1>a, <1>p DEF WalksOn
<1> QED BY <1>11, WalkStep

-----------------------------------------------------------------------------------
(* The steps that change the tree.                                           *)

LEMMA OneSideSet ==
    ASSUME NEW r \in NodeTypes, NEW side \in {"lchild", "rchild"}, NEW x \in Nodes \cup {Null}
    PROVE  LET u == [r EXCEPT ![side] = x] IN
           /\ u \in NodeTypes /\ u.name = r.name /\ u.value = r.value
           /\ u.lchild = (IF side = "lchild" THEN x ELSE r.lchild)
           /\ u.rchild = (IF side = "rchild" THEN x ELSE r.rchild)
<1>1. CASE side = "lchild"
  <2>1. [r EXCEPT !["lchild"] = x] \in NodeTypes
    BY DEF NodeTypes
  <2> QED BY <1>1, <2>1 DEF NodeTypes
<1>2. CASE side = "rchild"
  <2>1. [r EXCEPT !["rchild"] = x] \in NodeTypes
    BY DEF NodeTypes
  <2> QED BY <1>2, <2>1 DEF NodeTypes
<1> QED BY <1>1, <1>2

\* Whoever has a copy under way or a node to free goes on having it.
LEMMA OthersUnlinked ==
    ASSUME NEW c \in Clients, Others(c)
    PROVE  /\ Pc(c) # "destroy" /\ Pc(c)' # "destroy" => Unlinked' = Unlinked
           /\ Pc(c) # "destroy" /\ Pc(c)' = "destroy" => Unlinked' = Unlinked \cup {frame'[c].next}
           /\ Pc(c) # "unhook" /\ Pc(c)' # "unhook" => Copies' = Copies
           /\ Pc(c) # "unhook" /\ Pc(c)' = "unhook" =>
                 Copies' = Copies \cup {<<frame'[c].target, frame'[c].next>>}
<1>1. \A d \in Clients \ {c} : frame'[d] = frame[d] /\ (Pc(d)' = Pc(d))
  BY OthersSame DEF Others
<1>2. Unlinked = {frame[d].next : d \in {x \in Clients : Pc(x) = "destroy"}}
      /\ Unlinked' = {frame'[d].next : d \in {x \in Clients : Pc(x)' = "destroy"}}
  BY DEF Unlinked
<1>3. Copies = {<<frame[d].target, frame[d].next>> : d \in {x \in Clients : Pc(x) = "unhook"}}
      /\ Copies' = {<<frame'[d].target, frame'[d].next>> : d \in {x \in Clients : Pc(x)' = "unhook"}}
  BY DEF Copies
<1>4. Pc(c) # "destroy" => Unlinked = {frame[d].next : d \in {x \in Clients \ {c} : Pc(x) = "destroy"}}
  BY <1>2
<1>5. Pc(c) # "unhook" => Copies = {<<frame[d].target, frame[d].next>> : d \in {x \in Clients \ {c} : Pc(x) = "unhook"}}
  BY <1>3
<1>6. {frame[d].next : d \in {x \in Clients \ {c} : Pc(x) = "destroy"}} =
      {frame'[d].next : d \in {x \in Clients \ {c} : Pc(x)' = "destroy"}}
  BY <1>1
<1>7. {<<frame[d].target, frame[d].next>> : d \in {x \in Clients \ {c} : Pc(x) = "unhook"}} =
      {<<frame'[d].target, frame'[d].next>> : d \in {x \in Clients \ {c} : Pc(x)' = "unhook"}}
  BY <1>1
<1>8. Pc(c)' # "destroy" => Unlinked' = {frame'[d].next : d \in {x \in Clients \ {c} : Pc(x)' = "destroy"}}
  BY <1>2
<1>9. Pc(c)' # "unhook" => Copies' = {<<frame'[d].target, frame'[d].next>> : d \in {x \in Clients \ {c} : Pc(x)' = "unhook"}}
  BY <1>3
<1>10. Pc(c)' = "destroy" => Unlinked' = {frame'[d].next : d \in {x \in Clients \ {c} : Pc(x)' = "destroy"}} \cup {frame'[c].next}
  BY <1>2
<1>11. Pc(c)' = "unhook" => Copies' = {<<frame'[d].target, frame'[d].next>> : d \in {x \in Clients \ {c} : Pc(x)' = "unhook"}}
                                      \cup {<<frame'[c].target, frame'[c].next>>}
  BY <1>3
<1> QED BY <1>4, <1>5, <1>6, <1>7, <1>8, <1>9, <1>10, <1>11

\* The shape of the tree and the names and values in it make ShapeOK.
LEMMA ShapeFrom ==
    ASSUME Shape(node)', node'[Root].name = 0,
           \A n \in InTree' \ {Root} : node'[n].name \in Keys /\ node'[n].value \in Keys
    PROVE  ShapeOK'
  BY DEF Shape, ShapeOK, InTree

\* A thread in a step that has changed the tree, with what it has changed.
LEMMA TreeStep ==
    ASSUME DbInv, NEW c \in Clients, Others(c), FramesOK', LocksFit', TreeOK', ThreadOK(c)',
           Typed(node)', (alive \subseteq Nodes)', NEW mine, Apart(c, mine),
           \A d \in Clients \ {c} :
              Pc(d) = "search" => Fits(node', frame[d].parent, Key(d)),
           \A d \in Clients \ {c} : \A s :
              Chain(d, s) /\ Pc(d) \in {"walk", "unhook"} =>
                  Way(node', frame[d].target, frame[d].next, s)
    PROVE  DbInv'
<1>1. \A d \in Clients : ThreadOK(d)'
  BY OthersKeep
<1> QED BY <1>1, Together

\* The tree after a node for name k and value v has been hung below p.
Added(p, k, v, new) ==
    /\ p \in InTree /\ new \in Nodes \ alive /\ alive' = alive \cup {new}
    /\ node' = [node EXCEPT ![p][Side(p, k)] = new, ![new] = [NoNode EXCEPT !.name = k, !.value = v]]

LEMMA AddedTree ==
    ASSUME DbInv, ~closed, NEW p \in InTree, NEW k \in Keys, NEW v \in Keys, NEW new, Added(p, k, v, new),
           Child(p, k) = Null
    PROVE  /\ Typed(node)' /\ With(node, node', p, new)
           /\ \A x \in Nodes \ {p, new} : node'[x] = node[x]
           /\ node'[p].name = node[p].name /\ node'[p].value = node[p].value
           /\ node'[new].name = k /\ node'[new].value = v
           /\ node'[p].lchild = new => k < node[p].name
           /\ node'[p].rchild = new => ~(k < node[p].name)
<1> DEFINE r == [NoNode EXCEPT !.name = k, !.value = v]
<1>0. Typed(node) /\ p \in Nodes /\ new \in Nodes /\ p # new /\ new \notin InTree /\ new # Null
  BY GoodNow, NodesFacts DEF Added, DbInv, AllocOK
<1>1. node' = [node EXCEPT ![p][Side(p, k)] = new, ![new] = r]
  BY DEF Added
<1>2. r.name = k /\ r.value = v /\ r.lchild = Null /\ r.rchild = Null /\ r \in NodeTypes
  BY DEF NoNode, NodeTypes
<1> HIDE DEF r
<1>3. /\ \A x \in Nodes \ {p, new} : node'[x] = node[x]
      /\ node'[p] = [node[p] EXCEPT ![Side(p, k)] = new] /\ node'[new] = r
      /\ DOMAIN node' = Nodes /\ node' = [x \in Nodes |-> node'[x]]
  BY <1>0, <1>1 DEF Typed
<1>4. node[p] \in NodeTypes /\ Side(p, k) \in {"lchild", "rchild"} /\ new \in Nodes \cup {Null}
  BY <1>0 DEF Typed, Side
<1>5. /\ node'[p] \in NodeTypes /\ node'[p].name = node[p].name /\ node'[p].value = node[p].value
      /\ node'[p].lchild = (IF Side(p, k) = "lchild" THEN new ELSE node[p].lchild)
      /\ node'[p].rchild = (IF Side(p, k) = "rchild" THEN new ELSE node[p].rchild)
  BY <1>3, <1>4, OneSideSet
<1>6. Typed(node)'
  <2>1. \A x \in Nodes : node'[x] \in NodeTypes
    BY <1>0, <1>2, <1>3, <1>5 DEF Typed
  <2> QED BY <1>3, <2>1 DEF Typed
<1>7. new # node[p].lchild /\ new # node[p].rchild
  <2>1. Children(node, p) \subseteq InTree
    BY GoodNow, UnderChild DEF InTree
  <2> QED BY <1>0, <2>1 DEF Children
<1>8. (Side(p, k) = "lchild" <=> k < node[p].name) /\ node[p][Side(p, k)] = Null
  BY DEF Side, Child
<1>9. /\ node'[p].lchild = new => k < node[p].name
      /\ node'[p].rchild = new => ~(k < node[p].name)
  BY <1>4, <1>5, <1>7, <1>8
<1>10. With(node, node', p, new)
  <2>1. \/ node'[p].lchild = new /\ node[p].lchild = Null /\ node'[p].rchild = node[p].rchild
        \/ node'[p].rchild = new /\ node[p].rchild = Null /\ node'[p].lchild = node[p].lchild
    BY <1>4, <1>5, <1>8
  <2>2. \A x \in InTree \ {p} : SameSides(node, node', x)
    BY <1>0, <1>3, GoodNow DEF SameSides
  <2> QED BY <1>0, <1>2, <1>3, <2>1, <2>2 DEF With, InTree
<1> QED BY <1>2, <1>3, <1>5, <1>6, <1>9, <1>10

LEMMA AddMissStep ==
    ASSUME DbInv, NEW c \in Clients, AddMiss(c)
    PROVE  DbInv'
<1> DEFINE p == frame[c].parent
<1> DEFINE k == Key(c)
<1> DEFINE v == frame[c].req.val
<1> DEFINE new == FreeNode(k)
<1>1. Missed(c) /\ Pc(c) = "search" /\ Child(p, k) = Null /\ Unlock(c, {p}) /\ Ends(c) /\ UNCHANGED closed
      /\ Op(c) = "a" /\ ~closed
  BY OpenWhileBusy DEF AddMiss, Missed, Ends
<1>2. CASE alive = Nodes
  BY <1>1, <1>2, MissStep DEF AddMiss, Replies
<1>3. CASE alive # Nodes
  <2>1. /\ Answers(c, "added") /\ alive' = alive \cup {new}
        /\ node' = [node EXCEPT ![p][Side(p, k)] = new, ![new] = [NoNode EXCEPT !.name = k, !.value = v]]
    BY <1>3 DEF AddMiss
  <2>2. new \in Nodes \ alive
    BY <1>3 DEF FreeNode, DbInv, TypeOK
  <2>3. /\ p \in InTree /\ (p # Root => node[p].name # k) /\ Fits(node, p, k)
        /\ k \in Keys /\ k \in Nat \ {0} /\ v \in Keys
    BY <1>1, FrameFacts DEF DbInv, SearchOK
  <2>4. Added(p, k, v, new)
    BY <2>1, <2>2, <2>3 DEF Added
  <2> HIDE DEF p, k, v, new
  <2>5. /\ Typed(node)' /\ With(node, node', p, new)
        /\ \A x \in Nodes \ {p, new} : node'[x] = node[x]
        /\ node'[p].name = node[p].name /\ node'[p].value = node[p].value
        /\ node'[new].name = k /\ node'[new].value = v
        /\ node'[p].lchild = new => k < node[p].name
        /\ node'[p].rchild = new => ~(k < node[p].name)
    BY <1>1, <2>3, <2>4, AddedTree
  <2>6. /\ FramesOK' /\ Others(c) /\ ThreadOK(c)'
        /\ Pc(c)' = "done" /\ Held(c)' = {} /\ Names(c)' = {}
    BY <1>1, <2>1, RepliesAreAnswers, EndsFrame DEF DbInv, Answers, Replies
  <2>7. Unlinked' = Unlinked /\ Copies' = Copies
    BY <1>1, <2>6, OthersUnlinked
  <2>8. LocksFit'
    <3>1. Relocked(c, Null, {p}) /\ Held(c) = {p}
      BY <1>1, RelockGives DEF Held, p
    <3> QED BY <2>6, <3>1, LocksGoOn
  <2>9. InTree' = InTree \cup {new} /\ new \notin InTree /\ new \notin Unlinked /\ Root \in InTree
    <3>1. new \notin InTree /\ new \notin Unlinked
      BY <1>1, <2>2 DEF DbInv, AllocOK
    <3> QED BY <2>3, <2>5, <3>1, GoodNow, UnderWith DEF InTree
  <2>10. \A x \in InTree : node'[x].name = node[x].name /\ node'[x].value = node[x].value
    BY <2>5, <2>9, GoodNow
  <2>11. Shape(node)' /\ Sorted(node, Copies)'
    <3>1. node[p].name \in Nat /\ (p = Root => node[p].name = 0)
      BY <2>3, GoodNow, NameTypes DEF DbInv, ShapeOK
    <3>2. /\ node'[p].lchild = new => p # Root /\ node'[new].name < node[p].name
          /\ node'[p].rchild = new /\ p # Root => node'[new].name > node[p].name
      BY <2>3, <2>5, <3>1
    <3>3. GoodTree(node, Copies) /\ Typed(node')
      BY <2>5, GoodNow DEF Typed
    <3>4. Shape(node') /\ Sorted(node', Copies')
      BY <2>3, <2>5, <2>7, <2>10, <3>2, <3>3, GoodWith DEF InTree
    <3> QED BY <3>4 DEF Shape, Sorted
  <2>12. TreeOK'
    <3>1. ShapeOK'
      BY <2>3, <2>5, <2>9, <2>10, <2>11, ShapeFrom DEF DbInv, ShapeOK
    <3>2. AllocOK'
      <4>1. InTree' \cap Unlinked' = {} /\ alive' = InTree' \cup Unlinked' /\ ~closed'
        BY <1>1, <2>1, <2>7, <2>9 DEF DbInv, AllocOK
      <4>2. \A d, e \in Clients : Pc(d)' = "destroy" /\ Pc(e)' = "destroy" /\ frame'[d].next = frame'[e].next => d = e
        BY <2>6, OthersSame DEF DbInv, AllocOK, Others
      <4> QED BY <4>1, <4>2 DEF AllocOK
    <3> QED BY <2>11, <3>1, <3>2 DEF TreeOK
  <2>13. Held(c) = {p} /\ p \in Names(c)
    BY <1>1, HeldNames DEF Held, p
  <2>14. Apart(c, {p})
    <3>1. \A x \in InTree \ {p} : x \in InTree' /\ node'[x] = node[x]
      BY <2>5, <2>9, GoodNow
    <3>2. \A d \in Clients \ {c} : {p} \cap Held(d) = {}
      BY <1>1, <2>13, HeldApart
    <3> QED BY <2>6, <2>13, <3>1, <3>2 DEF Apart
  <2>15. \A d \in Clients \ {c} : Pc(d) = "search" => Fits(node', frame[d].parent, Key(d))
    <3> SUFFICES ASSUME NEW d \in Clients \ {c}, Pc(d) = "search" PROVE Fits(node', frame[d].parent, Key(d))
      OBVIOUS
    <3>1. frame[d].parent \in InTree /\ Fits(node, frame[d].parent, Key(d))
      BY DEF DbInv, SearchOK
    <3>2. Typed(node) /\ Typed(node') /\ \A x \in Under(node, Root) : node'[x].name = node[x].name
      BY <2>5, <2>10, GoodNow DEF Typed, InTree
    <3> QED BY <2>5, <3>1, <3>2, FitsWith DEF InTree
  <2>16. \A d \in Clients \ {c} : \A s :
            Chain(d, s) /\ Pc(d) \in {"walk", "unhook"} => Way(node', frame[d].target, frame[d].next, s)
    <3> SUFFICES ASSUME NEW d \in Clients \ {c}, NEW s, Chain(d, s), Pc(d) \in {"walk", "unhook"}
                 PROVE  Way(node', frame[d].target, frame[d].next, s)
      OBVIOUS
    <3>1. Way(node, frame[d].target, frame[d].next, s) /\ p \notin s
      BY <2>13 DEF Chain
    <3>2. {frame[d].target, frame[d].next} \subseteq InTree /\ s \subseteq InTree
      BY <3>1 DEF DbInv, WalkOK, Way, InTree
    <3>3. Typed(node) /\ Typed(node') /\ \A x \in s \cup {frame[d].next} : node'[x].name = node[x].name
      BY <2>5, <2>10, <3>2, GoodNow DEF Typed
    <3> QED BY <2>5, <3>1, <3>2, <3>3, WayWith DEF InTree
  <2>17. (alive \subseteq Nodes)'
    BY <2>1, <2>2 DEF DbInv, TypeOK
  <2> QED BY <2>5, <2>6, <2>8, <2>12, <2>14, <2>15, <2>16, <2>17, TreeStep
<1> QED BY <1>2, <1>3

\* A remove takes e out of the tree: its only child h, or Null, takes its place below q.
Unlinks(c, q, side, e, h, given, a) ==
    /\ Pc(c) \in {"found", "unhook"} /\ Op(c) = "d" /\ (Pc(c) = "unhook" => frame[c].next = e)
    /\ q \in InTree /\ side \in {"lchild", "rchild"} /\ node[q][side] = e
    /\ e \in InTree \ {Root} /\ h \in Children(node, e) \cup {Null} /\ Children(node, e) \subseteq {h}
    /\ e \in Held(c) /\ q \in Names(c) /\ (\A d \in Clients \ {c} : q \notin Names(d))
    /\ SetChild(q, side, h)
    /\ Unlock(c, given) /\ Held(c) \subseteq given
    /\ Goto(c, [NoFrame EXCEPT !.pc = "destroy", !.req = frame[c].req, !.next = e])
    /\ answer' = [answer EXCEPT ![c] = a] /\ a # Absent
    /\ UNCHANGED <<alive, closed>>

LEMMA UnlinkedTree ==
    ASSUME DbInv, NEW c \in Clients, NEW q, NEW side, NEW e, NEW h, NEW given, NEW a,
           Unlinks(c, q, side, e, h, given, a)
    PROVE  /\ Typed(node)' /\ Without(node, node', e, h) /\ e # q
           /\ \A x \in Nodes \ {q} : node'[x] = node[x]
           /\ node'[q].name = node[q].name /\ node'[q].value = node[q].value
<1>0. /\ Typed(node) /\ q \in Nodes /\ e \in Nodes /\ e # Null /\ e \in Children(node, q) /\ h \in Nodes \cup {Null}
      /\ side \in {"lchild", "rchild"} /\ node[q][side] = e /\ q \in InTree /\ e \in InTree \ {Root}
      /\ h \in Children(node, e) \cup {Null} /\ Children(node, e) \subseteq {h}
      /\ node' = [node EXCEPT ![q][side] = h]
  <2>1. Typed(node) /\ q \in Nodes /\ e \in Nodes /\ e # Null
    BY GoodNow, NodesFacts DEF Unlinks
  <2>2. e \in Children(node, q)
    BY <2>1 DEF Unlinks, Children
  <2>3. h \in Nodes \cup {Null}
    BY <2>1, ChildTypes DEF Unlinks
  <2> QED BY <2>1, <2>2, <2>3 DEF Unlinks, SetChild
<1>1. e # q /\ \A x \in InTree \ {q} : e \notin Children(node, x)
  <2>1. e # q
    BY <1>0, GoodNow, SelfAbove DEF InTree
  <2> QED BY <1>0, <2>1 DEF DbInv, ShapeOK
<1>2. /\ \A x \in Nodes \ {q} : node'[x] = node[x]
      /\ node'[q] = [node[q] EXCEPT ![side] = h]
      /\ node' = [x \in Nodes |-> node'[x]]
  BY <1>0 DEF Typed
<1>3. /\ node'[q] \in NodeTypes /\ node'[q].name = node[q].name /\ node'[q].value = node[q].value
      /\ node'[q].lchild = (IF side = "lchild" THEN h ELSE node[q].lchild)
      /\ node'[q].rchild = (IF side = "rchild" THEN h ELSE node[q].rchild)
  <2>1. node[q] \in NodeTypes
    BY <1>0 DEF Typed
  <2> QED BY <1>0, <1>2, <2>1, OneSideSet
<1>4. Typed(node)'
  <2>1. \A x \in Nodes : node'[x] \in NodeTypes
    BY <1>0, <1>2, <1>3 DEF Typed
  <2> QED BY <1>2, <2>1 DEF Typed
<1>5. /\ side = "lchild" => node[q].lchild = e /\ node[q].rchild # e
      /\ side = "rchild" => node[q].rchild = e /\ node[q].lchild # e
  <2>1. e \in Under(node, e)
    BY <1>0, UnderSelf
  <2>2. ~(node[q].lchild = e /\ node[q].rchild = e)
    BY <1>0, <2>1, GoodNow, SidesApart DEF InTree
  <2>3. /\ side = "lchild" => node[q].lchild = e
        /\ side = "rchild" => node[q].rchild = e
    BY <1>0
  <2> QED BY <2>2, <2>3
<1>6. node'[q].lchild = Cut(node[q].lchild, e, h) /\ node'[q].rchild = Cut(node[q].rchild, e, h)
  BY <1>0, <1>3, <1>5 DEF Cut
<1>7. \A x \in InTree \ {q} : node[x].lchild # e /\ node[x].rchild # e
  BY <1>0, <1>1 DEF Children
<1>8. \A x \in InTree \ {e} : node'[x].lchild = Cut(node[x].lchild, e, h) /\ node'[x].rchild = Cut(node[x].rchild, e, h)
  BY <1>2, <1>6, <1>7, GoodNow DEF Cut
<1> QED BY <1>0, <1>1, <1>2, <1>3, <1>4, <1>8 DEF Without, InTree

LEMMA UnlinkStep ==
    ASSUME DbInv, NEW c \in Clients, NEW q, NEW side, NEW e, NEW h, NEW given, NEW a,
           Unlinks(c, q, side, e, h, given, a)
    PROVE  DbInv'
<1> DEFINE f == [NoFrame EXCEPT !.pc = "destroy", !.req = frame[c].req, !.next = e]
<1>1. /\ Typed(node)' /\ Without(node, node', e, h) /\ e # q
      /\ \A x \in Nodes \ {q} : node'[x] = node[x]
      /\ node'[q].name = node[q].name /\ node'[q].value = node[q].value
  BY UnlinkedTree
<1>2. /\ Pc(c) \in {"found", "unhook"} /\ Op(c) = "d" /\ (Pc(c) = "unhook" => frame[c].next = e)
      /\ q \in InTree /\ e \in InTree \ {Root} /\ e \in Held(c) /\ q \in Names(c)
      /\ \A d \in Clients \ {c} : q \notin Names(d)
      /\ Unlock(c, given) /\ Held(c) \subseteq given /\ Goto(c, f) /\ answer' = [answer EXCEPT ![c] = a] /\ a # Absent
      /\ alive' = alive /\ closed' = closed /\ FramesOK
  BY DEF Unlinks, DbInv
<1>3. /\ frame[c].req \in AllRequests /\ ~closed /\ e \in Nodes /\ e # Null /\ q \in Nodes
      /\ e \in Names(c) /\ (\A d \in Clients \ {c} : e \notin Held(d))
  BY <1>2, FrameFacts, OpenWhileBusy, GoodNow, NodesFacts, HeldNames, HeldApart
<1>4. f.pc = "destroy" /\ f.req = frame[c].req /\ f.parent = Null /\ f.target = Null /\ f.next = e /\ f.pnext = Null
  BY DEF NoFrame
<1>5. f \in FrameTypes
  BY <1>3 DEF NoFrame, FrameTypes, Pcs
<1> HIDE DEF f
<1>6. FrameOK(f, a)
  BY <1>2, <1>3, <1>4, RequestAssumption DEF FrameOK, Op
<1>7. FramesOK' /\ frame'[c] = f /\ Others(c)
  BY <1>2, <1>5, <1>6, FrameGoes
<1>8. Pc(c)' = "destroy" /\ Held(c)' = {} /\ Names(c)' = {e} /\ frame'[c].next = e
  BY <1>3, <1>4, <1>7 DEF Pc, Held, Names
<1>9. LocksFit'
  <2>1. Relocked(c, Null, given)
    BY <1>2, RelockGives
  <2> QED BY <1>2, <1>7, <1>8, <2>1, LocksGoOn
<1>10. ThreadOK(c)'
  BY <1>8 DEF ThreadOK, SearchOK, FoundOK, WalkOK, UnhookOK
<1>11. InTree' = InTree \ {e} /\ Root \in InTree \ {e}
  <2>1. e \notin Children(node, e)
    BY <1>2, GoodNow, SelfAbove DEF InTree
  <2> QED BY <1>1, <1>2, <2>1, GoodNow, UnderWithout DEF InTree, Typed
<1>12. \A x \in InTree : node'[x].name = node[x].name /\ node'[x].value = node[x].value
  BY <1>1, GoodNow
<1>13. Unlinked' = Unlinked \cup {e} /\ e \notin Unlinked
  <2>1. Unlinked' = Unlinked \cup {e}
    BY <1>2, <1>7, <1>8, OthersUnlinked
  <2> QED BY <1>2, <2>1 DEF DbInv, AllocOK
<1>14. \A x, y \in InTree \ {e} : <<x, y>> \in Copies => <<x, y>> \in Copies'
  <2> SUFFICES ASSUME NEW x \in InTree \ {e}, NEW y \in InTree \ {e}, <<x, y>> \in Copies PROVE <<x, y>> \in Copies'
    OBVIOUS
  <2>1. PICK d \in Clients : Pc(d) = "unhook" /\ x = frame[d].target /\ y = frame[d].next
    BY DEF Copies
  <2>2. d # c
    BY <1>2, <2>1
  <2>3. Pc(d)' = "unhook" /\ frame'[d] = frame[d]
    BY <1>7, <2>1, <2>2, OthersSame DEF Others
  <2> QED BY <2>1, <2>3 DEF Copies
<1>15. Shape(node)' /\ Sorted(node, Copies)'
  <2>1. Typed(node') /\ GoodTree(node, Copies)
    BY <1>1, GoodNow DEF Typed
  <2>2. Shape(node') /\ Sorted(node', Copies')
    BY <1>1, <1>12, <1>14, <2>1, GoodWithout DEF InTree
  <2> QED BY <2>2 DEF Shape, Sorted
<1>16. TreeOK'
  <2>1. ShapeOK'
    BY <1>11, <1>12, <1>15, ShapeFrom DEF DbInv, ShapeOK
  <2>2. InTree' \cap Unlinked' = {} /\ alive' = InTree' \cup Unlinked' /\ ~closed'
    BY <1>2, <1>3, <1>11, <1>13 DEF DbInv, AllocOK
  <2>3. ASSUME NEW d \in Clients, NEW b \in Clients, Pc(d)' = "destroy", Pc(b)' = "destroy", frame'[d].next = frame'[b].next
        PROVE  d = b
    <3>1. \A x \in Clients \ {c} : Pc(x)' = "destroy" => Pc(x) = "destroy" /\ frame'[x] = frame[x] /\ frame[x].next \in Unlinked
      BY <1>7, OthersSame DEF Others, Unlinked
    <3>2. CASE d = c \/ b = c
      BY <1>8, <1>13, <2>3, <3>1, <3>2
    <3>3. CASE d # c /\ b # c
      BY <2>3, <3>1, <3>3 DEF DbInv, AllocOK
    <3> QED BY <3>2, <3>3
  <2>4. AllocOK'
    BY <2>2, <2>3 DEF AllocOK
  <2> QED BY <1>15, <2>1, <2>4 DEF TreeOK
<1>17. Apart(c, {q, e})
  <2>1. \A x \in InTree \ {q, e} : x \in InTree' /\ node'[x] = node[x]
    BY <1>1, <1>11, GoodNow
  <2>2. \A d \in Clients \ {c} : {q, e} \cap Held(d) = {}
    BY <1>2, <1>3, HeldNames
  <2>3. \A d \in Clients \ {c} : \A s : Chain(d, s) => Names(c)' \cap s = {}
    BY <1>3, <1>8 DEF Chain
  <2> QED BY <1>2, <1>3, <2>1, <2>2, <2>3 DEF Apart
<1>18. \A d \in Clients \ {c} : Pc(d) = "search" => Fits(node', frame[d].parent, Key(d))
  <2> SUFFICES ASSUME NEW d \in Clients \ {c}, Pc(d) = "search" PROVE Fits(node', frame[d].parent, Key(d))
    OBVIOUS
  <2>1. Fits(node, frame[d].parent, Key(d))
    BY DEF DbInv, SearchOK
  <2>2. GoodTree(node, Copies) /\ Typed(node') /\ \A x \in Under(node, Root) \ {e} : node'[x].name = node[x].name
    BY <1>1, <1>12, GoodNow DEF Typed, InTree
  <2> QED BY <1>1, <2>1, <2>2, FitsWithout
<1>19. \A d \in Clients \ {c} : \A s :
          Chain(d, s) /\ Pc(d) \in {"walk", "unhook"} => Way(node', frame[d].target, frame[d].next, s)
  <2> SUFFICES ASSUME NEW d \in Clients \ {c}, NEW s, Chain(d, s), Pc(d) \in {"walk", "unhook"}
               PROVE  Way(node', frame[d].target, frame[d].next, s)
    OBVIOUS
  <2>1. Way(node, frame[d].target, frame[d].next, s) /\ e \notin s
    BY <1>3 DEF Chain
  <2>2. {frame[d].target, frame[d].next} \subseteq InTree /\ s \subseteq InTree
    BY <2>1 DEF DbInv, WalkOK, Way, InTree
  <2>3. e # frame[d].next
    BY <1>3 DEF Held
  <2>4. GoodTree(node, Copies) /\ Typed(node') /\ \A x \in s \cup {frame[d].next} : node'[x].name = node[x].name
    BY <1>1, <1>12, <2>2, GoodNow DEF Typed
  <2>5. frame[d].target \in Under(node, Root) /\ e \notin s \cup {frame[d].next}
    BY <2>1, <2>2, <2>3 DEF InTree
  <2> QED BY <1>1, <2>1, <2>4, <2>5, WayWithout
<1>20. (alive \subseteq Nodes)'
  BY <1>2 DEF DbInv, TypeOK
<1> QED BY <1>1, <1>7, <1>9, <1>10, <1>16, <1>17, <1>18, <1>19, <1>20, TreeStep

LEMMA SpliceUnlinks ==
    ASSUME DbInv, NEW c \in Clients, Splice(c)
    PROVE  \E side, heir : /\ Pc(c) = "found"
                           /\ Unlinks(c, frame[c].parent, side, frame[c].target, heir,
                                      {frame[c].parent, frame[c].target}, "removed")
<1> DEFINE p == frame[c].parent
<1> DEFINE d == frame[c].target
<1> DEFINE heir == IF node[d].rchild = Null THEN node[d].lchild ELSE node[d].rchild
<1> DEFINE side == Side(p, node[d].name)
<1>1. /\ Pc(c) = "found" /\ Op(c) = "d" /\ (node[d].rchild = Null \/ node[d].lchild = Null)
      /\ SetChild(p, side, heir) /\ Unlock(c, {p, d}) /\ Answers(c, "removed") /\ UNCHANGED <<alive, closed>>
      /\ Goto(c, [NoFrame EXCEPT !.pc = "destroy", !.req = frame[c].req, !.next = d])
  BY DEF Splice, Removing
<1>2. d \in InTree \ {Root} /\ node[d].name = Key(c) /\ p \in InTree /\ Child(p, Key(c)) = d
  BY <1>1 DEF DbInv, FoundOK
<1>3. node[p][side] = d /\ side \in {"lchild", "rchild"}
  BY <1>2 DEF Child, Side
<1>4. Held(c) \subseteq {p, d} /\ d \in Held(c) /\ p \in Held(c)
  BY <1>1, <1>2, GoodNow, NodesFacts DEF Held
<1>5. p \in Names(c) /\ \A e \in Clients \ {c} : p \notin Names(e)
  BY <1>1, <1>4, HeldNames, NamesApart
<1>6. heir \in Children(node, d) \cup {Null} /\ Children(node, d) \subseteq {heir}
  BY <1>1 DEF Children
<1>7. "removed" # Absent
  BY RepliesAreAnswers DEF Replies
<1>8. Unlinks(c, p, side, d, heir, {p, d}, "removed")
  BY <1>1, <1>2, <1>3, <1>4, <1>5, <1>6, <1>7 DEF Unlinks, Answers
<1> QED BY <1>1, <1>8

LEMMA SpliceStep == ASSUME DbInv, NEW c \in Clients, Splice(c) PROVE DbInv'
  BY SpliceUnlinks, UnlinkStep

LEMMA UnhookUnlinks ==
    ASSUME DbInv, NEW c \in Clients, Unhook(c)
    PROVE  /\ Pc(c) = "unhook" /\ UNCHANGED answer
           /\ \E side, heir, given : Unlinks(c, frame[c].pnext, side, frame[c].next, heir, given, answer[c])
<1> DEFINE n == frame[c].next
<1> DEFINE q == frame[c].pnext
<1> DEFINE side == PnextSide(c)
<1> DEFINE heir == node[n].rchild
<1> DEFINE given == {frame[c].parent, frame[c].target, n}
<1>1. /\ Pc(c) = "unhook" /\ SetChild(q, side, heir) /\ Unlock(c, given) /\ UNCHANGED <<alive, answer, closed>>
      /\ Goto(c, [NoFrame EXCEPT !.pc = "destroy", !.req = frame[c].req, !.next = n])
  BY DEF Unhook
<1>2. Op(c) = "d" /\ answer[c] # Absent
  BY <1>1, FrameFacts DEF DbInv, FrameOK, Pc, Op
<1>3. PICK s \in SUBSET Nodes : Chain(c, s)
  BY <1>1 DEF DbInv, WalkOK
<1>4. q \in s /\ node[q][side] = n /\ Way(node, frame[c].target, n, s) /\ \A d \in Clients \ {c} : Names(d) \cap s = {}
  BY <1>3 DEF Chain
<1>5. q \in InTree /\ n \in InTree /\ frame[c].target \in InTree /\ node[n].lchild = Null
  BY <1>1, <1>4 DEF DbInv, WalkOK, UnhookOK, Way, InTree
<1>6. n # Root
  <2>1. side \in {"lchild", "rchild"} /\ n # Null
    BY <1>5, GoodNow, NodesFacts DEF PnextSide
  <2>2. n \in Children(node, q)
    BY <1>4, <2>1 DEF Children
  <2> QED BY <1>5, <2>2 DEF DbInv, ShapeOK
<1>7. Held(c) = given /\ n \in Held(c)
  BY <1>1 DEF Held
<1>8. q \in Names(c) /\ \A d \in Clients \ {c} : q \notin Names(d)
  BY <1>4, <1>5, GoodNow, NodesFacts DEF Names
<1>9. heir \in Children(node, n) \cup {Null} /\ Children(node, n) \subseteq {heir}
  BY <1>5 DEF Children
<1>10. side \in {"lchild", "rchild"} /\ answer' = [answer EXCEPT ![c] = answer[c]]
  BY <1>1, AnswerStays DEF PnextSide, DbInv
<1>11. Unlinks(c, q, side, n, heir, given, answer[c])
  BY <1>1, <1>2, <1>4, <1>5, <1>6, <1>7, <1>8, <1>9, <1>10 DEF Unlinks
<1> QED BY <1>1, <1>11

LEMMA UnhookStep == ASSUME DbInv, NEW c \in Clients, Unhook(c) PROVE DbInv'
  BY UnhookUnlinks, UnlinkStep

LEMMA CopiedTree ==
    ASSUME DbInv, NEW d \in InTree, NEW n \in InTree,
           node' = [node EXCEPT ![d].name = node[n].name, ![d].value = node[n].value]
    PROVE  /\ Typed(node)' /\ Renamed(node, node', d, n)
           /\ \A x \in Nodes \ {d} : node'[x] = node[x]
           /\ node'[d].name = node[n].name /\ node'[d].value = node[n].value
           /\ node'[d].lchild = node[d].lchild /\ node'[d].rchild = node[d].rchild
<1>1. Typed(node) /\ d \in Nodes /\ n \in Nodes /\ node[d] \in NodeTypes /\ node[n] \in NodeTypes
  BY GoodNow, ChildTypes
<1>2. /\ node' = [x \in Nodes |-> node'[x]] /\ \A x \in Nodes \ {d} : node'[x] = node[x]
      /\ node'[d] = [node[d] EXCEPT !.name = node[n].name, !.value = node[n].value]
  BY <1>1 DEF Typed
<1>3. /\ node'[d].name = node[n].name /\ node'[d].value = node[n].value
      /\ node'[d].lchild = node[d].lchild /\ node'[d].rchild = node[d].rchild
      /\ node'[d] \in NodeTypes
  BY <1>1, <1>2 DEF NodeTypes
<1>4. Typed(node)'
  <2>1. \A x \in Nodes : node'[x] \in NodeTypes
    BY <1>1, <1>2, <1>3 DEF Typed
  <2> QED BY <1>2, <2>1 DEF Typed
<1>5. Renamed(node, node', d, n)
  BY <1>2, <1>3, GoodNow DEF Renamed, SameSides, InTree
<1> QED BY <1>2, <1>3, <1>4, <1>5

LEMMA CopyUpStep ==
    ASSUME DbInv, NEW c \in Clients, CopyUp(c)
    PROVE  DbInv'
<1> DEFINE d == frame[c].target
<1> DEFINE n == frame[c].next
<1> DEFINE f == [frame[c] EXCEPT !.pc = "unhook"]
<1>1. /\ Pc(c) = "walk" /\ node[n].lchild = Null /\ Goto(c, f) /\ Answers(c, "removed") /\ ~closed
      /\ node' = [node EXCEPT ![d].name = node[n].name, ![d].value = node[n].value]
      /\ UNCHANGED <<alive, writer, readers, closed>> /\ FramesOK
  BY OpenWhileBusy DEF CopyUp, DbInv
<1>2. frame[c] \in FrameTypes /\ Op(c) = "d" /\ n # Null /\ frame[c].req \in AllRequests
  BY <1>1, FrameFacts DEF FrameOK, Pc, Op
<1>3. /\ {frame[c].parent, d, n} \subseteq InTree /\ d # Root /\ node[d].name = Key(c)
      /\ d \in Children(node, frame[c].parent)
  BY <1>1 DEF DbInv, WalkOK
<1>4. PICK s \in SUBSET Nodes : Chain(c, s)
  BY <1>1 DEF DbInv, WalkOK
<1>5. /\ Way(node, d, n, s) /\ d \in s /\ n \notin s /\ n # d /\ s \subseteq InTree
      /\ frame[c].pnext \in s /\ node[frame[c].pnext][PnextSide(c)] = n
      /\ \A e \in Clients \ {c} : Names(e) \cap s = {}
  BY <1>4 DEF Chain, Way, InTree
<1>6. Held(c) = {frame[c].parent, d, n}
  BY <1>1 DEF Held
<1>7. /\ f.pc = "unhook" /\ f.req = frame[c].req /\ f.parent = frame[c].parent /\ f.target = d
      /\ f.next = n /\ f.pnext = frame[c].pnext
  BY <1>2 DEF FrameTypes
<1>8. f \in FrameTypes
  BY <1>2 DEF FrameTypes, Pcs
<1> HIDE DEF f
<1>9. FrameOK(f, "removed") /\ "removed" # Absent
  BY <1>2, <1>7, RepliesAreAnswers, RequestAssumption DEF FrameOK, Op, Replies
<1>10. FramesOK' /\ frame'[c] = f /\ Others(c)
  BY <1>1, <1>8, <1>9, FrameGoes DEF Answers
<1>11. /\ Pc(c)' = "unhook" /\ Op(c)' = "d" /\ Names(c)' = Names(c) /\ Held(c)' = Held(c)
       /\ frame'[c].parent = frame[c].parent /\ frame'[c].target = d /\ frame'[c].next = n
       /\ frame'[c].pnext = frame[c].pnext /\ PnextSide(c)' = PnextSide(c)
  BY <1>1, <1>2, <1>7, <1>10 DEF Pc, Op, Names, Held, PnextSide
<1> HIDE DEF d, n
<1>12. LocksFit'
  <2>1. Relocked(c, Null, {})
    BY <1>1, RelockNone
  <2>2. \A x \in Held(c)' : writer[x] = c
    BY <1>2, <1>11, OwnLocks
  <2> QED BY <1>10, <1>11, <2>1, <2>2, LocksGoOn
<1>13. /\ Typed(node)' /\ Renamed(node, node', d, n)
       /\ \A x \in Nodes \ {d} : node'[x] = node[x]
       /\ node'[d].name = node[n].name /\ node'[d].value = node[n].value
       /\ node'[d].lchild = node[d].lchild /\ node'[d].rchild = node[d].rchild
  <2>1. d \in InTree /\ n \in InTree
    BY <1>3 DEF d, n
  <2>2. node' = [node EXCEPT ![d].name = node[n].name, ![d].value = node[n].value]
    BY <1>1 DEF d, n
  <2> QED BY <2>1, <2>2, CopiedTree
<1>14. \A x \in InTree \cup {Null} : Under(node', x) = Under(node, x)
  <2>1. Typed(node) /\ Typed(node') /\ \A x \in Under(node, Root) : SameSides(node, node', x)
    BY <1>13, GoodNow DEF Typed, Renamed
  <2> QED BY <2>1, SameUnder DEF InTree
<1>15. InTree' = InTree
  BY <1>14, GoodNow DEF InTree
<1>16. d \notin Held(c) \ {d} /\ \A e \in Clients \ {c} : d \notin Held(e) /\ n \notin Held(e)
  BY <1>2, <1>6, HeldApart DEF d, n
<1>17. Path(node, d, n, s) /\ Untouched(Copies, d, n, s)
  <2>1. Path(node, d, n, s)
    BY <1>1, <1>3, <1>5 DEF Path, d, n
  <2>2. ASSUME NEW e \in Clients, Pc(e) = "unhook"
        PROVE  /\ frame[e].target \notin s \cup {n} /\ frame[e].next # d /\ frame[e].next # n
    <3>1. e # c /\ frame[e].target \in Held(e) /\ frame[e].next \in Held(e)
      BY <1>1, <2>2 DEF Held
    <3>2. Held(e) \subseteq Names(e)
      BY HeldNames
    <3> QED BY <1>5, <1>16, <3>1, <3>2
  <2>3. \A x, y : <<x, y>> \in Copies => x \notin s \cup {n} /\ y # d /\ y # n
    BY <2>2 DEF Copies
  <2> QED BY <2>1, <2>3 DEF Untouched
<1>18. Copies' = Copies \cup {<<d, n>>} /\ Unlinked' = Unlinked
  BY <1>1, <1>10, <1>11, OthersUnlinked DEF d, n
<1>19. Shape(node)' /\ Sorted(node, Copies)'
  <2>1. Typed(node') /\ GoodTree(node, Copies) /\ Copies \subseteq Copies' /\ <<d, n>> \in Copies'
    BY <1>13, <1>18, GoodNow DEF Typed
  <2>2. Shape(node') /\ Sorted(node', Copies')
    BY <1>13, <1>17, <2>1, GoodRenamed
  <2> QED BY <2>2 DEF Shape, Sorted
<1>20. TreeOK'
  <2>1. d # Root /\ d \in InTree \ {Root} /\ n \in InTree \ {Root}
    <3>1. n \in Children(node, frame[c].pnext) /\ frame[c].pnext \in InTree
      BY <1>2, <1>5 DEF Children, PnextSide, n
    <3> QED BY <1>3, <3>1, GoodNow DEF Shape, InTree, d, n
  <2>2. \A x \in InTree \ {Root} : node'[x].name \in Keys /\ node'[x].value \in Keys
    <3>1. \A x \in InTree \ {Root} : node[x].name \in Keys /\ node[x].value \in Keys
      BY DEF DbInv, ShapeOK
    <3> QED BY <1>13, <2>1, <3>1, GoodNow
  <2>3. node'[Root].name = 0
    BY <1>13, <2>1, NodesFacts DEF DbInv, ShapeOK
  <2>4. ShapeOK'
    BY <1>15, <1>19, <2>2, <2>3, ShapeFrom
  <2>5. AllocOK'
    <3>1. InTree' \cap Unlinked' = {} /\ alive' = InTree' \cup Unlinked' /\ ~closed'
      BY <1>1, <1>15, <1>18 DEF DbInv, AllocOK
    <3>2. \A e, b \in Clients : Pc(e)' = "destroy" /\ Pc(b)' = "destroy" /\ frame'[e].next = frame'[b].next => e = b
      BY <1>10, <1>11, OthersSame DEF DbInv, AllocOK, Others
    <3> QED BY <3>1, <3>2 DEF AllocOK
  <2> QED BY <1>19, <2>4, <2>5 DEF TreeOK
<1>21. Apart(c, {d})
  <2>1. \A x \in InTree \ {d} : x \in InTree' /\ node'[x] = node[x]
    BY <1>13, <1>15, GoodNow
  <2>2. d \in Names(c) /\ \A e \in Clients \ {c} : {d} \cap Held(e) = {}
    BY <1>6, <1>16, HeldNames DEF d
  <2> QED BY <1>11, <2>1, <2>2 DEF Apart, Chain
<1>22. \A e \in Clients \ {c} : Pc(e) = "search" => Fits(node', frame[e].parent, Key(e))
  <2> SUFFICES ASSUME NEW e \in Clients \ {c}, Pc(e) = "search" PROVE Fits(node', frame[e].parent, Key(e))
    OBVIOUS
  <2>1. Fits(node, frame[e].parent, Key(e)) /\ frame[e].parent \in Held(e) /\ frame[e].parent \in InTree
    BY DEF DbInv, SearchOK, Held
  <2>2. Key(e) \in Nat
    BY <1>1, FrameFacts
  <2>3. frame[e].parent \in Under(node, Root) \ (s \cup {n})
    BY <1>5, <1>16, <2>1, HeldNames DEF InTree
  <2>4. GoodTree(node, Copies) /\ Typed(node')
    BY <1>13, GoodNow DEF Typed
  <2> QED BY <1>13, <1>17, <2>1, <2>2, <2>3, <2>4, FitsRenamed
<1>23. \A e \in Clients \ {c} : \A r :
          Chain(e, r) /\ Pc(e) \in {"walk", "unhook"} => Way(node', frame[e].target, frame[e].next, r)
  <2> SUFFICES ASSUME NEW e \in Clients \ {c}, NEW r, Chain(e, r), Pc(e) \in {"walk", "unhook"}
               PROVE  Way(node', frame[e].target, frame[e].next, r)
    OBVIOUS
  <2>1. Way(node, frame[e].target, frame[e].next, r) /\ d \notin r
    BY <1>6, HeldNames DEF Chain, d
  <2>2. {frame[e].target, frame[e].next} \subseteq InTree /\ r \subseteq InTree /\ d # frame[e].next
    BY <2>1, <1>16 DEF DbInv, WalkOK, Way, InTree, Held
  <2>3. \A x \in (r \ {frame[e].target}) \cup {frame[e].next} : node'[x].name = node[x].name
    BY <1>13, <2>1, <2>2, GoodNow
  <2>4. Typed(node) /\ Typed(node') /\ frame[e].target \in Under(node, Root)
    BY <1>13, <2>2, GoodNow DEF Typed, InTree
  <2>5. \A x \in Under(node, Root) : SameSides(node, node', x)
    BY <1>13 DEF Renamed
  <2> QED BY <2>1, <2>3, <2>4, <2>5, WaySame
<1>24. ThreadOK(c)'
  <2>1. Way(node', d, n, s)
    <3>1. Typed(node) /\ Typed(node') /\ d \in Under(node, Root)
      BY <1>3, <1>13, GoodNow DEF Typed, InTree, d
    <3>2. \A x \in (s \ {d}) \cup {n} : node'[x].name = node[x].name
      BY <1>3, <1>5, <1>13, GoodNow DEF d, n
    <3>3. \A x \in Under(node, Root) : SameSides(node, node', x)
      BY <1>13 DEF Renamed
    <3>4. Way(node, d, n, s)
      BY <1>5
    <3> QED BY <3>1, <3>2, <3>3, <3>4, WaySame
  <2>2. \A x \in InTree : SameSides(node, node', x) /\ Children(node', x) = Children(node, x)
    BY <1>13 DEF Renamed, InTree, SameSides, Children
  <2>3. Chain(c, s)'
    <3>1. node'[frame[c].pnext][PnextSide(c)] = n
      BY <1>5, <2>2 DEF SameSides, PnextSide, n
    <3>2. \A e \in Clients \ {c} : Names(e)' \cap s = {}
      BY <1>5, <1>10, OthersSame
    <3> QED BY <1>5, <1>11, <2>1, <3>1, <3>2 DEF Chain
  <2>4. WalkOK(c)'
    BY <1>3, <1>11, <1>15, <2>2, <2>3 DEF WalkOK, d, n
  <2>5. UnhookOK(c)'
    <3>1. n \in InTree /\ n # d /\ node[n].lchild = Null
      BY <1>1, <1>3, <1>5 DEF d, n
    <3>2. node'[n] = node[n]
      BY <1>13, <3>1, GoodNow
    <3> QED BY <1>11, <1>13, <3>1, <3>2 DEF UnhookOK
  <2> QED BY <1>11, <2>4, <2>5 DEF ThreadOK, SearchOK, FoundOK
<1>25. (alive \subseteq Nodes)'
  BY <1>1 DEF DbInv, TypeOK
<1> QED BY <1>10, <1>12, <1>13, <1>20, <1>21, <1>22, <1>23, <1>24, <1>25, TreeStep

LEMMA DestroyStep ==
    ASSUME DbInv, NEW c \in Clients, Destroy(c)
    PROVE  DbInv'
<1> DEFINE x == frame[c].next
<1>1. /\ Pc(c) = "destroy" /\ alive' = alive \ {x} /\ node' = [node EXCEPT ![x] = NoNode] /\ Ends(c)
      /\ UNCHANGED <<writer, readers, answer, closed>> /\ ~closed /\ FramesOK
  BY OpenWhileBusy DEF Destroy, DbInv
<1>2. x \in Unlinked /\ x \notin InTree
  <2>1. x \in Unlinked
    BY <1>1 DEF Unlinked
  <2> QED BY <2>1 DEF DbInv, AllocOK
<1>3. /\ FramesOK' /\ Others(c) /\ Pc(c)' = "done" /\ Held(c)' = {} /\ Names(c)' = {} /\ ThreadOK(c)'
  <2>1. answer[c] # Absent
    BY <1>1, FrameFacts DEF FrameOK, Pc
  <2>2. answer' = [answer EXCEPT ![c] = answer[c]]
    BY <1>1, AnswerStays
  <2> QED BY <1>1, <2>1, <2>2, EndsFrame
<1> HIDE DEF x
<1>4. Typed(node)' /\ \A y \in Nodes \ {x} : node'[y] = node[y]
  <2>1. NoNode \in NodeTypes
    BY DEF NoNode, NodeTypes
  <2>2. Typed(node)
    BY GoodNow
  <2>3. node' = [y \in Nodes |-> IF y = x THEN NoNode ELSE node[y]]
    BY <1>1, <2>2 DEF Typed, x
  <2>4. \A y \in Nodes : node'[y] \in NodeTypes
    BY <2>1, <2>2, <2>3 DEF Typed
  <2> QED BY <2>3, <2>4 DEF Typed
<1>5. \A y \in InTree : node'[y] = node[y]
  BY <1>2, <1>4, GoodNow
<1>6. Shape(node') /\ Sorted(node', Copies) /\ InTree' = InTree
  <2>1. GoodTree(node, Copies) /\ Typed(node')
    BY <1>4, GoodNow DEF Typed
  <2>2. \A y \in Under(node, Root) : SameSides(node, node', y) /\ node'[y].name = node[y].name
    BY <1>5 DEF SameSides, InTree
  <2> QED BY <2>1, <2>2, GoodSame DEF InTree
<1>7. Copies' = Copies
  BY <1>1, <1>3, OthersUnlinked
<1>8. Unlinked' = Unlinked \ {x}
  <2>1. \A d \in Clients \ {c} : /\ Pc(d)' = Pc(d) /\ frame'[d] = frame[d]
                                 /\ Pc(d) = "destroy" => frame[d].next # x
    BY <1>1, <1>3, OthersSame DEF Others, DbInv, AllocOK, x
  <2>2. Unlinked = {frame[d].next : d \in {y \in Clients \ {c} : Pc(y) = "destroy"}} \cup {x}
    BY <1>1 DEF Unlinked, x
  <2>3. Unlinked' = {frame'[d].next : d \in {y \in Clients \ {c} : Pc(y)' = "destroy"}}
    BY <1>3 DEF Unlinked
  <2>4. Unlinked' = {frame[d].next : d \in {y \in Clients \ {c} : Pc(y) = "destroy"}}
    BY <2>1, <2>3
  <2>5. x \notin Unlinked'
    BY <2>1, <2>4
  <2> QED BY <2>2, <2>4, <2>5
<1>9. TreeOK'
  <2>1. ShapeOK'
    BY <1>5, <1>6, GoodNow, ShapeFrom DEF DbInv, ShapeOK, Shape
  <2>2. InTree' \cap Unlinked' = {} /\ alive' = InTree' \cup Unlinked' /\ ~closed'
    BY <1>1, <1>2, <1>6, <1>8 DEF DbInv, AllocOK, x
  <2>3. \A d, e \in Clients : Pc(d)' = "destroy" /\ Pc(e)' = "destroy" /\ frame'[d].next = frame'[e].next => d = e
    BY <1>3, OthersSame DEF DbInv, AllocOK, Others
  <2>4. AllocOK'
    BY <2>2, <2>3 DEF AllocOK
  <2> QED BY <1>6, <1>7, <2>1, <2>4 DEF TreeOK, Sorted
<1>10. LocksFit'
  <2>1. Relocked(c, Null, {}) /\ Held(c) = {}
    BY <1>1, RelockNone DEF Held
  <2> QED BY <1>3, <2>1, LocksGoOn
<1>11. Apart(c, {})
  BY <1>3, <1>5, <1>6 DEF Apart
<1>12. \A d \in Clients \ {c} : Pc(d) = "search" => Fits(node', frame[d].parent, Key(d))
  <2>1. Typed(node) /\ Typed(node') /\ \A y \in Under(node, Root) : SameSides(node, node', y) /\ node'[y].name = node[y].name
    BY <1>4, <1>5, GoodNow DEF Typed, SameSides, InTree
  <2> QED BY <2>1, FitsSame DEF DbInv, SearchOK
<1>13. \A d \in Clients \ {c} : \A s :
          Chain(d, s) /\ Pc(d) \in {"walk", "unhook"} => Way(node', frame[d].target, frame[d].next, s)
  <2> SUFFICES ASSUME NEW d \in Clients \ {c}, NEW s, Chain(d, s), Pc(d) \in {"walk", "unhook"}
               PROVE  Way(node', frame[d].target, frame[d].next, s)
    OBVIOUS
  <2>1. Way(node, frame[d].target, frame[d].next, s) /\ {frame[d].target, frame[d].next} \subseteq InTree /\ s \subseteq InTree
    BY DEF Chain, DbInv, WalkOK, Way, InTree
  <2>2. Typed(node) /\ Typed(node') /\ \A y \in Under(node, Root) : SameSides(node, node', y)
    BY <1>4, <1>5, GoodNow DEF Typed, SameSides, InTree
  <2>3. \A y \in (s \ {frame[d].target}) \cup {frame[d].next} : node'[y].name = node[y].name
    BY <1>5, <2>1
  <2> QED BY <2>1, <2>2, <2>3, WaySame DEF InTree
<1>14. (alive \subseteq Nodes)'
  BY <1>1 DEF DbInv, TypeOK
<1> QED BY <1>3, <1>4, <1>9, <1>10, <1>11, <1>12, <1>13, <1>14, TreeStep

LEMMA CleanupStep ==
    ASSUME DbInv, Cleanup
    PROVE  DbInv'
<1>1. /\ ~closed /\ closed' /\ (\A c \in Clients : Pc(c) = "idle") /\ alive' = alive \ (InTree \ {Root})
      /\ node' = node /\ writer' = writer /\ readers' = readers /\ frame' = frame /\ answer' = answer
  BY DEF Cleanup
<1>2. Unlinked = {} /\ Copies' = Copies /\ InTree' = InTree /\ Unlinked' = Unlinked
  BY <1>1 DEF Unlinked, Copies, InTree, Pc
<1>3. alive' = {Root}
  BY <1>1, <1>2, GoodNow DEF DbInv, AllocOK
<1>4. \A c \in Clients : Pc(c)' = "idle" /\ Held(c)' = Held(c)
  BY <1>1 DEF Pc, Held
<1>5. TypeOK'
  BY <1>1, <1>3, <1>4, NodesFacts DEF DbInv, TypeOK
<1>6. FramesOK' /\ LocksOK'
  BY <1>1, <1>4 DEF DbInv, FramesOK, LocksOK, Op
<1>7. ShapeOK' /\ Sorted(node, Copies)'
  BY <1>1, <1>2 DEF DbInv, ShapeOK
<1>8. AllocOK'
  BY <1>1, <1>2, <1>3, <1>4 DEF AllocOK
<1>9. \A c \in Clients : SearchOK(c)' /\ FoundOK(c)' /\ WalkOK(c)' /\ UnhookOK(c)'
  BY <1>4 DEF SearchOK, FoundOK, WalkOK, UnhookOK
<1> QED BY <1>5, <1>6, <1>7, <1>8, <1>9 DEF DbInv

LEMMA OneParent ==
    ASSUME NEW t, Typed(t), HangsOnce(t), NEW n \in Under(t, Root) \ {Root},
           NEW a \in Under(t, Root), n \in Children(t, a), NEW b \in Under(t, Root), n \in Children(t, b)
    PROVE  a = b
<1> DEFINE s == {m \in Under(t, Root) : n \in Children(t, m)}
<1>1. Cardinality(s) = 1
  BY DEF HangsOnce
<1>2. IsFiniteSet(s)
  <2>1. IsFiniteSet(Nodes)
    BY PoolAssumption, FS_Interval DEF Nodes
  <2>2. s \subseteq Nodes
    BY UnderNodes
  <2> QED BY <2>1, <2>2, FS_Subset
<1>3. \E x : s = {x}
  BY <1>1, <1>2, FS_Singleton
<1> QED BY <1>3

LEMMA InitOK == ASSUME Init PROVE DbInv
<1>1. PICK t \in Trees : node = t.node /\ alive = t.alive
  BY DEF Init
<1>2. /\ writer = [n \in Nodes |-> Absent] /\ readers = [n \in Nodes |-> {}]
      /\ frame = [c \in Clients |-> NoFrame] /\ answer = [c \in Clients |-> Absent] /\ closed = FALSE
  BY DEF Init
<1>3. /\ Typed(node) /\ alive = InTree /\ node[Root].name = 0 /\ node[Root].lchild = Null
      /\ \A n \in InTree \ {Root} : node[n].name \in Keys /\ node[n].value \in Keys
      /\ \A n \in InTree : Root \notin Children(node, n)
      /\ Sorted(node, {}) /\ HangsOnce(node)
  BY <1>1, TreesAssumption DEF Typed, InTree
<1>4. \A c \in Clients : Pc(c) = "idle" /\ Held(c) = {}
  BY <1>2 DEF Pc, Held, NoFrame
<1>5. Copies = {} /\ Unlinked = {}
  BY <1>4 DEF Copies, Unlinked
<1>6. Absent \notin Clients
  BY RequestAssumption
<1>7. TypeOK
  <2>1. alive \subseteq Nodes
    BY <1>3, UnderNodes DEF InTree
  <2>2. writer \in [Nodes -> Clients \cup {Absent}] /\ readers \in [Nodes -> SUBSET Clients]
    BY <1>2
  <2>3. \A c \in Clients : {n \in Nodes : writer[n] = c \/ c \in readers[n]} = Held(c)
    BY <1>2, <1>4, <1>6
  <2> QED BY <1>3, <2>1, <2>2, <2>3 DEF TypeOK, Typed
<1>8. FramesOK
  <2>1. NoFrame \in FrameTypes /\ FrameOK(NoFrame, Absent)
    BY DEF NoFrame, FrameTypes, FrameOK, Pcs
  <2> QED BY <1>2, <2>1 DEF FramesOK
<1>9. LocksOK
  BY <1>2, <1>4 DEF LocksOK
<1>10. ShapeOK
  <2>1. ASSUME NEW m \in InTree, NEW n \in InTree, m # n, NEW x \in Children(node, m), x \in Children(node, n)
        PROVE  FALSE
    <3>1. x \in InTree \ {Root}
      BY <1>3, UnderChild DEF InTree
    <3> QED BY <1>3, <2>1, <3>1, OneParent DEF InTree
  <2> QED BY <1>3, <2>1 DEF ShapeOK
<1>11. AllocOK
  BY <1>2, <1>3, <1>4, <1>5 DEF AllocOK
<1>12. \A c \in Clients : SearchOK(c) /\ FoundOK(c) /\ WalkOK(c) /\ UnhookOK(c)
  BY <1>4 DEF SearchOK, FoundOK, WalkOK, UnhookOK
<1> QED BY <1>3, <1>5, <1>7, <1>8, <1>9, <1>10, <1>11, <1>12 DEF DbInv

-----------------------------------------------------------------------------------
(* The theorems.                                                             *)

LEMMA StutterStep == ASSUME DbInv, UNCHANGED dbVars PROVE DbInv'
<1>1. /\ node' = node /\ alive' = alive /\ writer' = writer /\ readers' = readers /\ frame' = frame
      /\ answer' = answer /\ closed' = closed
  BY DEF dbVars
<1>2. TypeOK' /\ FramesOK' /\ LocksOK'
  BY <1>1 DEF DbInv, TypeOK, FramesOK, LocksOK, Held, Pc, Op
<1>3. InTree' = InTree /\ Unlinked' = Unlinked /\ Copies' = Copies
  BY <1>1 DEF InTree, Unlinked, Copies, Pc
<1>4. ShapeOK' /\ AllocOK' /\ Sorted(node, Copies)'
  BY <1>1, <1>3 DEF DbInv, ShapeOK, AllocOK, Pc
<1>5. ASSUME NEW c \in Clients PROVE SearchOK(c)' /\ FoundOK(c)' /\ WalkOK(c)' /\ UnhookOK(c)'
  <2>1. \A s : Chain(c, s)' <=> Chain(c, s)
    BY <1>1 DEF Chain, Names, PnextSide
  <2>2. SearchOK(c) /\ FoundOK(c) /\ WalkOK(c) /\ UnhookOK(c)
    BY DEF DbInv
  <2> QED BY <1>1, <1>3, <2>1, <2>2 DEF SearchOK, FoundOK, WalkOK, UnhookOK, Pc, Op, Key, Child, Side
<1> QED BY <1>2, <1>4, <1>5 DEF DbInv

LEMMA NextOK == ASSUME DbInv, [Next]_dbVars PROVE DbInv'
<1>1. ASSUME NEW c \in Clients, NEW r \in Requests[c], Enter(c, r) PROVE DbInv'
  BY <1>1, EnterStep
<1>2. ASSUME NEW c \in Clients, Works(c) PROVE DbInv'
  BY <1>2, SearchStepStep, QueryMissStep, RemoveMissStep, AddMissStep, QueryHitStep, AddHitStep, SpliceStep,
     LockRightStep, LockLeftStep, CopyUpStep, UnhookStep, DestroyStep, ReturnStep DEF Works
<1> QED BY <1>1, <1>2, CleanupStep, StutterStep DEF Next

LEMMA InvariantHolds == Spec => []DbInv
<1>1. Init => DbInv
  BY InitOK
<1>2. DbInv /\ [Next]_dbVars => DbInv'
  BY NextOK
<1> QED BY <1>1, <1>2, PTL DEF Spec

\* A thread holds the locks of its step and no other, so no path through search, add,
\* remove or query keeps a lock or gives one back twice (db.c:73-216, 363-426).
THEOREM LocksGivenBack == Spec => []TypeOK
<1>1. DbInv => TypeOK
  BY DEF DbInv
<1> QED BY <1>1, InvariantHolds, PTL

LEMMA HangingOnce ==
    ASSUME DbInv
    PROVE  HangsOnce(node)
<1> SUFFICES ASSUME NEW n \in InTree \ {Root}
             PROVE  Cardinality({m \in InTree : n \in Children(node, m)}) = 1
  BY DEF HangsOnce, InTree
<1>1. PICK p \in InTree : n \in Children(node, p)
  BY GoodNow, ParentExists DEF InTree
<1>2. {m \in InTree : n \in Children(node, m)} = {p}
  BY <1>1 DEF DbInv, ShapeOK
<1> QED BY <1>2, FS_Singleton

\* At every moment the tree is in order, each node hangs from one place, and what is
\* allocated is in the tree or about to be freed by the one thread that unlinked it, so
\* remove neither loses a node nor frees one twice (db.c:158-213).
THEOREM TreeStaysSound == Spec => []TreeSound
<1>1. DbInv => TreeSound
  BY HangingOnce DEF DbInv, AllocOK, TreeSound
<1> QED BY <1>1, InvariantHolds, PTL

\* No thread has a pointer to a node that another has freed, and nobody is in the node
\* that `*pnext = next->rchild` writes without holding its lock (db.c:193-207).
THEOREM NoStale == Spec => []NoStalePointer
<1>1. ASSUME DbInv, NEW c \in Clients PROVE Names(c) \subseteq alive
  <2>0. FrameOK(frame[c], answer[c]) /\ SearchOK(c) /\ FoundOK(c) /\ WalkOK(c)
    BY <1>1, FrameFacts DEF DbInv
  <2>1. CASE Pc(c) \in {"idle", "done"}
    BY <2>0, <2>1 DEF FrameOK, Names, Pc
  <2>2. CASE Pc(c) \notin {"idle", "done"}
    <3>1. alive = InTree \cup Unlinked
      BY <1>1, <2>2 DEF DbInv, AllocOK
    <3>2. CASE Pc(c) = "search"
      BY <2>0, <3>1, <3>2 DEF FrameOK, Names, Pc, SearchOK
    <3>3. CASE Pc(c) = "found"
      BY <2>0, <3>1, <3>3 DEF FrameOK, Names, Pc, FoundOK
    <3>4. CASE Pc(c) \in {"walk", "unhook"}
      <4>1. PICK s : Chain(c, s)
        BY <2>0, <3>4 DEF WalkOK
      <4>2. frame[c].pnext \in InTree
        BY <4>1 DEF Chain, Way, InTree
      <4> QED BY <2>0, <3>1, <3>4, <4>2 DEF WalkOK, Names
    <3>5. CASE Pc(c) = "destroy"
      <4>1. frame[c].next \in Unlinked
        BY <3>5 DEF Unlinked
      <4> QED BY <2>0, <3>1, <3>5, <4>1 DEF FrameOK, Names, Pc
    <3>6. Pc(c) \in Pcs
      BY <1>1, FrameFacts DEF DbInv, FrameTypes, Pc
    <3> QED BY <2>2, <3>2, <3>3, <3>4, <3>5, <3>6 DEF Pcs
  <2> QED BY <2>1, <2>2
<1>2. ASSUME DbInv, NEW c \in Clients, Pc(c) = "unhook", NEW d \in Clients \ {c} PROVE frame[c].pnext \notin Names(d)
  <2>1. PICK s : Chain(c, s)
    BY <1>2 DEF DbInv, WalkOK
  <2> QED BY <2>1 DEF Chain
<1>3. DbInv => NoStalePointer
  BY <1>1, <1>2 DEF NoStalePointer
<1> QED BY <1>3, InvariantHolds, PTL

-----------------------------------------------------------------------------------
(* A tree as a map from names to values.                                     *)

At(t, k) == {n \in Under(t, Root) \ {Root} : t[n].name = k}
ViewOf(t) == [k \in Keys |-> IF At(t, k) = {} THEN Absent ELSE t[CHOOSE n \in At(t, k) : TRUE].value]

\* Two nodes with one name have one value.
OneValue(t) == \A a, b \in Under(t, Root) \ {Root} : t[a].name = t[b].name => t[a].value = t[b].value

LEMMA ViewHas ==
    ASSUME NEW t, OneValue(t), NEW n \in Under(t, Root) \ {Root}, NEW k \in Keys, t[n].name = k
    PROVE  ViewOf(t)[k] = t[n].value
<1> DEFINE m == CHOOSE x \in At(t, k) : TRUE
<1>1. n \in At(t, k)
  BY DEF At
<1>2. m \in At(t, k)
  BY <1>1
<1>3. m \in Under(t, Root) \ {Root} /\ t[m].name = k
  BY <1>2 DEF At
<1>4. ViewOf(t)[k] = t[m].value
  BY <1>1 DEF ViewOf
<1> QED BY <1>3, <1>4 DEF OneValue

LEMMA ViewLacks ==
    ASSUME NEW t, NEW k \in Keys, \A n \in Under(t, Root) \ {Root} : t[n].name # k
    PROVE  ViewOf(t)[k] = Absent
  BY DEF ViewOf, At

LEMMA ViewAlike ==
    ASSUME NEW t, NEW u, OneValue(t), OneValue(u), NEW k \in Keys,
           \A n \in Under(t, Root) \ {Root} : t[n].name = k =>
               \E m \in Under(u, Root) \ {Root} : u[m].name = k /\ u[m].value = t[n].value,
           \A m \in Under(u, Root) \ {Root} : u[m].name = k =>
               \E n \in Under(t, Root) \ {Root} : t[n].name = k
    PROVE  ViewOf(u)[k] = ViewOf(t)[k]
<1>1. CASE \E n \in Under(t, Root) \ {Root} : t[n].name = k
  <2>1. PICK n \in Under(t, Root) \ {Root} : t[n].name = k
    BY <1>1
  <2>2. PICK m \in Under(u, Root) \ {Root} : u[m].name = k /\ u[m].value = t[n].value
    BY <2>1
  <2> QED BY <2>1, <2>2, ViewHas
<1>2. CASE \A n \in Under(t, Root) \ {Root} : t[n].name # k
  <2>1. \A m \in Under(u, Root) \ {Root} : u[m].name # k
    BY <1>2
  <2> QED BY <1>2, <2>1, ViewLacks
<1> QED BY <1>1, <1>2

\* Where the way to k ends in a null pointer there is no k.
LEMMA NotThere ==
    ASSUME NEW t, NEW copies, GoodTree(t, copies), NEW p \in Under(t, Root), NEW k \in Nat \ {0},
           t[Root].name = 0, Fits(t, p, k), p # Root => t[p].name # k,
           k < t[p].name => t[p].lchild = Null, ~(k < t[p].name) => t[p].rchild = Null,
           NEW n \in Under(t, Root) \ {Root}, t[n].name = k
    PROVE  FALSE
<1>0. Typed(t) /\ p \in Nodes /\ n \in Nodes /\ t[p].name \in Nat
  BY UnderNodes, NameTypes DEF GoodTree
<1>1. CASE n \in Under(t, p)
  <2>1. n # p
    OBVIOUS
  <2>2. CASE n \in Under(t, t[p].lchild)
    <3>1. t[n].name < t[p].name
      BY <2>2, LeftNames
    <3> QED BY <2>2, <3>1, UnderNull
  <2>3. CASE n \in Under(t, t[p].rchild)
    <3>1. p # Root => t[n].name > t[p].name \/ t[n].name = t[p].name
      BY <2>3, RightNames
    <3>2. ~(k < t[p].name)
      BY <1>0, <3>1
    <3> QED BY <2>3, <3>2, UnderNull
  <2> QED BY <1>0, <1>1, <2>1, <2>2, <2>3, UnderSides
<1>2. CASE p \in Under(t, n) /\ p # n
  <2>1. p \in Under(t, t[n].lchild) \/ p \in Under(t, t[n].rchild)
    BY <1>0, <1>2, UnderSides
  <2> QED BY <2>1 DEF Fits
<1>3. ASSUME NEW x \in Under(t, Root), Parts(t, x, n, p) PROVE FALSE
  <2>0. t[x].name \in Nat
    BY <1>0, UnderNodes, NameTypes
  <2>1. CASE n \in Under(t, t[x].lchild) /\ p \in Under(t, t[x].rchild)
    <3>1. x # Root /\ k < t[x].name
      BY <2>1, LeftNames
    <3>2. k > t[x].name
      BY <2>1, <3>1 DEF Fits
    <3> QED BY <2>0, <3>1, <3>2
  <2>2. CASE n \in Under(t, t[x].rchild) /\ p \in Under(t, t[x].lchild)
    <3>1. x # Root
      BY <2>2, LeftNames
    <3>2. k < t[x].name
      BY <2>2, <3>1 DEF Fits
    <3>3. k > t[x].name \/ k = t[x].name
      BY <2>2, <3>1, RightNames
    <3> QED BY <2>0, <3>2, <3>3
  <2> QED BY <1>3, <2>1, <2>2 DEF Parts
<1>4. n \in Under(t, p) \/ p \in Under(t, n) \/ \E x \in Under(t, Root) : Parts(t, x, n, p)
  BY <1>0, Branching
<1>5. p = n => n \in Under(t, p)
  BY <1>0, UnderSelf
<1> QED BY <1>1, <1>2, <1>3, <1>4, <1>5

-----------------------------------------------------------------------------------
(* What the dictionary is in a state of the invariant.                       *)

LEMMA ViewIs == View = ViewOf(node)
  BY DEF View, ViewOf, At, InTree

LEMMA ViewNext == View' = ViewOf(node')
  BY DEF View, ViewOf, At, InTree

LEMMA OneValueNow == DbInv => OneValue(node)
<1> SUFFICES ASSUME DbInv, NEW a \in InTree \ {Root}, NEW b \in InTree \ {Root}, node[a].name = node[b].name
             PROVE  node[a].value = node[b].value
  BY DEF OneValue, InTree
<1>1. a = b \/ <<a, b>> \in Copies \/ <<b, a>> \in Copies
  BY GoodNow, SameName DEF InTree
<1>2. ASSUME NEW x, NEW y, <<x, y>> \in Copies PROVE node[x].value = node[y].value
  <2>1. PICK c \in Clients : Pc(c) = "unhook" /\ x = frame[c].target /\ y = frame[c].next
    BY <1>2 DEF Copies
  <2> QED BY <2>1 DEF DbInv, UnhookOK
<1> QED BY <1>1, <1>2

LEMMA OneValueNext == DbInv' => OneValue(node)'
  BY OneValueNow, PTL

LEMMA OneValueBoth ==
    ASSUME DbInv, DbInv'
    PROVE  OneValue(node) /\ OneValue(node')
<1>1. OneValue(node)'
  BY OneValueNext
<1> QED BY <1>1, OneValueNow DEF OneValue

-----------------------------------------------------------------------------------
(* The calls.                                                                *)

Calls == [c \in Clients |-> frame[c].req]

LEMMA CallsStay ==
    ASSUME NEW c \in Clients, Others(c), frame'[c].req = frame[c].req
    PROVE  Calls' = Calls
  BY DEF Others, Calls

\* A step in which nobody can see anything.
LEMMA HiddenStep ==
    ASSUME NEW c \in Clients, Others(c), frame'[c].req = frame[c].req, UNCHANGED answer, View' = View
    PROVE  UNCHANGED D!dictVars
<1>1. Calls' = Calls
  BY CallsStay
<1> QED BY <1>1 DEF D!dictVars, Calls

\* A call takes effect.
LEMMA ServedStep ==
    ASSUME DbInv, NEW c \in Clients, Pc(c) \in {"search", "found", "walk"}, Others(c),
           frame'[c].req = frame[c].req,
           \/ Op(c) = "q" /\ D!Query(c, Key(c))
           \/ Op(c) = "a" /\ D!Add(c, Key(c), frame[c].req.val)
           \/ Op(c) = "d" /\ D!Remove(c, Key(c))
    PROVE  D!Next
<1>1. FrameOK(frame[c], answer[c]) /\ frame[c].req # Absent /\ answer[c] = Absent
  BY FrameFacts, RequestAssumption DEF DbInv, FrameOK, Pc
<1>2. Calls' = Calls
  BY CallsStay
<1>3. Calls[c] = frame[c].req
  BY DEF Calls
<1>4. D!Serve(c)
  BY <1>1, <1>2, <1>3 DEF D!Serve, Calls, Op, Key
<1> QED BY <1>4 DEF D!Next

LEMMA Goes ==
    ASSUME DbInv, NEW c \in Clients, NEW f, Goto(c, f)
    PROVE  frame'[c] = f /\ Others(c)
  BY DEF Goto, DbInv, FramesOK, Others

LEMMA EndsKeepRequest ==
    ASSUME DbInv, NEW c \in Clients, Ends(c)
    PROVE  Others(c) /\ frame'[c].req = frame[c].req
<1>1. frame'[c] = [NoFrame EXCEPT !.pc = "done", !.req = frame[c].req] /\ Others(c)
  BY Goes DEF Ends
<1> QED BY <1>1 DEF NoFrame

LEMMA ViewStays ==
    ASSUME UNCHANGED node
    PROVE  View' = View
  BY ViewIs, ViewNext

LEMMA ViewSame ==
    ASSUME \A j \in Keys : View'[j] = View[j]
    PROVE  View' = View
<1>1. View = [x \in Keys |-> View[x]] /\ View' = [x \in Keys |-> View'[x]]
  BY ViewIs, ViewNext DEF ViewOf
<1> QED BY <1>1

LEMMA ViewSet ==
    ASSUME NEW k \in Keys, NEW v, View'[k] = v, \A j \in Keys \ {k} : View'[j] = View[j]
    PROVE  View' = [View EXCEPT ![k] = v]
<1>1. View = [x \in Keys |-> View[x]] /\ View' = [x \in Keys |-> View'[x]]
  BY ViewIs, ViewNext DEF ViewOf
<1> QED BY <1>1

LEMMA MissedMeansAbsent ==
    ASSUME DbInv, NEW c \in Clients, Missed(c)
    PROVE  /\ Pc(c) = "search" /\ Ends(c) /\ Key(c) \in Keys /\ View[Key(c)] = Absent
           /\ \A n \in InTree \ {Root} : node[n].name # Key(c)
<1> DEFINE p == frame[c].parent
<1>1. Pc(c) = "search" /\ Ends(c) /\ Child(p, Key(c)) = Null
  BY DEF Missed, Ends
<1>2. Key(c) \in Keys /\ Key(c) \in Nat \ {0}
  BY <1>1, FrameFacts DEF DbInv
<1>3. p \in InTree /\ (p # Root => node[p].name # Key(c)) /\ Fits(node, p, Key(c))
  BY <1>1 DEF DbInv, SearchOK
<1>4. /\ Key(c) < node[p].name => node[p].lchild = Null
      /\ ~(Key(c) < node[p].name) => node[p].rchild = Null
  BY <1>1 DEF Child, Side
<1>5. \A n \in InTree \ {Root} : node[n].name # Key(c)
  <2>1. GoodTree(node, Copies) /\ node[Root].name = 0
    BY GoodNow DEF DbInv, ShapeOK
  <2> QED BY <1>2, <1>3, <1>4, <2>1, NotThere DEF InTree
<1>6. View[Key(c)] = Absent
  BY <1>2, <1>5, ViewIs, ViewLacks DEF InTree
<1> QED BY <1>1, <1>2, <1>5, <1>6

LEMMA QueryMissServes ==
    ASSUME DbInv, NEW c \in Clients, QueryMiss(c)
    PROVE  D!Next
<1>1. Missed(c) /\ Op(c) = "q" /\ Answers(c, "not found") /\ UNCHANGED node
  BY DEF QueryMiss
<1>2. D!Query(c, Key(c))
  BY <1>1, MissedMeansAbsent, ViewStays DEF D!Query, D!Answers, Answers
<1> QED BY <1>1, <1>2, MissedMeansAbsent, EndsKeepRequest, ServedStep

LEMMA RemoveMissServes ==
    ASSUME DbInv, NEW c \in Clients, RemoveMiss(c)
    PROVE  D!Next
<1>1. Missed(c) /\ Op(c) = "d" /\ Answers(c, "not in database") /\ UNCHANGED node
  BY DEF RemoveMiss
<1>2. D!Remove(c, Key(c))
  BY <1>1, MissedMeansAbsent, ViewStays DEF D!Remove, D!Answers, Answers
<1> QED BY <1>1, <1>2, MissedMeansAbsent, EndsKeepRequest, ServedStep

LEMMA AddMissServes ==
    ASSUME DbInv, DbInv', NEW c \in Clients, AddMiss(c)
    PROVE  D!Next
<1> DEFINE p == frame[c].parent
<1> DEFINE k == Key(c)
<1> DEFINE v == frame[c].req.val
<1> DEFINE new == FreeNode(k)
<1>1. Missed(c) /\ Op(c) = "a" /\ Pc(c) = "search" /\ Child(p, k) = Null
  BY DEF AddMiss, Missed
<1>2. k \in Keys /\ View[k] = Absent /\ v \in Keys /\ \A n \in InTree \ {Root} : node[n].name # k
  BY <1>1, MissedMeansAbsent, FrameFacts DEF DbInv
<1>3. CASE alive = Nodes
  <2>1. Answers(c, "added nothing") /\ UNCHANGED node
    BY <1>3 DEF AddMiss
  <2>2. D!Add(c, k, v)
    BY <1>2, <2>1, ViewStays DEF D!Add, D!Answers, Answers
  <2> QED BY <1>1, <2>2, MissedMeansAbsent, EndsKeepRequest, ServedStep
<1>4. CASE alive # Nodes
  <2>1. /\ Answers(c, "added") /\ alive' = alive \cup {new}
        /\ node' = [node EXCEPT ![p][Side(p, k)] = new, ![new] = [NoNode EXCEPT !.name = k, !.value = v]]
    BY <1>4 DEF AddMiss
  <2>2. new \in Nodes \ alive
    BY <1>4 DEF FreeNode, DbInv, TypeOK
  <2>3. p \in InTree /\ ~closed
    BY <1>1, OpenWhileBusy DEF DbInv, SearchOK
  <2>4. Added(p, k, v, new)
    BY <2>1, <2>2, <2>3 DEF Added
  <2> HIDE DEF p, k, v, new
  <2>5. /\ Typed(node)' /\ With(node, node', p, new)
        /\ \A x \in Nodes \ {p, new} : node'[x] = node[x]
        /\ node'[p].name = node[p].name /\ node'[p].value = node[p].value
        /\ node'[new].name = k /\ node'[new].value = v
    BY <1>1, <1>2, <2>3, <2>4, AddedTree
  <2>6. InTree' = InTree \cup {new} /\ new \notin InTree /\ Root \in InTree
    <3>1. Root \in InTree /\ Typed(node) /\ Typed(node') /\ p \in Under(node, Root)
      BY <2>3, <2>5, GoodNow DEF Typed, InTree
    <3> QED BY <2>5, <3>1, UnderWith DEF InTree, With
  <2>7. \A x \in InTree : node'[x].name = node[x].name /\ node'[x].value = node[x].value
    BY <2>5, <2>6, GoodNow
  <2>8. OneValue(node) /\ OneValue(node')
    BY OneValueBoth
  <2>9. ViewOf(node')[k] = v
    BY <1>2, <2>5, <2>6, <2>8, ViewHas DEF InTree
  <2>10. ASSUME NEW j \in Keys \ {k} PROVE ViewOf(node')[j] = ViewOf(node)[j]
    <3>1. \A n \in Under(node, Root) \ {Root} : node[n].name = j =>
             \E m \in Under(node', Root) \ {Root} : node'[m].name = j /\ node'[m].value = node[n].value
      BY <2>6, <2>7 DEF InTree
    <3>2. \A m \in Under(node', Root) \ {Root} : node'[m].name = j =>
             \E n \in Under(node, Root) \ {Root} : node[n].name = j
      BY <2>5, <2>6, <2>7 DEF InTree
    <3> QED BY <2>8, <3>1, <3>2, ViewAlike
  <2>11. View' = [View EXCEPT ![k] = v]
    BY <1>2, <2>9, <2>10, ViewIs, ViewNext, ViewSet
  <2>12. D!Add(c, k, v)
    BY <1>2, <2>1, <2>11 DEF D!Add, D!Answers, Answers
  <2> QED BY <1>1, <2>12, MissedMeansAbsent, EndsKeepRequest, ServedStep DEF k, v
<1> QED BY <1>3, <1>4

-----------------------------------------------------------------------------------
(* The calls that find their name.                                           *)

LEMMA FoundMeansThere ==
    ASSUME DbInv, DbInv', NEW c \in Clients, Pc(c) = "found"
    PROVE  /\ Key(c) \in Keys /\ View[Key(c)] = node[frame[c].target].value
           /\ node[frame[c].target].value \in Keys /\ View[Key(c)] # Absent
<1>1. frame[c].target \in InTree \ {Root} /\ node[frame[c].target].name = Key(c)
  BY DEF DbInv, FoundOK
<1>2. Key(c) \in Keys /\ node[frame[c].target].value \in Keys
  BY <1>1, FrameFacts DEF DbInv, ShapeOK
<1>3. View[Key(c)] = node[frame[c].target].value
  BY <1>1, <1>2, OneValueNow, ViewIs, ViewHas DEF InTree
<1> QED BY <1>2, <1>3, RequestAssumption

LEMMA QueryHitServes ==
    ASSUME DbInv, DbInv', NEW c \in Clients, QueryHit(c)
    PROVE  D!Next
<1>1. /\ Pc(c) = "found" /\ Op(c) = "q" /\ Answers(c, node[frame[c].target].value) /\ UNCHANGED node
      /\ Ends(c)
  BY DEF QueryHit
<1>2. View[Key(c)] = node[frame[c].target].value /\ View[Key(c)] # Absent
  BY <1>1, FoundMeansThere
<1>3. D!Query(c, Key(c))
  BY <1>1, <1>2, ViewStays DEF D!Query, D!Answers, Answers
<1> QED BY <1>1, <1>3, EndsKeepRequest, ServedStep

LEMMA AddHitServes ==
    ASSUME DbInv, DbInv', NEW c \in Clients, AddHit(c)
    PROVE  D!Next
<1>1. /\ Pc(c) = "found" /\ Op(c) = "a" /\ Answers(c, "already in database") /\ UNCHANGED node
      /\ Ends(c)
  BY DEF AddHit
<1>2. View[Key(c)] # Absent
  BY <1>1, FoundMeansThere
<1>3. D!Add(c, Key(c), frame[c].req.val)
  BY <1>1, <1>2, ViewStays DEF D!Add, D!Answers, Answers
<1> QED BY <1>1, <1>3, EndsKeepRequest, ServedStep

-----------------------------------------------------------------------------------
(* A node leaves the tree.                                                   *)

\* What is left keeps its names and values.
LEMMA UnlinkedNames ==
    ASSUME DbInv, NEW c \in Clients, NEW q, NEW side, NEW e, NEW h, NEW given, NEW a,
           Unlinks(c, q, side, e, h, given, a)
    PROVE  /\ InTree' = InTree \ {e} /\ e \in InTree \ {Root}
           /\ \A x \in InTree : node'[x].name = node[x].name /\ node'[x].value = node[x].value
           /\ Others(c) /\ frame'[c].req = frame[c].req
<1>1. /\ Typed(node) /\ Typed(node') /\ Without(node, node', e, h) /\ e # q
      /\ \A x \in Nodes \ {q} : node'[x] = node[x]
      /\ node'[q].name = node[q].name /\ node'[q].value = node[q].value
  BY UnlinkedTree, GoodNow DEF Typed
<1>2. e \in InTree \ {Root} /\ q \in InTree /\ e \in Children(node, q)
  <2>1. e \in InTree \ {Root} /\ q \in InTree /\ node[q][side] = e /\ side \in {"lchild", "rchild"}
    BY DEF Unlinks
  <2>2. e # Null
    BY <2>1, GoodNow, NodesFacts
  <2> QED BY <2>1, <2>2 DEF Children
<1>3. e \notin Children(node, e)
  BY <1>1, <1>2 DEF DbInv, ShapeOK
<1>4. InTree' = InTree \ {e}
  <2>1. Root \in Under(node, Root) \ {e}
    BY <1>2, GoodNow DEF InTree
  <2> QED BY <1>1, <1>3, <2>1, UnderWithout DEF InTree
<1>5. \A x \in InTree : node'[x].name = node[x].name /\ node'[x].value = node[x].value
  BY <1>1, GoodNow
<1>6. Goto(c, [NoFrame EXCEPT !.pc = "destroy", !.req = frame[c].req, !.next = e])
  BY DEF Unlinks
<1>7. frame'[c] = [NoFrame EXCEPT !.pc = "destroy", !.req = frame[c].req, !.next = e] /\ Others(c)
  BY <1>6, Goes
<1>8. frame'[c].req = frame[c].req
  BY <1>7 DEF NoFrame
<1> QED BY <1>2, <1>4, <1>5, <1>7, <1>8

\* A name that another node has too stays in the dictionary.
LEMMA NamesLeft ==
    ASSUME DbInv, DbInv', NEW e \in InTree \ {Root}, InTree' = InTree \ {e},
           \A x \in InTree : node'[x].name = node[x].name /\ node'[x].value = node[x].value,
           NEW j \in Keys, node[e].name = j => \E m \in InTree \ {Root, e} :
                              node[m].name = j /\ node[m].value = node[e].value
    PROVE  View'[j] = View[j]
<1>1. OneValue(node) /\ OneValue(node')
  BY OneValueBoth
<1>2. \A n \in Under(node, Root) \ {Root} : node[n].name = j =>
         \E m \in Under(node', Root) \ {Root} : node'[m].name = j /\ node'[m].value = node[n].value
  <2> SUFFICES ASSUME NEW n \in InTree \ {Root}, node[n].name = j
               PROVE  \E m \in InTree' \ {Root} : node'[m].name = j /\ node'[m].value = node[n].value
    BY DEF InTree
  <2>1. CASE n = e
    BY <2>1
  <2>2. CASE n # e
    BY <2>2
  <2> QED BY <2>1, <2>2
<1>3. \A m \in Under(node', Root) \ {Root} : node'[m].name = j =>
         \E n \in Under(node, Root) \ {Root} : node[n].name = j
  BY DEF InTree
<1> QED BY <1>1, <1>2, <1>3, ViewAlike, ViewIs, ViewNext

\* No other thread is copying from or to a node that c holds.
LEMMA HeldNotCopied ==
    ASSUME DbInv, NEW c \in Clients, Op(c) # "q", Pc(c) # "unhook", NEW d \in Held(c) \cap InTree, d # Root,
           NEW n \in InTree \ {Root}, node[n].name = node[d].name
    PROVE  n = d
<1>1. n = d \/ <<n, d>> \in Copies \/ <<d, n>> \in Copies
  BY GoodNow, SameName DEF InTree
<1>2. ASSUME NEW x, NEW y, <<x, y>> \in Copies PROVE d \notin {x, y}
  <2>1. PICK e \in Clients : Pc(e) = "unhook" /\ x = frame[e].target /\ y = frame[e].next
    BY <1>2 DEF Copies
  <2>2. {x, y} \subseteq Held(e) /\ e # c
    BY <2>1 DEF Held
  <2> QED BY <2>2, HeldApart
<1> QED BY <1>1, <1>2

LEMMA SpliceServes ==
    ASSUME DbInv, DbInv', NEW c \in Clients, Splice(c)
    PROVE  D!Next
<1> DEFINE d == frame[c].target
<1> DEFINE k == Key(c)
<1>1. PICK side, heir :
         Pc(c) = "found" /\ Unlinks(c, frame[c].parent, side, d, heir, {frame[c].parent, d}, "removed")
  BY SpliceUnlinks
<1>2. /\ Op(c) = "d" /\ Answers(c, "removed") /\ d \in Held(c)
      /\ InTree' = InTree \ {d} /\ d \in InTree \ {Root}
      /\ \A x \in InTree : node'[x].name = node[x].name /\ node'[x].value = node[x].value
      /\ Others(c) /\ frame'[c].req = frame[c].req
  BY <1>1, UnlinkedNames DEF Unlinks, Answers
<1>3. k \in Keys /\ View[k] # Absent /\ node[d].name = k
  BY <1>1, FoundMeansThere DEF DbInv, FoundOK
<1>4. View'[k] = Absent
  <2>1. \A n \in InTree \ {Root} : node[n].name = k => n = d
    BY <1>1, <1>2, <1>3, HeldNotCopied
  <2>2. \A n \in Under(node', Root) \ {Root} : node'[n].name # k
    BY <1>2, <2>1 DEF InTree
  <2> QED BY <1>3, <2>2, ViewLacks, ViewNext
<1>5. \A j \in Keys \ {k} : View'[j] = View[j]
  BY <1>2, <1>3, NamesLeft
<1>6. View' = [View EXCEPT ![k] = Absent]
  BY <1>3, <1>4, <1>5, ViewSet
<1>7. D!Remove(c, k)
  BY <1>2, <1>3, <1>6 DEF D!Remove, D!Answers, Answers
<1> QED BY <1>1, <1>2, <1>7, ServedStep

LEMMA UnhookHidden ==
    ASSUME DbInv, DbInv', NEW c \in Clients, Unhook(c)
    PROVE  UNCHANGED D!dictVars
<1> DEFINE n == frame[c].next
<1> DEFINE d == frame[c].target
<1>1. Pc(c) = "unhook" /\ UNCHANGED answer
  BY UnhookUnlinks
<1>2. PICK side, heir, given : Unlinks(c, frame[c].pnext, side, n, heir, given, answer[c])
  BY UnhookUnlinks
<1>3. /\ InTree' = InTree \ {n} /\ n \in InTree \ {Root}
      /\ \A x \in InTree : node'[x].name = node[x].name /\ node'[x].value = node[x].value
      /\ Others(c) /\ frame'[c].req = frame[c].req
  BY <1>2, UnlinkedNames
<1>4. d \in InTree \ {Root} /\ node[d].name = node[n].name /\ node[d].value = node[n].value
  BY <1>1 DEF DbInv, WalkOK, UnhookOK
<1>5. d # n
  BY <1>1 DEF DbInv, WalkOK, Chain, Way
<1>6. \A j \in Keys : View'[j] = View[j]
  BY <1>3, <1>4, <1>5, NamesLeft
<1> QED BY <1>1, <1>3, <1>6, ViewSame, HiddenStep

LEMMA CopyUpServes ==
    ASSUME DbInv, DbInv', NEW c \in Clients, CopyUp(c)
    PROVE  D!Next
<1> DEFINE d == frame[c].target
<1> DEFINE n == frame[c].next
<1> DEFINE k == Key(c)
<1>1. /\ Pc(c) = "walk" /\ Goto(c, [frame[c] EXCEPT !.pc = "unhook"]) /\ Answers(c, "removed")
      /\ node' = [node EXCEPT ![d].name = node[n].name, ![d].value = node[n].value]
  BY DEF CopyUp
<1>2. FramesOK /\ frame[c] \in FrameTypes /\ Op(c) = "d" /\ k \in Keys
  BY <1>1, FrameFacts DEF DbInv, FrameOK, Pc, Op
<1>3. d \in InTree /\ n \in InTree /\ d # Root /\ node[d].name = k
  BY <1>1 DEF DbInv, WalkOK
<1>4. d \in Held(c) /\ n # d /\ n # Root
  <2>1. PICK s \in SUBSET Nodes : Chain(c, s)
    BY <1>1 DEF DbInv, WalkOK
  <2>2. n # d
    BY <2>1 DEF Chain, Way
  <2>3. n # Root
    <3>1. frame[c].pnext \in InTree /\ node[frame[c].pnext][PnextSide(c)] = n /\ PnextSide(c) \in {"lchild", "rchild"}
      BY <2>1 DEF Chain, Way, InTree, PnextSide
    <3>2. n # Null
      BY <1>3, GoodNow, NodesFacts
    <3>3. n \in Children(node, frame[c].pnext)
      BY <3>1, <3>2 DEF Children
    <3> QED BY <3>1, <3>3 DEF DbInv, ShapeOK
  <2> QED BY <1>1, <2>2, <2>3 DEF Held
<1>5. \A x \in InTree \ {Root} : node[x].name = k => x = d
  BY <1>1, <1>2, <1>3, <1>4, HeldNotCopied
<1>6. /\ Typed(node) /\ Typed(node') /\ Renamed(node, node', d, n) /\ \A x \in Nodes \ {d} : node'[x] = node[x]
      /\ node'[d].name = node[n].name /\ node'[d].value = node[n].value
  BY <1>1, <1>3, CopiedTree, GoodNow DEF Typed
<1>7. InTree' = InTree
  <2>1. Root \in Under(node, Root)
    BY GoodNow DEF InTree
  <2> QED BY <1>6, <2>1, SameUnder DEF Renamed, InTree
<1>8. OneValue(node) /\ OneValue(node')
  BY OneValueBoth
<1>9. View[k] # Absent
  <2>1. View[k] = node[d].value
    BY <1>2, <1>3, <1>8, ViewIs, ViewHas DEF InTree
  <2>2. node[d].value \in Keys
    BY <1>3 DEF DbInv, ShapeOK
  <2> QED BY <2>1, <2>2, RequestAssumption
<1>10. View'[k] = Absent
  <2>1. \A x \in Under(node', Root) \ {Root} : node'[x].name # k
    <3> SUFFICES ASSUME NEW x \in InTree \ {Root} PROVE node'[x].name # k
      BY <1>7 DEF InTree
    <3>1. CASE x = d
      BY <1>3, <1>4, <1>5, <1>6, <3>1
    <3>2. CASE x # d
      BY <1>5, <1>6, <3>2, GoodNow
    <3> QED BY <3>1, <3>2
  <2> QED BY <1>2, <2>1, ViewLacks, ViewNext
<1>11. ASSUME NEW j \in Keys \ {k} PROVE View'[j] = View[j]
  <2>1. \A a \in Under(node, Root) \ {Root} : node[a].name = j =>
           \E b \in Under(node', Root) \ {Root} : node'[b].name = j /\ node'[b].value = node[a].value
    <3> SUFFICES ASSUME NEW a \in InTree \ {Root}, node[a].name = j
                 PROVE  \E b \in InTree' \ {Root} : node'[b].name = j /\ node'[b].value = node[a].value
      BY DEF InTree
    <3>1. a # d /\ a \in Nodes
      BY <1>3, GoodNow
    <3>2. node'[a] = node[a]
      BY <1>6, <3>1
    <3> QED BY <1>7, <3>2
  <2>2. \A b \in Under(node', Root) \ {Root} : node'[b].name = j =>
           \E a \in Under(node, Root) \ {Root} : node[a].name = j
    <3> SUFFICES ASSUME NEW b \in InTree \ {Root}, node'[b].name = j
                 PROVE  \E a \in InTree \ {Root} : node[a].name = j
      BY <1>7 DEF InTree
    <3>1. CASE b = d
      BY <1>3, <1>4, <1>6, <3>1
    <3>2. CASE b # d
      BY <1>6, <3>2, GoodNow
    <3> QED BY <3>1, <3>2
  <2> QED BY <1>8, <2>1, <2>2, ViewAlike, ViewIs, ViewNext
<1>12. View' = [View EXCEPT ![k] = Absent]
  BY <1>2, <1>10, <1>11, ViewSet
<1>13. D!Remove(c, k)
  BY <1>1, <1>9, <1>12 DEF D!Remove, D!Answers, Answers
<1>14. Others(c) /\ frame'[c].req = frame[c].req
  <2>1. frame'[c] = [frame[c] EXCEPT !.pc = "unhook"] /\ Others(c)
    BY <1>1, Goes
  <2> QED BY <1>2, <2>1 DEF FrameTypes
<1> QED BY <1>1, <1>2, <1>13, <1>14, ServedStep

-----------------------------------------------------------------------------------
(* The steps nobody can see.                                                 *)

LEMMA SearchHidden ==
    ASSUME DbInv, NEW c \in Clients, SearchStep(c) \/ LockRight(c) \/ LockLeft(c)
    PROVE  UNCHANGED D!dictVars
<1>1. UNCHANGED <<node, answer>>
  BY DEF SearchStep, LockRight, LockLeft
<1>2. frame[c] \in FrameTypes
  BY FrameFacts DEF DbInv
<1>3. \A a, x, y : /\ [frame[c] EXCEPT !.pc = a, !.target = x, !.parent = y].req = frame[c].req
                      /\ [frame[c] EXCEPT !.pc = a, !.next = x, !.pnext = y].req = frame[c].req
                      /\ [frame[c] EXCEPT !.next = x, !.pnext = y].req = frame[c].req
                      /\ [frame[c] EXCEPT !.parent = y].req = frame[c].req
  BY <1>2 DEF FrameTypes
<1>4. frame'[c].req = frame[c].req /\ Others(c)
  <2>1. CASE SearchStep(c)
    <3> DEFINE n == Child(frame[c].parent, Key(c))
    <3> DEFINE found == [frame[c] EXCEPT !.pc = "found", !.target = n, !.parent =
                            IF node[n].name = Key(c) /\ Op(c) # "q" THEN frame[c].parent ELSE Null]
    <3>1. Goto(c, IF node[n].name = Key(c) THEN found ELSE [frame[c] EXCEPT !.parent = n])
      BY <2>1, <1>3 DEF SearchStep
    <3>2. found.req = frame[c].req /\ [frame[c] EXCEPT !.parent = n].req = frame[c].req
      BY <1>3
    <3> HIDE DEF found, n
    <3>3. /\ frame'[c] = (IF node[n].name = Key(c) THEN found ELSE [frame[c] EXCEPT !.parent = n])
          /\ Others(c)
      BY <3>1, Goes
    <3> QED BY <3>2, <3>3
  <2>2. CASE LockRight(c)
    <3> DEFINE d == frame[c].target
    <3> DEFINE f == [frame[c] EXCEPT !.pc = "walk", !.next = node[d].rchild, !.pnext = d]
    <3>1. Goto(c, f) /\ f.req = frame[c].req
      BY <2>2, <1>3 DEF LockRight
    <3> HIDE DEF f
    <3> QED BY <3>1, Goes
  <2>3. CASE LockLeft(c)
    <3> DEFINE n == frame[c].next
    <3> DEFINE f == [frame[c] EXCEPT !.next = node[n].lchild, !.pnext = n]
    <3>1. Goto(c, f) /\ f.req = frame[c].req
      BY <2>3, <1>3 DEF LockLeft
    <3> HIDE DEF f
    <3> QED BY <3>1, Goes
  <2> QED BY <2>1, <2>2, <2>3
<1> QED BY <1>1, <1>4, ViewStays, HiddenStep

LEMMA DestroyHidden ==
    ASSUME DbInv, NEW c \in Clients, Destroy(c)
    PROVE  UNCHANGED D!dictVars
<1> DEFINE x == frame[c].next
<1>1. Pc(c) = "destroy" /\ node' = [node EXCEPT ![x] = NoNode] /\ Ends(c) /\ UNCHANGED answer /\ ~closed
  BY OpenWhileBusy DEF Destroy
<1>2. x \notin InTree
  <2>1. x \in Unlinked
    BY <1>1 DEF Unlinked
  <2> QED BY <2>1 DEF DbInv, AllocOK
<1>3. Typed(node) /\ Typed(node')
  <2>1. Typed(node)
    BY GoodNow
  <2>2. NoNode \in NodeTypes
    BY DEF NoNode, NodeTypes
  <2> QED BY <1>1, <2>1, <2>2 DEF Typed
<1>4. \A y \in Nodes \ {x} : node'[y] = node[y]
  BY <1>1, <1>3 DEF Typed
<1>5. \A y \in InTree : node'[y] = node[y]
  BY <1>2, <1>4, GoodNow
<1>6. InTree' = InTree
  <2>1. GoodTree(node, Copies) /\ \A y \in Under(node, Root) : SameSides(node, node', y) /\ node'[y].name = node[y].name
    BY <1>5, GoodNow DEF SameSides, InTree
  <2> QED BY <1>3, <2>1, GoodSame DEF InTree
<1>7. \A k \in Keys : View'[k] = View[k]
  <2>1. \A k \in Keys : At(node', k) = At(node, k)
    BY <1>5, <1>6 DEF At, InTree
  <2>2. \A k \in Keys : \A y \in At(node, k) : node'[y].value = node[y].value
    BY <1>5 DEF At, InTree
  <2> QED BY <2>1, <2>2, ViewIs, ViewNext DEF ViewOf
<1> QED BY <1>1, <1>7, ViewSame, EndsKeepRequest, HiddenStep

LEMMA SameHidden ==
    ASSUME UNCHANGED <<node, frame, answer>>
    PROVE  UNCHANGED D!dictVars
  BY ViewStays DEF D!dictVars

-----------------------------------------------------------------------------------
(* A call starts and returns.                                                *)

LEMMA EnterCalls ==
    ASSUME DbInv, NEW c \in Clients, NEW r \in Requests[c], Enter(c, r)
    PROVE  D!Next
<1>1. /\ Goto(c, [NoFrame EXCEPT !.pc = "search", !.req = r, !.parent = Root])
      /\ UNCHANGED <<node, answer>> /\ Pc(c) = "idle"
  BY DEF Enter
<1>2. frame'[c] = [NoFrame EXCEPT !.pc = "search", !.req = r, !.parent = Root] /\ Others(c)
  BY <1>1, Goes
<1>3. frame'[c].req = r
  BY <1>2 DEF NoFrame
<1>4. frame[c].req = Absent
  BY <1>1, FrameFacts DEF DbInv, FrameOK, Pc
<1>5. Calls' = [Calls EXCEPT ![c] = r]
  BY <1>2, <1>3 DEF Calls, Others
<1>6. r \in AllRequests
  BY DEF AllRequests
<1>7. D!Call(c, r)
  BY <1>1, <1>4, <1>5, ViewStays DEF D!Call, Calls
<1> QED BY <1>6, <1>7 DEF D!Next

LEMMA ReturnReturns ==
    ASSUME DbInv, NEW c \in Clients, Return(c)
    PROVE  D!Next
<1>1. Goto(c, NoFrame) /\ Answers(c, Absent) /\ UNCHANGED node /\ Pc(c) = "done"
  BY DEF Return
<1>2. frame'[c] = NoFrame /\ Others(c)
  BY <1>1, Goes
<1>3. frame'[c].req = Absent
  BY <1>2 DEF NoFrame
<1>4. answer[c] # Absent
  BY <1>1, FrameFacts DEF DbInv, FrameOK, Pc
<1>5. Calls' = [Calls EXCEPT ![c] = Absent]
  BY <1>2, <1>3 DEF Calls, Others
<1>6. D!Return(c)
  BY <1>1, <1>4, <1>5, ViewStays DEF D!Return, Answers, Calls
<1> QED BY <1>6 DEF D!Next

LEMMA DictionaryInit == ASSUME Init PROVE D!Init
<1>1. DbInv /\ frame = [c \in Clients |-> NoFrame] /\ answer = [c \in Clients |-> Absent]
  BY InitOK DEF Init
<1>2. \A k \in Keys : View[k] \in Keys \cup {Absent}
  <2> TAKE k \in Keys
  <2>1. CASE \E n \in InTree \ {Root} : node[n].name = k
    <3>1. PICK n \in InTree \ {Root} : node[n].name = k
      BY <2>1
    <3>2. View[k] = node[n].value
      BY <1>1, <3>1, OneValueNow, ViewIs, ViewHas DEF InTree
    <3> QED BY <1>1, <3>2 DEF DbInv, ShapeOK
  <2>2. CASE \A n \in InTree \ {Root} : node[n].name # k
    BY <2>2, ViewIs, ViewLacks DEF InTree
  <2> QED BY <2>1, <2>2
<1>3. View \in [Keys -> Keys \cup {Absent}]
  <2>1. View = [k \in Keys |-> View[k]]
    BY ViewIs DEF ViewOf
  <2> QED BY <1>2, <2>1
<1>4. [c \in Clients |-> frame[c].req] = [c \in Clients |-> Absent]
  BY <1>1 DEF NoFrame
<1> QED BY <1>1, <1>3, <1>4 DEF D!Init

LEMMA DictionaryStep == ASSUME DbInv, DbInv', [Next]_dbVars PROVE [D!Next]_D!dictVars
<1>1. ASSUME NEW c \in Clients, NEW r \in Requests[c], Enter(c, r) PROVE D!Next
  BY <1>1, EnterCalls
<1>2. ASSUME NEW c \in Clients, Works(c) PROVE D!Next \/ UNCHANGED D!dictVars
  BY <1>2, SearchHidden, QueryMissServes, RemoveMissServes, AddMissServes, QueryHitServes, AddHitServes, SpliceServes,
     CopyUpServes, UnhookHidden, DestroyHidden, ReturnReturns DEF Works
<1>3. Cleanup \/ UNCHANGED dbVars => UNCHANGED D!dictVars
  BY SameHidden DEF Cleanup, dbVars
<1> QED BY <1>1, <1>2, <1>3 DEF Next

\* However the calls of the threads interleave, each takes effect in one instant between its
\* start and its return: a miss where search meets the null pointer, remove of a node with two
\* children at the copy of its successor, before that is unhooked (db.c:73-216).
THEOREM DictionaryImplemented == Spec => ImplementsDictionary
<1>1. Init => D!Init
  BY DictionaryInit
<1>2. DbInv /\ DbInv' /\ [Next]_dbVars => [D!Next]_D!dictVars
  BY DictionaryStep
<1> QED BY <1>1, <1>2, InvariantHolds, PTL DEF Spec, ImplementsDictionary, D!Spec
==============================================================================
