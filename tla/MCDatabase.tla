------------------------------- MODULE MCDatabase -------------------------------
(* An instance of Database for TLC: every tree of up to four names, and calls of *)
(* three threads on it.  A name is its own value.                                *)
EXTENDS Database, SequencesExt, TLC

CONSTANTS Updater, Remover, Querier

Ask(op, ks) == {[op |-> op, key |-> k, val |-> k] : k \in ks}

MCRequests == (Updater :> Ask("a", {1, 3}) \cup Ask("d", {2}))
              @@ (Remover :> Ask("d", Keys))
              @@ (Querier :> Ask("q", {3}) \cup Ask("a", {4}))

\* One thread alone adds name k, at address k: under the greatest smaller name if
\* that has no right child, under the least greater one otherwise.
Inserted(tree, k) ==
    LET names == {tree[n].name : n \in {m \in Nodes : m = Root \/ tree[m].name # 0}}
        pred == Max({x \in names : x < k})
        at == IF tree[pred].rchild = Null THEN <<pred, "rchild">>
              ELSE <<Min({x \in names : x > k}), "lchild">>
    IN  [tree EXCEPT ![at[1]][at[2]] = k, ![k] = [NoNode EXCEPT !.name = k, !.value = k]]

MCTrees == {[node  |-> FoldLeft(Inserted, [n \in Nodes |-> NoNode], load),
             alive |-> {Root} \cup ToSet(load)] :
            load \in {s \in UNION {[1 .. n -> Keys] : n \in 0 .. Cardinality(Keys)} :
                         \A i, j \in DOMAIN s : s[i] = s[j] => i = j}}
=================================================================================
