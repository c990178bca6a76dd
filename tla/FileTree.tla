------------------------------ MODULE FileTree ------------------------------
(* What the metadata service promises: a tree of directories and files, and  *)
(* operations on it that happen at once.  A batch is one operation.          *)
EXTENDS Naturals, Sequences, FiniteSets, SequencesExt

CONSTANTS Name, Depth

(* tree[path] is "none", "file" or "dir"; the root is not a path.            *)
VARIABLE tree

Path == UNION {[1..n -> Name] : n \in 1..Depth}

Parent(p) == Front(p)
IsDir(t, p) == p = <<>> \/ t[p] = "dir"
Under(p, q) == IsPrefix(q, p) /\ p # q

(* A batch changes some of the paths; new entries may be below each other.   *)
Changed == {p \in Path : tree'[p] # tree[p]}
Batch(old, new) == \A p \in Changed : tree[p] = old /\ tree'[p] = new

Mkdir == Batch("none", "dir") /\ \A p \in Changed : IsDir(tree', Parent(p))
Create == Batch("none", "file") /\ \A p \in Changed : IsDir(tree, Parent(p))
Unlink == Batch("file", "none")

Rmdir == \E d \in Path :
    /\ tree[d] = "dir" /\ \A p \in Path : Under(p, d) => tree[p] = "none"
    /\ tree' = [tree EXCEPT ![d] = "none"]

(* The whole subtree moves; a directory never moves below itself.            *)
Moved(src, dst, p) ==
    LET rest == SubSeq(p, Len(dst) + 1, Len(p)) IN
    IF IsPrefix(dst, p)
    THEN IF src \o rest \in Path THEN tree[src \o rest] ELSE "none"
    ELSE IF IsPrefix(src, p) THEN "none" ELSE tree[p]

Rename == \E src, dst \in Path :
    /\ tree[src] # "none" /\ tree[dst] = "none" /\ IsDir(tree, Parent(dst))
    /\ ~IsPrefix(src, dst)
    /\ tree' = [p \in Path |-> Moved(src, dst, p)]

Init ==
    /\ tree \in [Path -> {"none", "file", "dir"}]
    /\ \A p \in Path : tree[p] # "none" => IsDir(tree, Parent(p))
Next ==
    /\ tree' \in [Path -> {"none", "file", "dir"}]
    /\ Mkdir \/ Create \/ Unlink \/ Rmdir \/ Rename
Spec == Init /\ [][Next]_tree
=============================================================================
