---------------------------- MODULE MCNamespace ----------------------------
(* Namespace on two workers.                                                  *)
EXTENDS NamespaceTree

CONSTANTS w1, w2

Req(op, paths) == [op |-> op, paths |-> paths]
Dir(ino) == [ino |-> ino, dir |-> TRUE]
File(ino) == [ino |-> ino, dir |-> FALSE]
MCHome(key) == IF (key[1] + key[2]) % 2 = 1 THEN w1 ELSE w2

MCStart == [
    (* A directory /1 with a file /1/2, and an empty place /2.                *)
    all |-> [
        dirs |-> (<<0, 1>> :> 1),
        rows |-> (<<0, 1>> :> Dir(1)) @@ (<<1, 2>> :> File(2)),
        left |-> 3,
        asks |-> {
            Req("mkdir", <<<<2, 1>>, <<2>>>>),
            Req("mkdir", <<<<1>>>>),
            Req("rmdir", <<<<1>>>>),
            Req("rename", <<<<1>>, <<2>>>>),
            Req("rename", <<<<1, 2>>, <<2, 2>>>>),
            Req("create", <<<<2, 2>>, <<1, 2>>>>),
            Req("unlink", <<<<1, 2>>>>),
            Req("open", <<<<2>>, <<2, 1>>, <<1>>, <<1, 2>>>>),
            Req("chmod", <<<<1, 2>>>>),
            Req("readdir", <<<<1>>>>)}],
    (* An empty directory /1, which is removed, made again and renamed.       *)
    overtaking |-> [
        dirs |-> (<<0, 1>> :> 1),
        rows |-> (<<0, 1>> :> Dir(1)),
        left |-> 3,
        asks |-> {
            Req("mkdir", <<<<1>>>>),
            Req("rmdir", <<<<1>>>>),
            Req("rename", <<<<1>>, <<2>>>>),
            Req("unlink", <<<<1>>>>),
            Req("create", <<<<2, 1>>, <<2, 2>>>>),
            Req("mkdir", <<<<2>>>>)}],
    (* Two directories with a file each, whose renames cross.                 *)
    crossing |-> [
        dirs |-> (<<0, 1>> :> 1) @@ (<<0, 2>> :> 2),
        rows |-> (<<0, 1>> :> Dir(1)) @@ (<<0, 2>> :> Dir(2))
                 @@ (<<1, 2>> :> File(3)) @@ (<<2, 2>> :> File(4)),
        left |-> 2,
        asks |-> {
            Req("rename", <<<<1, 2>>, <<2, 2>>>>),
            Req("rename", <<<<2, 2>>, <<1, 2>>>>),
            Req("mkdir", <<<<1, 2>>, <<2, 2>>>>),
            Req("create", <<<<1, 2>>>>),
            Req("unlink", <<<<1, 2>>>>),
            Req("stat", <<<<1, 2>>>>),
            Req("close", <<<<1, 2>>>>),
            Req("utimens", <<<<2, 2>>>>),
            Req("chown", <<<<1, 2>>>>),
            Req("opendir", <<<<2>>>>)}]]

Symmetry == Permutations(Proc)
=============================================================================
