---------------------------- MODULE MCFileStore ------------------------------
(***************************************************************************)
(* Instances of FileStore: one file and one other file in the cache.       *)
(***************************************************************************)
EXTENDS FileStore

CONSTANTS w1, w2, s1, s2, l1, l2, c1, c2, d1, f1, f2, t1, t2

MCRemote == {w2, s2, l2, c2}
MCWriter == {w1, w2}
MCLarge == {l1, l2}
MCSmall == {s1, s2}
MCCreator == {c1, c2}
MCDeleter == {d1}

Threads == Permutations(Thread)

Case(open, cached, cap) == [open |-> open, cached |-> cached, cap |-> cap]

(* Two writers; a writer and a reader of a small file; two readers whose   *)
(* loads run without the lock; a deletion; a creator.  With little room.   *)
Safe == {Case({w1, w2}, {f2}, 4), Case({w1, w2}, {f1, f2}, 4), Case({w2, s1}, {f2}, 3),
         Case({w2, s1}, {f1, f2}, 3), Case({w1, d1}, {f1, f2}, 3), Case({w2, d1}, {f2}, 2),
         Case({l1, s2}, {f1, f2}, 3), Case({l1, l2}, {f2}, 2), Case({l1, s2}, {}, 2),
         Case({c1}, {f2}, 2), Case({c2}, {f2}, 3), Case({c1, d1}, {}, 1)}

(* A writer and a reader of a large file. *)
BackgroundLoad == {Case({w1, l1}, {}, 4)}
=============================================================================
