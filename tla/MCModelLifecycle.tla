---- MODULE MCModelLifecycle ----
(* Two models of the workspace, which share the model id that every training gives, and one from
   outside with its own. *)
EXTENDS ModelLifecycle, TLC
CONSTANTS r1, r2, ext

Three == {r1, r2, ext}
Ids == [m \in Three |-> IF m = ext THEN 2 ELSE 1]
Trained == Permutations({r1, r2})
====
