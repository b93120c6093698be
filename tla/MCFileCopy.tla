----------------------------- MODULE MCFileCopy -----------------------------
(* Instances of FileCopy for TLC. *)
EXTENDS FileCopy, TLC

\* Every pair of options meets in one of these.
MCModes == {[stampAtCreate |-> TRUE,  flush |-> FALSE, deferred |-> FALSE],
            [stampAtCreate |-> FALSE, flush |-> TRUE,  deferred |-> FALSE],
            [stampAtCreate |-> TRUE,  flush |-> TRUE,  deferred |-> TRUE],
            [stampAtCreate |-> FALSE, flush |-> FALSE, deferred |-> TRUE]}

\* Large files never meet the direct path's options.
LargeModes == {m \in Mode : m.stampAtCreate /\ ~m.deferred}

\* Large with a checkpoint in the middle, then small, then large again.
MCSize == <<3, 1, 2>>

\* Every version large.
LargeSize == <<3, 2>>

\* Temporary names are interchangeable.
Symmetry == Permutations(Parts)

\* The bytes of an object nothing refers to do not matter.
View == <<mode, src, hsrc, final, part, ckpt, pc, run, journal, handle, buf,
          outcome, ghost, [i \in Ids |-> IF Fresh(i) THEN AlienObject ELSE store[i]]>>
=============================================================================
