----------------------------- MODULE MCJournal -----------------------------
(* Two paths, three temporaries and two signatures for model checking Journal. *)
EXTENDS Journal, TLC

CONSTANTS p1, p2, t1, t2, t3, s1, s2

\* Temporaries are interchangeable, and so are signatures.
Symmetry == Permutations({t1, t2, t3}) \cup Permutations({s1, s2})
=============================================================================
