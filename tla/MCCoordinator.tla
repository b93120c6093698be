--------------------------- MODULE MCCoordinator ---------------------------
(* Small trees and size classes for model checking Coordinator. *)
EXTENDS Coordinator, TLC

CONSTANTS r, a, b, f1, f2, f3, w1, w2

\* Two sibling directories, so that exits yield to each other.
Siblings == (a :> r @@ b :> r @@ f1 :> a @@ f2 :> a @@ f3 :> b)
\* A directory inside another, each with files, so that batches fill and exits yield.
Nested == (a :> r @@ f1 :> a @@ f2 :> a @@ f3 :> r)

\* With thresholds 2 (large) and 3 (checkpoint): f1 is small but hides a named
\* stream to checkpoint, f2 is streamed, f3 is checkpointed.
RedirectorUnnamed == (f1 :> 1 @@ f2 :> 2 @@ f3 :> 3)
RedirectorLargest == (f1 :> 3 @@ f2 :> 2 @@ f3 :> 3)
\* Small files, ordinary or each hiding a large named stream.
SmallUnnamed == (f1 :> 1 @@ f2 :> 1 @@ f3 :> 1)
HiddenLargest == (f1 :> 2 @@ f2 :> 2 @@ f3 :> 2)
=============================================================================
