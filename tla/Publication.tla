----------------------------- MODULE Publication -----------------------------
(***************************************************************************)
(* What the temporary-and-rename strategy of bigcp promises of the final    *)
(* name (crates/win/src/file.rs, DestinationTemp): whoever looks there sees *)
(* what was there before, or one whole version of the source, and nothing   *)
(* in between, however the copy is interrupted.                             *)
(***************************************************************************)
EXTENDS Integers, Sequences

CONSTANTS Versions, Size, NoFile

VARIABLE shown    \* the bytes under the final name, or NoFile

Whole(v) == [i \in 1..Size[v] |-> <<v, i>>]

\* Bytes that are not the copy's doing: some chunk is no chunk of the source.
Alien(d) == \E i \in 1..Len(d) : d[i][1] \notin Versions

Init == shown = NoFile \/ Alien(shown)

\* The copy makes one whole version visible in one step.
Publish == \E v \in Versions : shown' = Whole(v)

\* Another program, or the device, changes what is there.
Interfere == shown' = NoFile \/ Alien(shown')

Spec == Init /\ [][Publish \/ Interfere]_shown
=============================================================================
