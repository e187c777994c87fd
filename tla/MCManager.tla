----------------------------- MODULE MCManager -----------------------------
(* Instances of Manager for TLC; callers and match ids are interchangeable. *)
EXTENDS Manager, TLC

CONSTANTS c1, c2, i1, i2, i3

TwoCallers == {c1, c2}
OneCaller == {c1}
TwoIds == {i1, i2}
ThreeIds == {i1, i2, i3}

AllOps == {"start", "stop", "trigger"}
StartOnly == {"start"}

Interchangeable == Permutations(Callers) \cup Permutations(MatchIds)
=============================================================================
