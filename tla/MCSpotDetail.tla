---- MODULE MCSpotDetail ----
(* Small instances of SpotDetail for TLC. *)
EXTENDS SpotDetail, TLC

CONSTANTS r1, r2

MCRequests == {r1, r2}
RequestSymmetry == Permutations(MCRequests)
MCKindsAll == AllKinds
MCKindsReaders == {"complete", "deferred"}
MCKindsDeferred == {"deferred"}
MCHidden == {2}
MCBlank == {1}
MCNoVersion == {}
====
