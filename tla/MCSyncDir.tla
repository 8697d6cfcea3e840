----------------------------- MODULE MCSyncDir -----------------------------
(* One file, and two syncs of one process.                                 *)
EXTENDS SyncDir, TLC
CONSTANTS f, x, y, rw, s, t, none, torn
MCFiles == {f}
MCHashes == {x, y}
MCModes == {rw}
MCSyncs == {s, t}
Symmetry == Permutations(MCHashes) \cup Permutations(MCSyncs)
=============================================================================
