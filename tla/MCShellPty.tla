----------------------------- MODULE MCShellPty -----------------------------
(* A terminal that is too narrow, one that is too wide, and two between.   *)
EXTENDS ShellPty
MCSizes == {0, 1, 2, 4}
=============================================================================
