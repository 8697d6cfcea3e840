------------------------------- MODULE Tables -------------------------------
(***************************************************************************)
(* Finite tables, as the object literals of cli.ts write them: one entry,  *)
(* one value for several keys, and the join of two, where the first one    *)
(* decides.  They have definitions of their own, so that proofs can use    *)
(* them.                                                                   *)
(***************************************************************************)
key :> value == [k \in {key} |-> value]
Of(names, value) == [k \in names |-> value]
Join(f, g) == [k \in DOMAIN f \union DOMAIN g |-> IF k \in DOMAIN f THEN f[k] ELSE g[k]]
f @@ g == Join(f, g)
=============================================================================
