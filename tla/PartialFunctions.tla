--------------------------- MODULE PartialFunctions ---------------------------
(***************************************************************************)
(* Objects as partial functions: one pair, and one object laid over        *)
(* another.  The definitions are those of the module TLC, written out for  *)
(* the provers, which cannot look into it.                                 *)
(***************************************************************************)

k :> v == [x \in {k} |-> v]

f @@ g == [x \in DOMAIN f \cup DOMAIN g |-> IF x \in DOMAIN f THEN f[x] ELSE g[x]]
=============================================================================
