-------------------------------- MODULE MCFetch --------------------------------
(* Instance of Fetch for TLC: two pages of one site, a page of another site, *)
(* and a URL the policy refuses.                                             *)
EXTENDS Fetch

CONSTANTS a1, a2, b1, bad

MC_SiteOf == [u \in {a1, a2, b1} |-> IF u = b1 THEN "b" ELSE "a"]
================================================================================
