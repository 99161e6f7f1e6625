--------------------------- MODULE MCSiteRouting ---------------------------
(* SiteRouting with interchangeable requests. *)
EXTENDS SiteRouting, TLC

RequestSymmetry == Permutations(Request)
=============================================================================
