--------------------------- MODULE MCSiteReplicas ---------------------------
(* SiteReplicas as TLC checks it: no symmetry, since it checks liveness. *)
EXTENDS SiteReplicas
=============================================================================
