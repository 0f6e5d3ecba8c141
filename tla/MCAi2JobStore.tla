--------------------------- MODULE MCAi2JobStore ---------------------------
(* Two jobs of one dossier.                                                  *)
EXTENDS Ai2JobStore, TLC

CONSTANTS j1, j2, d1
SameDossier == j1 :> d1 @@ j2 :> d1
=============================================================================
