-------------------------- MODULE MCDossierRecord --------------------------
(* Two facts and a clause to review, two reviewers, two runs. *)
EXTENDS DossierRecord

CONSTANTS f1, f2, c1, p1, p2
=============================================================================
