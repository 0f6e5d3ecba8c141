-------------------------- MODULE MCDossierPipeline --------------------------
(* Small instances of DossierPipeline for TLC.  Documents and runs are       *)
(* interchangeable, workers too.                                             *)
EXTENDS DossierLifecycleProofs, TLC

Symmetry == Permutations(Docs) \cup Permutations(Runs)
SymmetryWithWorkers == Symmetry \cup Permutations(Workers)

AllRequests == RequestKinds
CoreRequests == RequestKinds \ {"cancel", "trigger"}
AllRacing == PendingKinds
=============================================================================
