-------------------------- MODULE MCSessionEvidence --------------------------
(* One committed round, two finalize requests and a comparison with a plan  *)
(* pinned from it, two holdout revisions, one client polling, one exit.      *)
EXTENDS SessionEvidence, TLC
CONSTANT A
MCRoundFingerprint == [r \in {0} |-> A]
Symmetry == Permutations(FinalizeJobs)
=============================================================================
