------------------------------ MODULE MCSessions ------------------------------
(* One committed round, one finalization and one continue on it. *)
EXTENDS Sessions
CONSTANT A
MCRoundFingerprint == [r \in {0} |-> A]
=============================================================================
