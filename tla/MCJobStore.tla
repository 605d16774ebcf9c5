----------------------------- MODULE MCJobStore -----------------------------
(* One job of each kind, two requests that cancel, and at most one thread   *)
(* that cannot be started.                                                  *)
EXTENDS JobStore, TLC
CONSTANTS final, run, segment
MCKind == (final :> "finalization") @@ (run :> "run") @@ (segment :> "segment")
=============================================================================
