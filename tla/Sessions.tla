------------------------------- MODULE Sessions -------------------------------
(***************************************************************************)
(* A whole session: segments, finalizations, comparisons, plans, stops,    *)
(* polls and exits on one document.  Nothing in the server keeps a         *)
(* finalization or a comparison from starting while a segment is at work:  *)
(* only the other direction is checked (CheckIdle).                        *)
(***************************************************************************)
EXTENDS SessionEvidence, SessionSegments

vars == <<docVars, evidenceLocals, segmentLocals>>

Init == EvidenceInit /\ SegmentsInit

(* A watcher that waits to release a finalization is in "reconciling", one   *)
(* that waits to finish a segment in "clearing"; the process exits for both. *)
Exit ==
    /\ EvidenceCrash
    /\ noticed' = [t \in SegmentJobs \cup Watchers |-> Unnoticed]
    /\ UNCHANGED <<disk, memory>>

Next ==
    \/ EvidenceStep /\ UNCHANGED segmentLocals
    \/ SegmentsStep /\ UNCHANGED evidenceLocals
    \/ Exit

Spec == Init /\ [][Next]_vars

(* "Finalizing a selected round increments the matching frozen-holdout       *)
(* counter exactly once" (docs/TUTORIAL.md 344): a read that is done is one  *)
(* the session's counters know of, whatever else runs on the session.        *)
ReadsStayCounted == DoneMeansCounted
=============================================================================
