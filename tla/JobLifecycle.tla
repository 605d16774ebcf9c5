---------------------------- MODULE JobLifecycle ----------------------------
(***************************************************************************)
(* What api/jobs.py promises the rest of the program about one background  *)
(* job, whatever the thread that runs it and the threads that cancel it    *)
(* do: a job is queued once, starts once, ends once with one outcome, and  *)
(* is forgotten only after it ended.                                       *)
(***************************************************************************)
CONSTANT Jobs
VARIABLE status

Outcomes == {"done", "stopped", "failed"}
Statuses == {"absent", "queued", "running", "deleted"} \cup Outcomes

Init == status = [j \in Jobs |-> "absent"]

Move(j, from, to) ==
    /\ status[j] \in from
    /\ \E s \in to : status' = [status EXCEPT ![j] = s]

Next == \E j \in Jobs :
    \/ Move(j, {"absent"}, {"queued"})
    \/ Move(j, {"queued"}, {"running"})
    \/ Move(j, {"running"}, Outcomes)
    \/ Move(j, Outcomes, {"deleted"})

Spec == Init /\ [][Next]_status
=============================================================================
