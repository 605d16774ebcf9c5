--------------------------- MODULE SessionEvidence ---------------------------
(***************************************************************************)
(* The evidence side of a session: validation-only strategy comparisons,   *)
(* the plans pinned from them, and the finalizations that read the frozen  *)
(* holdout.  Each request reserves the session under the lock, computes    *)
(* without it, and commits under it again; a GET in between may decide     *)
(* that a reservation has no live job and release it.                      *)
(***************************************************************************)
EXTENDS SessionDocument

VARIABLES
    request,    \* per finalize job: what its reservation records
    resolved,   \* per finalize job: the plan its handler read back
    watched     \* per watcher: the reservation it found without a live job

evidenceLocals == <<request, resolved, watched>>
evidenceVars == <<docVars, evidenceLocals>>

RequestType ==
    [round : Rounds, fp : Fingerprints, confirm : BOOLEAN,
     plan : PlanIds \cup {None}]

LocalsInit ==
    /\ request = [f \in FinalizeJobs |->
                    [round |-> 0, fp |-> AnyFingerprint, confirm |-> FALSE,
                     plan |-> None]]
    /\ resolved = [f \in FinalizeJobs |-> None]
    /\ watched = [w \in Watchers |-> None]

EvidenceInit == DocInit /\ LocalsInit

-----------------------------------------------------------------------------
(* Finalization.                                                            *)

(* Legacy reports carry no fingerprint and count for the frozen boundary.    *)
ReadBefore(fp) ==
    \/ session.counts[fp] > 0
    \/ session.reads > 0 /\ \A g \in Fingerprints : session.counts[g] = 0

(* A faulty variant: the plan is named after the round only. *)
CompatPlan_ByRound(r, fp) == <<r, AnyFingerprint>>

CompatPlan(r, fp) == <<r, fp>>

(* A faulty variant: the plan is written anew for every request. *)
PlanMissing_Always(p) == TRUE

PlanMissing(p) == ~plan_files[p].exists

(* A faulty variant: a repeated read needs no consent. *)
MayFinalize_Unasked(q) ==
    /\ session.active_final = None
    /\ round_files[q.round].exists
    /\ q.plan # None => /\ plan_files[q.plan].exists
                        /\ plan_files[q.plan].round = q.round
                        /\ plan_files[q.plan].fp = q.fp

(* The guards of claim_finalization; a refused request changes nothing. *)
MayFinalize(q) ==
    /\ session.active_final = None
    /\ round_files[q.round].exists
    /\ q.plan # None => /\ plan_files[q.plan].exists
                        /\ plan_files[q.plan].round = q.round
                        /\ plan_files[q.plan].fp = q.fp
    /\ ReadBefore(q.fp) => q.confirm

(* claim_finalization when the plan file is already there: one save. *)
ClaimFinalization(f) ==
    /\ pc[f] = "idle"
    /\ io_lock = None
    /\ \E q \in RequestType :
          LET p == IF q.plan # None THEN q.plan ELSE CompatPlan(q.round, q.fp)
          IN  /\ MayFinalize(q)
              /\ ~PlanMissing(p)
              /\ request' = [request EXCEPT ![f] = [q EXCEPT !.plan = p]]
    /\ session' = [session EXCEPT !.active_final = f]
    /\ Goto(f, "claimed")
    /\ UNCHANGED <<files, io_lock, jobs, cancelled, outcome, crashes,
                   resolved, watched>>

(* Without a plan, _ensure_compatibility_finalization_plan writes one first; *)
(* the session that lists it is saved with the reservation.                  *)
WriteCompatPlan(f) ==
    /\ pc[f] = "idle"
    /\ io_lock = None
    /\ \E q \in RequestType :
          LET p == CompatPlan(q.round, q.fp)
          IN  /\ q.plan = None
              /\ MayFinalize(q)
              /\ PlanMissing(p)
              /\ request' = [request EXCEPT ![f] = [q EXCEPT !.plan = p]]
              /\ plan_files' = [plan_files EXCEPT ![p] =
                    [exists |-> TRUE, round |-> q.round, fp |-> q.fp,
                     adaptive |-> session.reads > 0, comparison |-> None]]
    /\ io_lock' = f
    /\ Goto(f, "claim_save")
    /\ UNCHANGED <<session, round_files, final_files, comparison_files, jobs,
                   cancelled, outcome, crashes, resolved, watched>>

SaveFinalizationClaim(f) ==
    /\ pc[f] = "claim_save"
    /\ session' = [session EXCEPT !.active_final = f,
                                  !.plans = @ \cup {request[f].plan}]
    /\ io_lock' = None
    /\ Goto(f, "claimed")
    /\ UNCHANGED <<files, jobs, cancelled, outcome, crashes, evidenceLocals>>

(* The handler reads back whatever reservation the session holds by now,     *)
(* takes the plan to use from it, and submits the job.                       *)
SubmitFinalization(f) ==
    /\ pc[f] = "claimed"
    /\ io_lock = None
    /\ resolved' = [resolved EXCEPT ![f] =
                      IF session.active_final = None THEN None
                      ELSE request[session.active_final].plan]
    /\ Submitted(f)
    /\ UNCHANGED <<session, files, io_lock, cancelled, crashes,
                   request, watched>>

Reserved(f) ==
    /\ session.active_final = f
    /\ resolved[f] = request[f].plan

(* The job thread starts and finalize_round checks its reservation. *)
BeginFinalization(f) ==
    /\ pc[f] = "queued"
    /\ io_lock = None
    /\ jobs' = [jobs EXCEPT ![f] = "running"]
    /\ IF Reserved(f) THEN Goto(f, "reporting") /\ UNCHANGED outcome
       ELSE Unwinding(f, "failed")
    /\ UNCHANGED <<session, files, io_lock, cancelled, crashes, evidenceLocals>>

(* build_report up to the last poll of stop(), then past it to the report. *)
ReadHoldout(f) ==
    /\ pc[f] = "reporting"
    /\ f \notin cancelled
    /\ Goto(f, "computed")
    /\ UNCHANGED <<session, files, io_lock, jobs, cancelled, outcome, crashes,
                   evidenceLocals>>

(* A faulty variant: the commit can fail between its two writes. *)
AbandonFinalization_Late(f) ==
    /\ \/ pc[f] = "reporting" /\ f \in cancelled /\ Unwinding(f, "stopped")
       \/ pc[f] \in {"reporting", "computed", "commit_save"} /\ Unwinding(f, "failed")
    /\ UNCHANGED <<session, files, io_lock, jobs, cancelled, crashes,
                   evidenceLocals>>

(* A stop seen at a poll, or an error before the commit. *)
AbandonFinalization(f) ==
    /\ \/ pc[f] = "reporting" /\ f \in cancelled /\ Unwinding(f, "stopped")
       \/ pc[f] \in {"reporting", "computed"} /\ Unwinding(f, "failed")
    /\ UNCHANGED <<session, files, io_lock, jobs, cancelled, crashes,
                   evidenceLocals>>

(* The commit: the reservation is checked again, the read is numbered, the   *)
(* evidence is downgraded unless it is a first and non-adaptive sight, and   *)
(* the artifact is written.  A released reservation refuses it.  What the    *)
(* report found, significant or not, is chosen here, where it first counts.  *)
PublishFinalization(f) ==
    /\ pc[f] = "computed"
    /\ io_lock = None
    /\ IF Reserved(f) /\ ~final_files[f].exists
       THEN LET q == request[f]
                first == session.reads = 0
            IN  /\ \E found \in BOOLEAN : final_files' = [final_files EXCEPT ![f] =
                      [exists |-> TRUE, round |-> q.round, plan |-> q.plan,
                       fp |-> q.fp, index |-> session.reads + 1,
                       same |-> session.counts[q.fp] + 1, first |-> first,
                       consent |-> q.confirm,
                       significant |-> /\ found /\ first
                                       /\ ~round_files[q.round].adaptive
                                       /\ ~plan_files[q.plan].adaptive]]
                /\ io_lock' = f
                /\ Goto(f, "commit_save")
                /\ UNCHANGED outcome
       ELSE Unwinding(f, "failed") /\ UNCHANGED <<final_files, io_lock>>
    /\ UNCHANGED <<session, round_files, comparison_files, plan_files, jobs,
                   cancelled, crashes, evidenceLocals>>

(* A faulty variant: the read is counted and not listed. *)
CountFinalization_Unlisted(f) ==
    /\ pc[f] = "commit_save"
    /\ session' = [session EXCEPT
                      !.reads = final_files[f].index,
                      !.counts[final_files[f].fp] = final_files[f].same,
                      !.active_final = None]
    /\ io_lock' = None
    /\ outcome' = [outcome EXCEPT ![f] = "done"]
    /\ Goto(f, "settling")
    /\ UNCHANGED <<files, jobs, cancelled, crashes, evidenceLocals>>

(* ... and the session that counts it is saved. *)
CountFinalization(f) ==
    /\ pc[f] = "commit_save"
    /\ session' = [session EXCEPT
                      !.reads = final_files[f].index,
                      !.counts[final_files[f].fp] = final_files[f].same,
                      !.finalizations = Append(@, f),
                      !.active_final = None]
    /\ io_lock' = None
    /\ outcome' = [outcome EXCEPT ![f] = "done"]
    /\ Goto(f, "settling")
    /\ UNCHANGED <<files, jobs, cancelled, crashes, evidenceLocals>>

(* finish_finalization_job on the way out of an exception. *)
UnwindFinalization(f) ==
    /\ pc[f] = "unwinding"
    /\ io_lock = None
    /\ session' = [session EXCEPT !.active_final = IF @ = f THEN None ELSE @]
    /\ Goto(f, "settling")
    /\ UNCHANGED <<files, io_lock, jobs, cancelled, outcome, crashes,
                   evidenceLocals>>

-----------------------------------------------------------------------------
(* Strategy comparisons.                                                    *)

(* claim_strategy_comparison: the artifact file, then the session. *)
ClaimComparison(c) ==
    /\ pc[c] = "idle"
    /\ io_lock = None
    /\ session.active_comparison = None
    /\ \E r \in Rounds, confirm \in BOOLEAN :
          /\ session.reads > 0 => confirm
          /\ round_files[r].exists
          /\ comparison_files' = [comparison_files EXCEPT ![c] =
                [status |-> "queued", round |-> r, fp |-> round_files[r].fp,
                 adaptive |-> session.reads > 0, eligible |-> FALSE]]
    /\ io_lock' = c
    /\ Goto(c, "claim_save")
    /\ UNCHANGED <<session, round_files, final_files, plan_files, jobs,
                   cancelled, outcome, crashes, evidenceLocals>>

SaveComparisonClaim(c) ==
    /\ pc[c] = "claim_save"
    /\ session' = [session EXCEPT !.active_comparison = c,
                                  !.comparisons = @ \cup {c}]
    /\ io_lock' = None
    /\ Goto(c, "claimed")
    /\ UNCHANGED <<files, jobs, cancelled, outcome, crashes, evidenceLocals>>

SubmitComparison(c) ==
    /\ pc[c] = "claimed"
    /\ Submitted(c)
    /\ UNCHANGED <<session, files, io_lock, cancelled, crashes, evidenceLocals>>

BeginComparison(c) ==
    /\ pc[c] = "queued"
    /\ io_lock = None
    /\ jobs' = [jobs EXCEPT ![c] = "running"]
    /\ comparison_files' = [comparison_files EXCEPT ![c].status = "running"]
    /\ Goto(c, "reporting")
    /\ UNCHANGED <<session, round_files, final_files, plan_files, io_lock,
                   cancelled, outcome, crashes, evidenceLocals>>

(* compare_validation_strategies and the poll after it. *)
Compare(c) ==
    /\ pc[c] = "reporting"
    /\ c \notin cancelled
    /\ Goto(c, "computed")
    /\ UNCHANGED <<session, files, io_lock, jobs, cancelled, outcome, crashes,
                   evidenceLocals>>

(* A faulty variant: the outcome is named after the exception. *)
AbandonComparison_Cancelled(c) ==
    /\ pc[c] = "reporting"
    /\ \/ c \in cancelled /\ Unwinding(c, "cancelled")
       \/ Unwinding(c, "failed")
    /\ UNCHANGED <<session, files, io_lock, jobs, cancelled, crashes,
                   evidenceLocals>>

(* A stop seen at a poll, or an error. *)
AbandonComparison(c) ==
    /\ pc[c] = "reporting"
    /\ \/ c \in cancelled /\ Unwinding(c, "stopped")
       \/ Unwinding(c, "failed")
    /\ UNCHANGED <<session, files, io_lock, jobs, cancelled, crashes,
                   evidenceLocals>>

(* The end of run_strategy_comparison, or update_strategy_comparison_status  *)
(* after an exception: the artifact first ...                                *)
WriteComparison(c) ==
    /\ pc[c] \in {"computed", "unwinding"}
    /\ io_lock = None
    /\ \E eligible \in BOOLEAN : comparison_files' = [comparison_files EXCEPT
           ![c].status = IF pc[c] = "computed" THEN "done"
                         ELSE IF outcome[c] = "stopped" THEN "stopped"
                         ELSE "failed",
           ![c].eligible = pc[c] = "computed" /\ eligible]
    /\ outcome' = IF pc[c] = "computed" THEN [outcome EXCEPT ![c] = "done"]
                  ELSE outcome
    /\ io_lock' = c
    /\ Goto(c, "commit_save")
    /\ UNCHANGED <<session, round_files, final_files, plan_files, jobs,
                   cancelled, crashes, evidenceLocals>>

(* A faulty variant: only a comparison that succeeded is released. *)
SaveComparison_IfDone(c) ==
    /\ pc[c] = "commit_save"
    /\ session' = [session EXCEPT !.active_comparison =
                      IF outcome[c] = "done" THEN None ELSE @]
    /\ io_lock' = None
    /\ Goto(c, "settling")
    /\ UNCHANGED <<files, jobs, cancelled, outcome, crashes, evidenceLocals>>

(* ... then the session, whose reservation is cleared unconditionally. *)
SaveComparison(c) ==
    /\ pc[c] = "commit_save"
    /\ session' = [session EXCEPT !.active_comparison = None]
    /\ io_lock' = None
    /\ Goto(c, "settling")
    /\ UNCHANGED <<files, jobs, cancelled, outcome, crashes, evidenceLocals>>

-----------------------------------------------------------------------------
(* create_finalization_plan: the plan file, then the session. *)
WritePlan(p) ==
    /\ pc[p] = "idle"
    /\ io_lock = None
    /\ \E c \in ComparisonJobs :
          /\ comparison_files[c].status = "done"
          /\ comparison_files[c].eligible
          /\ plan_files' = [plan_files EXCEPT ![p] =
                [exists |-> TRUE, round |-> comparison_files[c].round,
                 fp |-> comparison_files[c].fp,
                 adaptive |-> comparison_files[c].adaptive, comparison |-> c]]
    /\ io_lock' = p
    /\ Goto(p, "claim_save")
    /\ UNCHANGED <<session, round_files, final_files, comparison_files, jobs,
                   cancelled, outcome, crashes, evidenceLocals>>

SavePlan(p) ==
    /\ pc[p] = "claim_save"
    /\ session' = [session EXCEPT !.plans = @ \cup {p}]
    /\ io_lock' = None
    /\ Goto(p, "finished")
    /\ UNCHANGED <<files, jobs, cancelled, outcome, crashes, evidenceLocals>>

-----------------------------------------------------------------------------
(* A faulty variant: a job the registry does not know is taken for live. *)
Dead_KnownOnly(j) == jobs[j] \in {"done", "stopped", "failed"}

Dead(j) == jobs[j] \notin Live

(* _session_finalization_job_view: the reservation has no live job ...       *)
(* Reading the document and the registry is one step: a job only moves       *)
(* forward, and one that left Live had released its reservation before.      *)
NoticeStale(w) ==
    /\ pc[w] = "idle"
    /\ io_lock = None
    /\ session.active_final # None
    /\ Dead(session.active_final)
    /\ watched' = [watched EXCEPT ![w] = session.active_final]
    /\ Goto(w, "reconciling")
    /\ UNCHANGED <<session, files, io_lock, jobs, cancelled, outcome, crashes,
                   request, resolved>>

(* ... so it is released, if it is still the same. *)
ReleaseStale(w) ==
    /\ pc[w] = "reconciling"
    /\ io_lock = None
    /\ session' = [session EXCEPT !.active_final =
                      IF @ = watched[w] THEN None ELSE @]
    /\ watched' = [watched EXCEPT ![w] = None]
    /\ Goto(w, "idle")
    /\ UNCHANGED <<files, io_lock, jobs, cancelled, outcome, crashes,
                   request, resolved>>
-----------------------------------------------------------------------------
(* Steps that go on by themselves once a request was admitted. *)
FinalizeProgress(f) ==
    \/ SaveFinalizationClaim(f) \/ SubmitFinalization(f) \/ BeginFinalization(f)
    \/ ReadHoldout(f) \/ AbandonFinalization(f) \/ PublishFinalization(f)
    \/ CountFinalization(f) \/ UnwindFinalization(f)
    \/ /\ Settle(f)
       /\ UNCHANGED evidenceLocals

CompareProgress(c) ==
    \/ SaveComparisonClaim(c) \/ SubmitComparison(c) \/ BeginComparison(c)
    \/ Compare(c) \/ AbandonComparison(c) \/ WriteComparison(c)
    \/ SaveComparison(c)
    \/ /\ Settle(c)
       /\ UNCHANGED evidenceLocals

EvidenceStep ==
    \/ \E f \in FinalizeJobs :
          \/ ClaimFinalization(f) \/ WriteCompatPlan(f) \/ FinalizeProgress(f)
          \/ /\ Stop(f)
             /\ UNCHANGED evidenceLocals
    \/ \E c \in ComparisonJobs :
          \/ ClaimComparison(c) \/ CompareProgress(c)
          \/ /\ Stop(c)
             /\ UNCHANGED evidenceLocals
    \/ \E p \in PlanRequests : WritePlan(p) \/ SavePlan(p)
    \/ \E w \in Watchers : NoticeStale(w) \/ ReleaseStale(w)

EvidenceCrash == Crash /\ watched' = [w \in Watchers |-> None]
                       /\ UNCHANGED <<request, resolved>>

EvidenceNext == EvidenceStep \/ EvidenceCrash

(* Threads run, reports and comparisons end, and some client keeps asking    *)
(* for the session, as the web client does.  Nobody has to send a request,   *)
(* to stop a job, or to exit the process.                                    *)
EvidenceFairness ==
    /\ \A f \in FinalizeJobs : WF_evidenceVars(FinalizeProgress(f))
    /\ \A c \in ComparisonJobs : WF_evidenceVars(CompareProgress(c))
    /\ \A p \in PlanRequests : WF_evidenceVars(SavePlan(p))
    /\ \A w \in Watchers : WF_evidenceVars(NoticeStale(w) \/ ReleaseStale(w))

EvidenceSpec == EvidenceInit /\ [][EvidenceNext]_evidenceVars /\ EvidenceFairness

-----------------------------------------------------------------------------
EvidenceStages ==
    {"idle", "claim_save", "claimed", "queued", "reporting", "computed",
     "commit_save", "unwinding", "settling", "finished", "dead", "reconciling"}

EvidenceTypeOK ==
    /\ session \in SessionType
    /\ round_files \in [Rounds -> RoundType]
    /\ final_files \in [FinalizeJobs -> FinalType]
    /\ comparison_files \in [ComparisonJobs -> ComparisonType]
    /\ plan_files \in [PlanIds -> PlanType]
    /\ io_lock \in Threads \cup {None}
    /\ jobs \in [Jobs -> JobStatuses]
    /\ cancelled \subseteq Jobs
    /\ outcome \in [Jobs -> {"done", "stopped", "failed", "unstarted"}]
    /\ crashes \in 0..MaxCrashes
    /\ pc \in [Threads -> EvidenceStages]
    /\ request \in [FinalizeJobs -> RequestType]
    /\ resolved \in [FinalizeJobs -> PlanIds \cup {None}]
    /\ watched \in [Watchers -> FinalizeJobs \cup {None}]

Counted == {session.finalizations[i] : i \in 1..Len(session.finalizations)}

(* The session lists exactly the published reads, oldest first; this is what *)
(* a client sees of them, and the counters agree with it.                    *)
LedgerEntry(f) ==
    [fp |-> final_files[f].fp, first |-> final_files[f].first,
     same |-> final_files[f].same, consent |-> final_files[f].consent,
     significant |-> final_files[f].significant]

Ledger == INSTANCE HoldoutLedger WITH
    ledger <- [i \in 1..Len(session.finalizations) |->
                  LedgerEntry(session.finalizations[i])],
    counts <- session.counts

(* Whatever finalizations, comparisons, plans, stops, polls and exits        *)
(* interleave, what the session says of its holdout is a run of the abstract *)
(* ledger: reads are numbered in order and never forgotten, a repeat had     *)
(* consent, only the first read is a locked first read, and only it can be   *)
(* significant (sessions.py 1260-1324, 2021-2134).                           *)
ImplementsLedger == Ledger!Spec

(* The counter the consent check and the first-read label rest on is the     *)
(* number of reads the session lists, each listed once and at its number     *)
(* (sessions.py 2031-2032, 2112-2117).                                       *)
CounterIsExact ==
    /\ session.reads = LegacyReads + Len(session.finalizations)
    /\ \A i \in 1..Len(session.finalizations) :
          final_files[session.finalizations[i]].index = LegacyReads + i

(* A finalization the registry reports as done is counted: no client can     *)
(* have a result that the session does not know of (sessions.py 2016-2134,   *)
(* jobs.py 80-96).                                                           *)
DoneMeansCounted == \A f \in FinalizeJobs : jobs[f] = "done" => f \in Counted

(* An artifact the session does not count exists only between the two writes *)
(* of a commit, or because the process exited there: each exit can hide at   *)
(* most one read (sessions.py 2111, 2134).                                   *)
UncountedOnlyByExit ==
    Cardinality({f \in FinalizeJobs :
                    /\ final_files[f].exists
                    /\ f \notin Counted
                    /\ pc[f] # "commit_save"}) <= crashes

(* The three together: the counters, the finalizations the registry reports  *)
(* as done and the artifacts on disk account for the same reads, whatever    *)
(* was claimed, released, retried or lost to an exit in between.             *)
ReadsAccounted == CounterIsExact /\ DoneMeansCounted /\ UncountedOnlyByExit

(* A published read used the plan it was reserved with, that plan is on      *)
(* disk, belongs to the same round and holdout, and a plan that names a      *)
(* comparison names one that finished with an eligible strategy: the read    *)
(* back of the reservation in the handler never makes a job run under        *)
(* another request's plan (sessions.py 790-864, 1894-1901; app.py 5784-5795).*)
PlanBehindArtifact ==
    \A f \in FinalizeJobs :
        final_files[f].exists =>
            LET plan == plan_files[final_files[f].plan]
            IN  /\ final_files[f].plan = request[f].plan
                /\ plan.exists
                /\ plan.round = final_files[f].round
                /\ plan.fp = final_files[f].fp
                /\ plan.comparison # None =>
                      /\ comparison_files[plan.comparison].status = "done"
                      /\ comparison_files[plan.comparison].eligible
                      /\ comparison_files[plan.comparison].round = plan.round

(* Evidence that was published is never rewritten, whoever retries, stops or *)
(* restarts: finalizations and plans from their first write, comparisons     *)
(* from their end (sessions.py 588-590, 829-831, 2105-2107).                 *)
EvidenceImmutable ==
    [][/\ \A f \in FinalizeJobs :
             final_files[f].exists => final_files'[f] = final_files[f]
       /\ \A p \in PlanIds :
             plan_files[p].exists => plan_files'[p] = plan_files[p]
       /\ \A c \in ComparisonJobs :
             comparison_files[c].status \in {"done", "stopped", "failed"}
                => comparison_files'[c] = comparison_files[c]]_evidenceVars

(* A finalization never keeps the session to itself for ever: it commits,    *)
(* unwinds, or is released by a client's poll after an exit or a refused     *)
(* thread (app.py 4805-4846, 5797-5855).  A comparison gives its reservation *)
(* back in a process that keeps running (app.py 5342-5369; sessions.py       *)
(* 637-666, 748-749).                                                        *)
ReservationsReleased ==
    /\ \A f \in FinalizeJobs :
          session.active_final = f ~> session.active_final # f
    /\ \A c \in ComparisonJobs :
          session.active_comparison = c
              ~> session.active_comparison # c \/ crashes > 0
=============================================================================
