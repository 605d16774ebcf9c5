--------------------------- MODULE SessionDocument ---------------------------
(***************************************************************************)
(* One research session as the server keeps it: the document session.json, *)
(* the immutable artifact files beside it, the lock that serialises        *)
(* load-modify-save sections (_SESSION_IO_LOCK), and the registry of        *)
(* background jobs that work on it.  The modules SessionEvidence and        *)
(* SessionSegments extend this one with the request handlers and jobs.      *)
(*                                                                          *)
(* These files are written by an atomic rename, so one write is one step.   *)
(* What is in memory is lost when the process exits, which /shutdown does   *)
(* with os._exit at any moment; what is on disk stays.                      *)
(***************************************************************************)
EXTENDS Naturals, Sequences, FiniteSets

CONSTANTS
    FinalizeJobs,   \* POST .../finalize requests, each with its job id
    ComparisonJobs, \* POST .../strategy-comparisons requests
    PlanRequests,   \* POST .../finalization-plans requests
    SegmentJobs,    \* POST .../continue requests
    Watchers,       \* threads that answer GET requests about the session
    Fingerprints,   \* holdout fingerprints the data and configs give rise to
    None,
    InitialRounds,  \* rounds committed before the behaviour starts
    RoundFingerprint, \* the holdout each of them was trained against
    MaxRounds,      \* bound: round indices are below it
    LegacyReads,    \* holdout reads recorded before fingerprints were
    MaxCrashes,     \* bound: process exits
    SpawnFailures   \* bound: submissions whose thread cannot be started

Jobs == FinalizeJobs \cup ComparisonJobs \cup SegmentJobs
Threads == Jobs \cup PlanRequests \cup Watchers
Rounds == 0 .. MaxRounds - 1

(* A plan is named by the request that pinned it, or, for a finalize request *)
(* that names none, by its round and fingerprint: compat-q20-r<i>-<fp>.      *)
PlanIds == PlanRequests \cup (Rounds \X Fingerprints)

ASSUME SessionAssumption ==
    /\ InitialRounds \in Nat /\ MaxRounds \in Nat \ {0} /\ InitialRounds <= MaxRounds
    /\ RoundFingerprint \in [0 .. InitialRounds - 1 -> Fingerprints]
    /\ LegacyReads \in Nat /\ MaxCrashes \in Nat /\ SpawnFailures \in Nat
    /\ Fingerprints # {}
    /\ FinalizeJobs \cap ComparisonJobs = {}
    /\ FinalizeJobs \cap SegmentJobs = {}
    /\ ComparisonJobs \cap SegmentJobs = {}
    /\ Jobs \cap PlanRequests = {}
    /\ (Jobs \cup PlanRequests) \cap Watchers = {}
    /\ None \notin Threads \cup PlanIds
    /\ PlanRequests \cap (Rounds \X Fingerprints) = {}

VARIABLES
    session,            \* session.json
    round_files,        \* rounds/<index>.json
    final_files,        \* finalizations/<evaluation_id>.json, by job
    comparison_files,   \* strategy comparisons, by job
    plan_files,         \* finalization plans, by id
    io_lock,            \* who holds _SESSION_IO_LOCK across two writes, or None
    jobs,               \* JobStore: the status of each job in this process
    cancelled,          \* jobs whose cancel event is set
    outcome,            \* how each job's work ended, for JobStore to record
    crashes,
    pc                  \* where each thread stands

files == <<round_files, final_files, comparison_files, plan_files>>
docVars == <<session, round_files, final_files, comparison_files, plan_files,
             io_lock, jobs, cancelled, outcome, crashes, pc>>

JobStatuses == {"absent", "queued", "running", "done", "stopped", "failed"}
Live == {"queued", "running"}

-----------------------------------------------------------------------------
(* The shape of the document and of its artifacts.  Only what a handler      *)
(* branches on, or what a later reader is told, is kept.                     *)
SessionType ==
    [active_job        : SegmentJobs \cup {None},
     last_job          : SegmentJobs \cup {None},
     settings          : SegmentJobs \cup {None},   \* whose request set config and universe
     segments          : Seq([job : SegmentJobs \cup {None},
                              status : {"done", "stopped", "failed", "interrupted"}]),
     rounds            : Seq(Rounds),
     trials            : Nat,                       \* cumulative_trials
     reads             : Nat,                       \* session_holdout_reads
     counts            : [Fingerprints -> Nat],     \* holdout_read_counts
     finalizations     : Seq(FinalizeJobs),
     active_final      : FinalizeJobs \cup {None},
     comparisons       : SUBSET ComparisonJobs,
     active_comparison : ComparisonJobs \cup {None},
     plans             : SUBSET PlanIds]

RoundType ==
    [exists : BOOLEAN,
     fp : Fingerprints,
     adaptive : BOOLEAN,                    \* evidence_status = post_holdout_adaptive
     job : SegmentJobs \cup {None}]

FinalType ==
    [exists : BOOLEAN,
     round : Rounds,
     plan : PlanIds \cup {None},
     fp : Fingerprints,
     index : Nat,                           \* session_holdout_reads
     same : Nat,                            \* same_holdout_read_index
     first : BOOLEAN,                       \* evidence_status = locked_first_read
     consent : BOOLEAN,                     \* the request's confirm_repeat
     significant : BOOLEAN]

ComparisonType ==
    [status : {"absent", "queued", "running", "done", "stopped", "failed"},
     round : Rounds,
     fp : Fingerprints,
     adaptive : BOOLEAN,
     eligible : BOOLEAN]                    \* of the strategy a plan may name

PlanType ==
    [exists : BOOLEAN,
     round : Rounds,
     fp : Fingerprints,
     adaptive : BOOLEAN,
     comparison : ComparisonJobs \cup {None}]

AnyFingerprint == CHOOSE fp \in Fingerprints : TRUE
NoRound == [exists |-> FALSE, fp |-> AnyFingerprint, adaptive |-> FALSE, job |-> None]
NoFinal == [exists |-> FALSE, round |-> 0, plan |-> None, fp |-> AnyFingerprint,
            index |-> 0, same |-> 0, first |-> FALSE, consent |-> FALSE,
            significant |-> FALSE]
NoComparison == [status |-> "absent", round |-> 0, fp |-> AnyFingerprint,
                 adaptive |-> FALSE, eligible |-> FALSE]
NoPlan == [exists |-> FALSE, round |-> 0, fp |-> AnyFingerprint, adaptive |-> FALSE,
           comparison |-> None]

(* A session in which the first InitialRounds segments were committed, or,   *)
(* with none, the session new_session has just written.                      *)
DocInit ==
    /\ session = [active_job |-> None, last_job |-> None, settings |-> None,
                  segments |-> [i \in 1..InitialRounds |->
                                    [job |-> None, status |-> "done"]],
                  rounds |-> [i \in 1..InitialRounds |-> i - 1],
                  trials |-> InitialRounds,
                  reads |-> LegacyReads,
                  counts |-> [fp \in Fingerprints |-> 0],
                  finalizations |-> <<>>,
                  active_final |-> None,
                  comparisons |-> {}, active_comparison |-> None,
                  plans |-> {}]
    /\ round_files = [r \in Rounds |->
                         IF r < InitialRounds
                         THEN [exists |-> TRUE, fp |-> RoundFingerprint[r],
                               adaptive |-> LegacyReads > 0, job |-> None]
                         ELSE NoRound]
    /\ final_files = [f \in FinalizeJobs |-> NoFinal]
    /\ comparison_files = [c \in ComparisonJobs |-> NoComparison]
    /\ plan_files = [p \in PlanIds |-> NoPlan]
    /\ io_lock = None
    /\ jobs = [j \in Jobs |-> "absent"]
    /\ cancelled = {}
    /\ outcome = [j \in Jobs |-> "done"]
    /\ crashes = 0
    /\ pc = [t \in Threads |-> "idle"]

-----------------------------------------------------------------------------
(* Steps every kind of job shares.                                           *)

Goto(t, label) == pc' = [pc EXCEPT ![t] = label]

Unwinding(j, how) ==
    /\ Goto(j, "unwinding")
    /\ outcome' = [outcome EXCEPT ![j] = how]

(* _jobs.submit(): the job is registered as queued, then its thread starts.  *)
(* When the thread cannot start, the job stays registered and the handler    *)
(* unwinds its reservation.                                                  *)
Submitted(j) ==
    /\ jobs' = [jobs EXCEPT ![j] = "queued"]
    /\ \/ Goto(j, "queued") /\ UNCHANGED outcome
       \/ /\ Cardinality({k \in Jobs : outcome[k] = "unstarted"}) < SpawnFailures
          /\ Goto(j, "unwinding")
          /\ outcome' = [outcome EXCEPT ![j] = "unstarted"]

(* A faulty variant: the outcome is recorded though no thread ran. *)
Settle_Unstarted(j) ==
    /\ pc[j] = "settling"
    /\ Goto(j, "finished")
    /\ jobs' = [jobs EXCEPT ![j] = outcome[j]]
    /\ UNCHANGED <<session, files, io_lock, cancelled, outcome, crashes>>

(* JobStore._run records the outcome once the work function has returned or  *)
(* raised.  A job whose thread never started has nobody to do so.            *)
Settle(j) ==
    /\ pc[j] = "settling"
    /\ Goto(j, "finished")
    /\ jobs' = IF outcome[j] = "unstarted" THEN jobs
               ELSE [jobs EXCEPT ![j] = outcome[j]]
    /\ UNCHANGED <<session, files, io_lock, cancelled, outcome, crashes>>

(* POST .../stop.  JobStore.cancel refuses a job that is not live.  It also  *)
(* refuses when the phase it reads is past the locked-test boundary, but     *)
(* that phase may be stale by the time the event is set (module JobStore),   *)
(* so the event can be set at any moment of the job's life.  Set after the   *)
(* last poll it changes nothing, and those moments are left out.             *)
BeforeLastPoll == {"queued", "started", "loaded", "waiting", "training", "reporting"}

Stop(j) ==
    /\ jobs[j] \in Live
    /\ pc[j] \in BeforeLastPoll
    /\ j \notin cancelled
    /\ cancelled' = cancelled \cup {j}
    /\ UNCHANGED <<session, files, io_lock, jobs, outcome, crashes, pc>>

(* The process exits and is started again: threads, job registry and lock    *)
(* are gone, the files are as they were.                                     *)
Resting == {"idle", "finished", "dead"}

Crash ==
    /\ crashes < MaxCrashes
    /\ crashes' = crashes + 1
    /\ pc' = [t \in Threads |->
                IF t \in Watchers THEN "idle"
                ELSE IF pc[t] \in Resting THEN pc[t] ELSE "dead"]
    /\ jobs' = [j \in Jobs |-> "absent"]
    /\ cancelled' = {}
    /\ io_lock' = None
    /\ UNCHANGED <<session, files, outcome>>
=============================================================================
