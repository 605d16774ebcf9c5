------------------------------ MODULE JobStore ------------------------------
(***************************************************************************)
(* The registry of background jobs (api/jobs.py) with the progress object  *)
(* it shares with the work (api/progress.py).  A submission spawns one     *)
(* worker thread; any number of request threads may cancel the job, and    *)
(* one may forget it.  The store's lock is held through a whole cancel(),  *)
(* but the worker writes its progress without that lock, so the phase a    *)
(* canceller has read can be stale when it acts on it.                     *)
(***************************************************************************)
EXTENDS Naturals, FiniteSets

CONSTANTS
    Jobs,           \* the jobs that are submitted
    Kind,           \* per job: what its work function does with the holdout
    Cancellers,     \* requests that call cancel(), once each
    None,
    SpawnFailures   \* bound: submissions whose thread cannot be started

ASSUME JobStoreAssumption ==
    /\ Kind \in [Jobs -> {"segment", "run", "finalization"}]
    /\ None \notin Jobs \cup Cancellers
    /\ SpawnFailures \in Nat

VARIABLES
    status,     \* Job.status, or "absent" / "deleted" when it is not in _jobs
    worker,     \* where the job's thread stands
    cancel,     \* the jobs whose cancel event is set
    phase,      \* RunProgress._phase
    lock,       \* the canceller inside JobStore._lock, or None
    target,     \* per canceller: the job its call was admitted for, or None
    early,      \* jobs whose search ended because it was told to stop
    told        \* jobs for which some cancel() returned True

vars == <<status, worker, cancel, phase, lock, target, early, told>>

Lifecycle == INSTANCE JobLifecycle

Live == {"queued", "running"}
Over == {"done", "stopped", "failed"}

(* "segment" (sessions.run_segment) never opens the locked test, "run"        *)
(* (service.run_search) opens it after its own search, "finalization"         *)
(* (sessions.finalize_round) does nothing else.                               *)
Holdout(j) == Kind[j] # "segment"

WorkerStates ==
    {"none", "unstarted", "starting", "body", "crossing", "locked",
     "cancelled", "raised", "returned", "settled", "exited"}

(* "working" stands for every phase a body publishes while it may be         *)
(* cancelled: initializing, preparing_references, training, validating,      *)
(* reporting.                                                                *)
Phases == {"queued", "working", "finalizing", "stopping", "stopped", "done"}

Init ==
    /\ status = [j \in Jobs |-> "absent"]
    /\ worker = [j \in Jobs |-> "none"]
    /\ cancel = {}
    /\ phase = [j \in Jobs |-> "queued"]
    /\ lock = None
    /\ target = [c \in Cancellers |-> None]
    /\ early = {}
    /\ told = {}

-----------------------------------------------------------------------------
(* submit(): the job is registered before its thread is started, so a        *)
(* refused thread leaves a queued job behind and raises to the caller.       *)
Submit(j) ==
    /\ status[j] = "absent"
    /\ lock = None
    /\ status' = [status EXCEPT ![j] = "queued"]
    /\ \/ worker' = [worker EXCEPT ![j] = "starting"]
       \/ /\ Cardinality({k \in Jobs : worker[k] = "unstarted"}) < SpawnFailures
          /\ worker' = [worker EXCEPT ![j] = "unstarted"]
    /\ UNCHANGED <<cancel, phase, lock, target, early, told>>

Start(j) ==
    /\ worker[j] = "starting"
    /\ lock = None
    /\ status' = [status EXCEPT ![j] = "running"]
    /\ worker' = [worker EXCEPT ![j] = "body"]
    /\ UNCHANGED <<cancel, phase, lock, target, early, told>>

(* The body publishes progress; this overwrites a canceller's "stopping". *)
Publish(j) ==
    /\ worker[j] = "body"
    /\ phase' = [phase EXCEPT ![j] = "working"]
    /\ UNCHANGED <<status, worker, cancel, lock, target, early, told>>

(* The body polls stop() and finds it set.  Scoring and reporting raise; a    *)
(* search stopped between two generations keeps what it has: a segment        *)
(* returns it, a run goes on to report it with polling switched off.          *)
SeeCancel(j) ==
    /\ worker[j] = "body"
    /\ j \in cancel
    /\ \/ /\ worker' = [worker EXCEPT ![j] = "cancelled"]
          /\ UNCHANGED <<phase, early>>
       \/ /\ Kind[j] = "segment"
          /\ worker' = [worker EXCEPT ![j] = "returned"]
          /\ phase' = [phase EXCEPT ![j] = "done"]
          /\ early' = early \cup {j}
       \/ /\ Kind[j] = "run"
          /\ worker' = [worker EXCEPT ![j] = "crossing"]
          /\ early' = early \cup {j}
          /\ UNCHANGED phase
    /\ UNCHANGED <<status, cancel, lock, target, told>>

Raise(j) ==
    /\ worker[j] \in {"body", "locked"}
    /\ worker' = [worker EXCEPT ![j] = "raised"]
    /\ UNCHANGED <<status, cancel, phase, lock, target, early, told>>

(* The last poll before the locked test finds no cancel ... *)
PassLastPoll(j) ==
    /\ Holdout(j)
    /\ worker[j] = "body"
    /\ j \notin cancel
    /\ worker' = [worker EXCEPT ![j] = "crossing"]
    /\ UNCHANGED <<status, cancel, phase, lock, target, early, told>>

(* ... and on_finalizing publishes the boundary, in a step of its own. *)
CrossBoundary(j) ==
    /\ worker[j] = "crossing"
    /\ worker' = [worker EXCEPT ![j] = "locked"]
    /\ phase' = [phase EXCEPT ![j] = "finalizing"]
    /\ UNCHANGED <<status, cancel, lock, target, early, told>>

Return(j) ==
    /\ worker[j] = IF Holdout(j) THEN "locked" ELSE "body"
    /\ worker' = [worker EXCEPT ![j] = "returned"]
    /\ phase' = [phase EXCEPT ![j] = "done"]
    /\ UNCHANGED <<status, cancel, lock, target, early, told>>

(* A faulty variant: the outcome is named after the exception. *)
Outcome_Cancelled(j) ==
    IF worker[j] = "raised" THEN "failed"
    ELSE IF worker[j] = "cancelled" \/ j \in early THEN "cancelled"
    ELSE "done"

(* TrainingCancelled ends a job as stopped, and so does a result whose        *)
(* termination_reason is "user_stopped".                                      *)
Outcome(j) ==
    IF worker[j] = "raised" THEN "failed"
    ELSE IF worker[j] = "cancelled" \/ j \in early THEN "stopped"
    ELSE "done"

(* A faulty variant: the outcome is recorded without the lock. *)
Settle_Unlocked(j) ==
    /\ worker[j] \in {"cancelled", "raised", "returned"}
    /\ status' = [status EXCEPT ![j] = Outcome(j)]
    /\ worker' = [worker EXCEPT ![j] =
                    IF worker[j] = "raised" THEN "exited" ELSE "settled"]
    /\ early' = IF worker[j] = "cancelled" THEN early \cup {j} ELSE early
    /\ UNCHANGED <<cancel, phase, lock, target, told>>

(* _run records the outcome under the lock; a failed job's thread ends here   *)
(* and its progress keeps the phase it had.                                   *)
Settle(j) ==
    /\ worker[j] \in {"cancelled", "raised", "returned"}
    /\ lock = None
    /\ status' = [status EXCEPT ![j] = Outcome(j)]
    /\ worker' = [worker EXCEPT ![j] =
                    IF worker[j] = "raised" THEN "exited" ELSE "settled"]
    /\ early' = IF worker[j] = "cancelled" THEN early \cup {j} ELSE early
    /\ UNCHANGED <<cancel, phase, lock, target, told>>

(* progress.finish(termination_reason), after the lock was released. *)
FinishProgress(j) ==
    /\ worker[j] = "settled"
    /\ worker' = [worker EXCEPT ![j] = "exited"]
    /\ phase' = [phase EXCEPT ![j] = IF j \in early THEN "stopped" ELSE "done"]
    /\ UNCHANGED <<status, cancel, lock, target, early, told>>

(* A faulty variant: a live job can be forgotten. *)
Delete_Live(j) ==
    /\ status[j] \in Live \cup Over
    /\ lock = None
    /\ status' = [status EXCEPT ![j] = "deleted"]
    /\ UNCHANGED <<worker, cancel, phase, lock, target, early, told>>

Delete(j) ==
    /\ status[j] \in Over
    /\ lock = None
    /\ status' = [status EXCEPT ![j] = "deleted"]
    /\ UNCHANGED <<worker, cancel, phase, lock, target, early, told>>

-----------------------------------------------------------------------------
(* cancel(), first part: refuse unless the job is live and the phase read    *)
(* here is one that may be interrupted.  The lock stays held.                *)
CancelLook(c, j) ==
    /\ lock = None
    /\ target[c] = None
    /\ status[j] \in Live
    /\ phase[j] \notin {"finalizing", "done", "stopped"}
    /\ lock' = c
    /\ target' = [target EXCEPT ![c] = j]
    /\ UNCHANGED <<status, worker, cancel, phase, early, told>>

CancelSignal(c) ==
    /\ lock = c
    /\ target[c] \notin cancel
    /\ cancel' = cancel \cup {target[c]}
    /\ UNCHANGED <<status, worker, phase, lock, target, early, told>>

(* A faulty variant: the job is marked without the event being set. *)
CancelMark_Unset(c) ==
    /\ lock = c
    /\ phase' = [phase EXCEPT ![target[c]] = "stopping"]
    /\ lock' = None
    /\ told' = told \cup {target[c]}
    /\ UNCHANGED <<status, worker, cancel, target, early>>

CancelMark(c) ==
    /\ lock = c
    /\ target[c] \in cancel
    /\ phase' = [phase EXCEPT ![target[c]] = "stopping"]
    /\ lock' = None
    /\ told' = told \cup {target[c]}
    /\ UNCHANGED <<status, worker, cancel, target, early>>

Work(j) ==
    \/ Submit(j) \/ Start(j) \/ Publish(j) \/ SeeCancel(j) \/ Raise(j)
    \/ PassLastPoll(j) \/ CrossBoundary(j) \/ Return(j) \/ Settle(j)
    \/ FinishProgress(j) \/ Delete(j)

Next ==
    \/ \E j \in Jobs : Work(j)
    \/ \E c \in Cancellers :
          \/ \E j \in Jobs : CancelLook(c, j)
          \/ CancelSignal(c)
          \/ CancelMark(c)

(* Threads run: a body that was told to stop reaches a poll, work past the    *)
(* boundary returns, and a canceller inside the lock leaves it.  Nobody has   *)
(* to submit, cancel or delete, and a body nobody stops may work for ever.    *)
Advance(j) ==
    \/ Start(j) \/ SeeCancel(j) \/ CrossBoundary(j) \/ Settle(j)
    \/ FinishProgress(j)
    \/ worker[j] = "locked" /\ Return(j)

Fairness ==
    /\ \A j \in Jobs : WF_vars(Advance(j))
    /\ \A c \in Cancellers : WF_vars(CancelSignal(c) \/ CancelMark(c))

Spec == Init /\ [][Next]_vars /\ Fairness
-----------------------------------------------------------------------------
TypeOK ==
    /\ status \in [Jobs -> Lifecycle!Statuses]
    /\ worker \in [Jobs -> WorkerStates]
    /\ cancel \subseteq Jobs
    /\ phase \in [Jobs -> Phases]
    /\ lock \in Cancellers \cup {None}
    /\ target \in [Cancellers -> Jobs \cup {None}]
    /\ early \subseteq Jobs
    /\ told \subseteq Jobs

(* The phase a client polls agrees with the outcome once the job's thread is  *)
(* gone: a cancel() that raced the end of the work never leaves "stopping"    *)
(* behind, although the work and the canceller write the phase under          *)
(* different locks (jobs.py 65-98, 121-135; progress.py 55-58, 117-120).      *)
PhaseAgreesWithOutcome ==
    \A j \in Jobs :
        worker[j] = "exited" /\ status[j] \in {"done", "stopped"}
            => phase[j] = status[j]

(* A job is reported as stopped only when some request was told that it is    *)
(* stopping: no outcome is attributed to the user that the user did not ask   *)
(* for, and none before the cancelling request has its answer                 *)
(* (jobs.py 70-75, 89-96, 121-135).                                           *)
StoppedWasTold == \A j \in Jobs : status[j] = "stopped" => j \in told

(* Whatever order requests, the lock and the thread's own writes come in, a   *)
(* client that polls and one that cancelled hear the same: the final phase is *)
(* the outcome, and no job ends stopped that nobody stopped.                  *)
ClientsHearTheOutcome == PhaseAgreesWithOutcome /\ StoppedWasTold

(* The registry implements the lifecycle: whatever submissions, cancels and   *)
(* deletes interleave, no job starts twice, ends twice, changes its outcome   *)
(* or is forgotten while its thread may still write it (jobs.py 45-135).      *)
ImplementsLifecycle == Lifecycle!Spec

(* A cancel() that was accepted ends the job, even one that would have worked *)
(* for ever, unless its thread never started (jobs.py 59-65, 121-135).        *)
AcceptedCancelEnds ==
    \A j \in Jobs :
        (j \in told /\ worker[j] # "unstarted")
            ~> status[j] \in Over \cup {"deleted"}
=============================================================================
