--------------------------- MODULE SessionSegments ---------------------------
(***************************************************************************)
(* The search side of a session: POST .../continue reserves the session,   *)
(* saves the request's settings and submits a job; the job loads the       *)
(* session, evolves the checkpointed population under a training lease,    *)
(* saves checkpoint and lineage, writes one immutable round and saves the  *)
(* session it loaded.  Between loading and saving it holds no lock.        *)
(*                                                                          *)
(* checkpoint.json and lineage.json are written in place, not by rename:    *)
(* a write truncates the file first, so it takes two steps.  A continue is  *)
(* for one more generation; how many is data.                               *)
(***************************************************************************)
EXTENDS SessionDocument

CONSTANT
    RequestsOverlap \* may a request look at the job registry while another
                    \* has reserved the session and not submitted its job yet?

ASSUME OverlapAssumption == RequestsOverlap \in BOOLEAN

VARIABLES
    checkpoint, \* checkpoint.json
    lineage,    \* lineage.json
    copy,       \* per segment: the session its thread has in memory
    gp,         \* per segment: the population being evolved
    store,      \* per segment: the lineage being recorded
    index,      \* per segment: the round it is about to write
    noticed     \* per thread: the dead reservation it found, and its status

disk == <<checkpoint, lineage>>
memory == <<copy, gp, store, index>>
segmentLocals == <<disk, memory, noticed>>
segmentVars == <<docVars, segmentLocals>>

(* gens counts generations, the initial population included; 0: no file. *)
CheckpointType == [gens : Nat, trials : Nat, torn : BOOLEAN]
LineageType == [gens : Nat, sound : BOOLEAN, torn : BOOLEAN]

NoCheckpoint == [gens |-> 0, trials |-> 0, torn |-> FALSE]
NoLineage == [gens |-> 0, sound |-> TRUE, torn |-> FALSE]
Unnoticed == [job |-> None, status |-> "interrupted"]

(* What the first InitialRounds segments left behind. *)
SegmentsInit ==
    /\ DocInit
    /\ checkpoint = [gens |-> InitialRounds, trials |-> InitialRounds, torn |-> FALSE]
    /\ lineage = [gens |-> InitialRounds, sound |-> TRUE, torn |-> FALSE]
    /\ copy = [s \in SegmentJobs |-> session]
    /\ gp = [s \in SegmentJobs |-> NoCheckpoint]
    /\ store = [s \in SegmentJobs |-> NoLineage]
    /\ index = [s \in SegmentJobs |-> 0]
    /\ noticed = [t \in SegmentJobs \cup Watchers |-> Unnoticed]

-----------------------------------------------------------------------------
(* finish_job on a session document. *)
FinishJob(doc, j, how) ==
    LET recorded == \E i \in 1..Len(doc.segments) : doc.segments[i].job = j
        released == [doc EXCEPT !.active_job = IF @ = j THEN None ELSE @]
    IN  IF doc.last_job = j /\ ~recorded /\ how \in {"stopped", "failed", "interrupted"}
        THEN [released EXCEPT !.segments = Append(@, [job |-> j, status |-> how])]
        ELSE released

(* _live_session_job looks the active, or else the last, job up. *)
SubjectJob == IF session.active_job # None THEN session.active_job
              ELSE session.last_job

(* A faulty variant: a job the registry does not know is taken for live. *)
IsLive_OrUnknown(j) == j # None /\ jobs[j] \in Live \cup {"absent"}

IsLive(j) == j # None /\ jobs[j] \in Live

LookupStatus(j) == IF jobs[j] = "absent" THEN "interrupted" ELSE jobs[j]

(* A segment handler that has reserved the session and not submitted yet. *)
MidRequest == {"claimed", "reloaded", "configured"}
MayLook == RequestsOverlap \/ \A s \in SegmentJobs : pc[s] \notin MidRequest

-----------------------------------------------------------------------------
(* continue_session.                                                        *)

(* The session is refused while a segment or a finalization is live on it. *)
CheckIdle(s) ==
    /\ pc[s] = "idle"
    /\ io_lock = None
    /\ MayLook
    /\ ~IsLive(SubjectJob)
    /\ ~IsLive(session.active_final)
    /\ IF session.active_job = None
       THEN Goto(s, "checked") /\ UNCHANGED noticed
       ELSE /\ noticed' = [noticed EXCEPT ![s] =
                  [job |-> session.active_job,
                   status |-> LookupStatus(session.active_job)]]
            /\ Goto(s, "clearing")
    /\ UNCHANGED <<session, files, io_lock, jobs, cancelled, outcome, crashes,
                   disk, memory>>

(* ... and a reservation whose job is not live is finished in its name. *)
ClearReservation(t) ==
    /\ pc[t] = "clearing"
    /\ io_lock = None
    /\ session' = FinishJob(session, noticed[t].job, noticed[t].status)
    /\ noticed' = [noticed EXCEPT ![t] = Unnoticed]
    /\ Goto(t, IF t \in Watchers THEN "idle" ELSE "checked")
    /\ UNCHANGED <<files, io_lock, jobs, cancelled, outcome, crashes, disk, memory>>

(* A faulty variant: the look at the registry is trusted. *)
ClaimSegment_Unchecked(s) ==
    /\ pc[s] = "checked"
    /\ io_lock = None
    /\ session' = [session EXCEPT !.active_job = s, !.last_job = s]
    /\ Goto(s, "claimed")
    /\ UNCHANGED <<files, io_lock, jobs, cancelled, outcome, crashes, segmentLocals>>

(* claim_job: one load-modify-save under the lock. *)
ClaimSegment(s) ==
    /\ pc[s] = "checked"
    /\ io_lock = None
    /\ IF session.active_job = None
       THEN /\ session' = [session EXCEPT !.active_job = s, !.last_job = s]
            /\ Goto(s, "claimed")
       ELSE Goto(s, "finished") /\ UNCHANGED session
    /\ UNCHANGED <<files, io_lock, jobs, cancelled, outcome, crashes, segmentLocals>>

LoadSession(s, from, to) ==
    /\ pc[s] = from
    /\ io_lock = None
    /\ copy' = [copy EXCEPT ![s] = session]
    /\ Goto(s, to)
    /\ UNCHANGED <<session, files, io_lock, jobs, cancelled, outcome, crashes,
                   disk, gp, store, index, noticed>>

(* The reservation is read back, and saved with the request's settings. *)
ReloadReservation(s) == LoadSession(s, "claimed", "reloaded")

SaveSettings(s) ==
    /\ pc[s] = "reloaded"
    /\ io_lock = None
    /\ session' = [copy[s] EXCEPT !.settings = s]
    /\ Goto(s, "configured")
    /\ UNCHANGED <<files, io_lock, jobs, cancelled, outcome, crashes, segmentLocals>>

SubmitSegment(s) ==
    /\ pc[s] = "configured"
    /\ Submitted(s)
    /\ UNCHANGED <<session, files, io_lock, cancelled, crashes, segmentLocals>>

-----------------------------------------------------------------------------
(* The job: run_segment between update_job_status and finish_job.           *)

BeginSegment(s) ==
    /\ pc[s] = "queued"
    /\ io_lock = None
    /\ jobs' = [jobs EXCEPT ![s] = "running"]
    /\ Goto(s, "started")
    /\ UNCHANGED <<session, files, io_lock, cancelled, outcome, crashes, segmentLocals>>

(* The copy every later save of this job writes back. *)
LoadForSegment(s) == LoadSession(s, "started", "loaded")

(* It is saved at once, and the lineage is read. *)
SaveMigrated(s) ==
    /\ pc[s] = "loaded"
    /\ io_lock = None
    /\ session' = copy[s]
    /\ store' = [store EXCEPT ![s] = lineage]
    /\ IF lineage.torn THEN Unwinding(s, "failed")
       ELSE Goto(s, "waiting") /\ UNCHANGED outcome
    /\ UNCHANGED <<files, io_lock, jobs, cancelled, crashes, disk, copy, gp, index,
                   noticed>>

(* The training lease is granted (module TrainingScheduler), or cancelled    *)
(* while waiting; then the population is restored, or made by the search.    *)
EnterLease(s) ==
    /\ pc[s] = "waiting"
    /\ gp' = [gp EXCEPT ![s] = checkpoint]
    /\ \/ s \in cancelled /\ Unwinding(s, "stopped")
       \/ s \notin cancelled /\ checkpoint.torn /\ Unwinding(s, "failed")
       \/ /\ s \notin cancelled
          /\ ~checkpoint.torn
          /\ Goto(s, "training")
          /\ UNCHANGED outcome
    /\ UNCHANGED <<session, files, io_lock, jobs, cancelled, crashes, disk, copy,
                   store, index, noticed>>

(* gp.run: an initial population where there is none, then a generation,     *)
(* unless a stop or the time budget comes first.  Parents are looked up in   *)
(* the last generation the lineage has recorded.                             *)
Evolve(s) ==
    /\ pc[s] = "training"
    /\ \E born \in {0, 1} :
          LET cold == IF gp[s].gens = 0 THEN 1 ELSE 0
              before == gp[s].gens + cold
              traced == store[s].gens + cold
          IN  /\ born = 1 => traced > 0
              /\ gp' = [gp EXCEPT ![s].gens = before + born,
                                  ![s].trials = @ + cold + born]
              /\ store' = [store EXCEPT
                    ![s].gens = IF born = 1 THEN before + 1 ELSE traced,
                    ![s].sound = @ /\ (born = 1 => traced = before)]
    /\ outcome' = [outcome EXCEPT ![s] = IF s \in cancelled THEN "stopped" ELSE "done"]
    /\ Goto(s, "trained")
    /\ UNCHANGED <<session, files, io_lock, jobs, cancelled, crashes, disk, copy,
                   index, noticed>>

(* A faulty variant: an error between the two saves. *)
AbandonSegment_BetweenSaves(s) ==
    /\ \/ pc[s] \in {"training", "checkpointed", "traced"} /\ Unwinding(s, "failed")
       \/ /\ pc[s] = "training" /\ gp[s].gens = 0 /\ s \in cancelled
          /\ Unwinding(s, "stopped")
    /\ UNCHANGED <<session, files, io_lock, jobs, cancelled, crashes, segmentLocals>>

(* A search that raises: stopped before it had a population, or an error     *)
(* there or in the validation that follows.                                  *)
AbandonSegment(s) ==
    /\ \/ pc[s] \in {"training", "traced"} /\ Unwinding(s, "failed")
       \/ /\ pc[s] = "training" /\ gp[s].gens = 0 /\ s \in cancelled
          /\ Unwinding(s, "stopped")
    /\ UNCHANGED <<session, files, io_lock, jobs, cancelled, crashes, segmentLocals>>

(* save_checkpoint, after the search and again after the validation. *)
TruncateCheckpoint(s) ==
    /\ pc[s] \in {"trained", "validated"}
    /\ checkpoint' = [checkpoint EXCEPT !.torn = TRUE]
    /\ Goto(s, IF pc[s] = "trained" THEN "checkpointing" ELSE "rescoring")
    /\ UNCHANGED <<session, files, io_lock, jobs, cancelled, outcome, crashes,
                   lineage, memory, noticed>>

WriteCheckpoint(s) ==
    /\ pc[s] \in {"checkpointing", "rescoring"}
    /\ checkpoint' = gp[s]
    /\ Goto(s, IF pc[s] = "checkpointing" THEN "checkpointed" ELSE "scored")
    /\ UNCHANGED <<session, files, io_lock, jobs, cancelled, outcome, crashes,
                   lineage, memory, noticed>>

TruncateLineage(s) ==
    /\ pc[s] = "checkpointed"
    /\ lineage' = [lineage EXCEPT !.torn = TRUE]
    /\ Goto(s, "tracing")
    /\ UNCHANGED <<session, files, io_lock, jobs, cancelled, outcome, crashes,
                   checkpoint, memory, noticed>>

WriteLineage(s) ==
    /\ pc[s] = "tracing"
    /\ lineage' = store[s]
    /\ Goto(s, "traced")
    /\ UNCHANGED <<session, files, io_lock, jobs, cancelled, outcome, crashes,
                   checkpoint, memory, noticed>>

(* A candidate is selected on the validation data. *)
SelectCandidate(s) ==
    /\ pc[s] = "traced"
    /\ Goto(s, "validated")
    /\ UNCHANGED <<session, files, io_lock, jobs, cancelled, outcome, crashes,
                   segmentLocals>>

(* A faulty variant: files are not looked for. *)
FreeRounds_Unlisted(s) == {i \in Rounds : i >= Len(copy[s].rounds)}

(* The first free index from the number of rounds the copy lists. *)
FreeRounds(s) == {i \in Rounds : i >= Len(copy[s].rounds) /\ ~round_files[i].exists}

PickRound(s) ==
    /\ pc[s] = "scored"
    /\ \E i \in FreeRounds(s) :
          /\ \A k \in FreeRounds(s) : i <= k
          /\ index' = [index EXCEPT ![s] = i]
    /\ Goto(s, "picked")
    /\ UNCHANGED <<session, files, io_lock, jobs, cancelled, outcome, crashes,
                   disk, copy, gp, store, noticed>>

WriteRound(s) ==
    /\ pc[s] = "picked"
    /\ \E fp \in Fingerprints :
          round_files' = [round_files EXCEPT ![index[s]] =
              [exists |-> TRUE, fp |-> fp, adaptive |-> copy[s].reads > 0, job |-> s]]
    /\ Goto(s, "written")
    /\ UNCHANGED <<session, final_files, comparison_files, plan_files, io_lock, jobs,
                   cancelled, outcome, crashes, segmentLocals>>

(* A faulty variant: the round is listed under its position. *)
SaveSegment_ByPosition(s) ==
    /\ pc[s] = "written"
    /\ io_lock = None
    /\ session' = [copy[s] EXCEPT
                      !.trials = gp[s].trials,
                      !.last_job = s,
                      !.segments = Append(@, [job |-> s, status |-> outcome[s]]),
                      !.rounds = Append(@, Len(@))]
    /\ Goto(s, "saved")
    /\ UNCHANGED <<files, io_lock, jobs, cancelled, outcome, crashes, segmentLocals>>

(* The loaded copy is saved with this segment's results. *)
SaveSegment(s) ==
    /\ pc[s] = "written"
    /\ io_lock = None
    /\ session' = [copy[s] EXCEPT
                      !.trials = gp[s].trials,
                      !.last_job = s,
                      !.segments = Append(@, [job |-> s, status |-> outcome[s]]),
                      !.rounds = Append(@, index[s])]
    /\ Goto(s, "saved")
    /\ UNCHANGED <<files, io_lock, jobs, cancelled, outcome, crashes, segmentLocals>>

(* finish_job, after run_segment has returned, raised, or never started. *)
FinishSegment(s) ==
    /\ pc[s] \in {"saved", "unwinding"}
    /\ io_lock = None
    /\ session' = FinishJob(session, s, IF outcome[s] = "unstarted" THEN "failed"
                                        ELSE outcome[s])
    /\ Goto(s, "settling")
    /\ UNCHANGED <<files, io_lock, jobs, cancelled, outcome, crashes, segmentLocals>>

-----------------------------------------------------------------------------
(* _session_job_view of a GET: a reservation without a live job. *)
NoticeDead(w) ==
    /\ pc[w] = "idle"
    /\ io_lock = None
    /\ MayLook
    /\ session.active_job # None
    /\ ~IsLive(session.active_job)
    /\ noticed' = [noticed EXCEPT ![w] =
          [job |-> session.active_job, status |-> LookupStatus(session.active_job)]]
    /\ Goto(w, "clearing")
    /\ UNCHANGED <<session, files, io_lock, jobs, cancelled, outcome, crashes,
                   disk, memory>>

SegmentProgress(s) ==
    \/ ClearReservation(s) \/ ClaimSegment(s) \/ ReloadReservation(s)
    \/ SaveSettings(s) \/ SubmitSegment(s) \/ BeginSegment(s) \/ LoadForSegment(s)
    \/ SaveMigrated(s) \/ EnterLease(s) \/ Evolve(s) \/ AbandonSegment(s)
    \/ TruncateCheckpoint(s) \/ WriteCheckpoint(s) \/ TruncateLineage(s)
    \/ WriteLineage(s) \/ SelectCandidate(s) \/ PickRound(s) \/ WriteRound(s)
    \/ SaveSegment(s) \/ FinishSegment(s)
    \/ /\ Settle(s)
       /\ UNCHANGED segmentLocals

SegmentsStep ==
    \/ \E s \in SegmentJobs :
          \/ CheckIdle(s) \/ SegmentProgress(s)
          \/ /\ Stop(s)
             /\ UNCHANGED segmentLocals
    \/ \E w \in Watchers : NoticeDead(w) \/ ClearReservation(w)

SegmentsCrash ==
    /\ Crash
    /\ noticed' = [t \in SegmentJobs \cup Watchers |-> Unnoticed]
    /\ UNCHANGED <<disk, memory>>

SegmentsNext == SegmentsStep \/ SegmentsCrash

(* Threads run, a waiting search gets its lease and ends, and some client    *)
(* keeps asking for the session.                                             *)
SegmentsFairness ==
    /\ \A s \in SegmentJobs : WF_segmentVars(SegmentProgress(s))
    /\ \A w \in Watchers : WF_segmentVars(NoticeDead(w) \/ ClearReservation(w))

SegmentsSpec == SegmentsInit /\ [][SegmentsNext]_segmentVars /\ SegmentsFairness

-----------------------------------------------------------------------------
(* A segment whose job thread is at work on the session. *)
Working ==
    {"started", "loaded", "waiting", "training", "trained", "checkpointing",
     "checkpointed", "tracing", "traced", "validated", "rescoring", "scored",
     "picked", "written", "saved"}

SegmentStages ==
    {"idle", "checked", "clearing", "queued", "unwinding", "settling", "finished",
     "dead"} \cup MidRequest \cup Working

SegmentsTypeOK ==
    /\ session \in SessionType
    /\ round_files \in [Rounds -> RoundType]
    /\ io_lock = None
    /\ jobs \in [Jobs -> JobStatuses]
    /\ cancelled \subseteq Jobs
    /\ outcome \in [Jobs -> {"done", "stopped", "failed", "unstarted"}]
    /\ crashes \in 0..MaxCrashes
    /\ pc \in [Threads -> SegmentStages]
    /\ checkpoint \in CheckpointType
    /\ lineage \in LineageType
    /\ copy \in [SegmentJobs -> SessionType]
    /\ gp \in [SegmentJobs -> CheckpointType]
    /\ store \in [SegmentJobs -> LineageType]
    /\ index \in [SegmentJobs -> Rounds]
    /\ noticed \in [SegmentJobs \cup Watchers ->
                       [job : SegmentJobs \cup {None},
                        status : {"done", "stopped", "failed", "interrupted"}]]

(* "Atomically reserve a session for one queued/running segment"             *)
(* (sessions.py 1371): two segments never work on the session at once, and   *)
(* the one that does holds its reservation.                                  *)
OneSegmentAtATime ==
    \A s, t \in SegmentJobs :
        pc[s] \in Working /\ pc[t] \in Working => s = t

(* The rounds a session lists are distinct files that exist, in the order    *)
(* they were committed, and a job the registry reports as done has committed *)
(* exactly one of them (sessions.py 1811-1861, jobs.py 80-96).  The history  *)
(* has no job twice, whether it commits, is stopped, fails, is interrupted   *)
(* by an exit, or several of these meet (sessions.py 1411-1454).             *)
RoundsAccounted ==
    /\ \A i \in 1..Len(session.rounds) : round_files[session.rounds[i]].exists
    /\ \A i, k \in 1..Len(session.rounds) :
          i < k => session.rounds[i] < session.rounds[k]
    /\ \A s \in SegmentJobs :
          jobs[s] = "done" =>
              Cardinality({i \in 1..Len(session.rounds) :
                              round_files[session.rounds[i]].job = s}) = 1
    /\ \A i, k \in 1..Len(session.segments) :
          i # k /\ session.segments[i].job # None
              => session.segments[i].job # session.segments[k].job

(* Unless the process exited, checkpoint and lineage are whole and describe  *)
(* the same generation whenever no segment is saving them, so the parents    *)
(* recorded by the next segment are the right ones (sessions.py 1672-1673;   *)
(* library/store.py 83-90).                                                  *)
LineageFollowsCheckpoint ==
    crashes = 0 =>
        /\ lineage.sound
        /\ (\A s \in SegmentJobs : pc[s] \notin {"checkpointing", "checkpointed",
                                                 "tracing", "rescoring"})
              => ~checkpoint.torn /\ ~lineage.torn /\ checkpoint.gens = lineage.gens

(* "Session state is already persisted to disk after every segment, so an    *)
(* immediate exit is safe" (app.py 6324): once a segment has committed,      *)
(* there is a checkpoint to continue from, whenever the process exits.       *)
CheckpointSurvivesExit ==
    /\ session.rounds # <<>>
    /\ \A s \in SegmentJobs : pc[s] \notin {"checkpointing", "rescoring"}
    => ~checkpoint.torn

(* "trial count is cumulative and monotone" (sessions.py 20) and a round     *)
(* that was written stays as it is, across failures, stops and exits.        *)
TrialsAndRoundsKept ==
    [][/\ session'.trials >= session.trials
       /\ \A r \in Rounds : round_files[r].exists => round_files'[r] = round_files[r]
      ]_segmentVars

(* A reservation ends: the job finishes, unwinds, or is released by a poll   *)
(* after an exit (app.py 4769-4780, 5139-5183).                              *)
SegmentReleased ==
    \A s \in SegmentJobs : session.active_job = s ~> session.active_job # s
=============================================================================
