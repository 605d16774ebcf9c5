------------------------ MODULE SessionSegments_proofs ------------------------
(***************************************************************************)
(* The safety of a session's segments for any continues, pollers, rounds   *)
(* and number of exits.  Type correctness holds however requests overlap,  *)
(* the rest when no request looks at the registry between another's        *)
(* reservation and its submission (RequestsOverlap = FALSE).               *)
(***************************************************************************)
EXTENDS SessionSegments, FiniteSetTheorems, TLAPS

-----------------------------------------------------------------------------
(* What a thread may rely on while it holds the reservation.                *)

Holding == MidRequest \cup {"queued", "unwinding"} \cup Working

(* The reservation is that of the one thread between its claim and the end  *)
(* of its job, or of one that an exit took away.                            *)
HoldsReservation ==
    \A s \in SegmentJobs :
        /\ pc[s] \in Holding => session.active_job = s /\ session.last_job = s
        /\ session.active_job = s => pc[s] \in Holding \cup {"dead"}

HoldersAreLive ==
    \A s \in SegmentJobs :
        pc[s] \in {"queued", "unwinding"} \cup Working => jobs[s] \in Live

(* A reservation found without a live job stays without a thread.           *)
NoticedAreDead ==
    \A t \in SegmentJobs \cup Watchers :
        pc[t] = "clearing" =>
            /\ noticed[t].job \in SegmentJobs
            /\ pc[noticed[t].job] = "dead"

(* What a thread loaded is still what the file says.                        *)
Copied ==
    {"reloaded", "loaded", "waiting", "training", "trained", "checkpointing",
     "checkpointed", "tracing", "traced", "validated", "rescoring", "scored",
     "picked", "written"}
CopyIsCurrent == \A s \in SegmentJobs : pc[s] \in Copied => copy[s] = session

(* Round files have no gap, and what is listed has a file.                  *)
FilesHaveNoGap ==
    \A r, q \in Rounds : round_files[r].exists /\ q < r => round_files[q].exists

RoundsListed ==
    /\ \A i \in 1..Len(session.rounds) :
          round_files[session.rounds[i]].exists /\ session.rounds[i] >= i - 1
    /\ \A i, k \in 1..Len(session.rounds) : i < k => session.rounds[i] < session.rounds[k]

PickIsFree ==
    \A s \in SegmentJobs :
        /\ pc[s] = "picked" =>
              /\ ~round_files[index[s]].exists
              /\ \A q \in Rounds : q < index[s] => round_files[q].exists
        /\ pc[s] = "written" => round_files[index[s]].exists /\ round_files[index[s]].job = s
        /\ pc[s] \in {"picked", "written"} =>
              /\ index[s] >= Len(session.rounds)
              /\ \A i \in 1..Len(session.rounds) : session.rounds[i] < index[s]

(* Before it commits, a job is neither in the history nor listed.           *)
Uncommitted ==
    {"idle", "clearing", "checked", "queued", "started"} \cup MidRequest \cup (Copied)
Recorded(s) == \E i \in 1..Len(session.segments) : session.segments[i].job = s
IsListed(i, s) == round_files[session.rounds[i]].job = s
ListedOnce(s) ==
    \E i \in 1..Len(session.rounds) :
        IsListed(i, s) /\ \A k \in 1..Len(session.rounds) : IsListed(k, s) => k = i

HistorySound ==
    /\ \A i, k \in 1..Len(session.segments) :
          i # k /\ session.segments[i].job # None
              => session.segments[i].job # session.segments[k].job
    /\ \A s \in SegmentJobs : pc[s] \in Uncommitted => ~Recorded(s)

CommitSound ==
    \A s \in SegmentJobs :
        /\ pc[s] \in Uncommitted => \A i \in 1..Len(session.rounds) : ~IsListed(i, s)
        /\ pc[s] = "saved" => ListedOnce(s)
        /\ pc[s] = "unwinding" => outcome[s] # "done"
        /\ pc[s] = "settling" /\ outcome[s] = "done" => ListedOnce(s)
        /\ jobs[s] = "done" => ListedOnce(s)
        /\ pc[s] \in {"dead"} => jobs[s] # "done"

(* No trial is forgotten between the checkpoint and the session.            *)
Evolved ==
    {"trained", "checkpointing", "checkpointed", "tracing", "traced", "validated",
     "rescoring", "scored", "picked", "written"}
TrialsSound ==
    /\ session.trials <= checkpoint.trials
    /\ \A s \in SegmentJobs :
        /\ pc[s] \in {"training"} \cup Evolved => session.trials <= gp[s].trials
        /\ pc[s] \in {"checkpointed", "tracing", "traced", "validated"} => checkpoint = gp[s]
        /\ pc[s] = "rescoring" => checkpoint.trials = gp[s].trials
        /\ pc[s] \in {"scored", "picked", "written"} => checkpoint = gp[s]

(* A generation is traced from the one before it.                           *)
Saving == {"checkpointing", "checkpointed", "tracing", "rescoring"}
LineageSound ==
    crashes = 0 =>
        /\ lineage.sound
        /\ (\A s \in SegmentJobs : pc[s] \notin Saving)
              => ~checkpoint.torn /\ ~lineage.torn /\ checkpoint.gens = lineage.gens
        /\ \A s \in SegmentJobs :
            /\ pc[s] \in {"waiting", "training"} => store[s] = lineage
            /\ pc[s] = "training" => gp[s] = checkpoint
            /\ pc[s] \in Evolved =>
                  /\ ~gp[s].torn /\ ~store[s].torn
                  /\ gp[s].gens = store[s].gens /\ store[s].sound
            /\ pc[s] = "rescoring" => lineage = store[s]
            /\ pc[s] \in {"checkpointing", "checkpointed"} => ~lineage.torn
            /\ pc[s] \in {"traced", "validated", "scored", "picked", "written"} =>
                  lineage = store[s]

(* A job that has evolved a generation knows how it ends.                   *)
OutcomeKnown ==
    \A s \in SegmentJobs : pc[s] \in Evolved \cup {"saved"} => outcome[s] \in {"done", "stopped"}

Typed == SegmentsTypeOK /\ OutcomeKnown
Reservation == HoldsReservation /\ HoldersAreLive /\ NoticedAreDead /\ CopyIsCurrent
Committed == FilesHaveNoGap /\ RoundsListed /\ PickIsFree /\ HistorySound /\ CommitSound
Evolution == TrialsSound /\ LineageSound

IInv == Typed /\ Reservation /\ Committed /\ Evolution

-----------------------------------------------------------------------------
(* Type correctness.                                                        *)

LEMMA Roles ==
    /\ SegmentJobs \subseteq Jobs /\ SegmentJobs \subseteq Threads
    /\ Watchers \subseteq Threads
    /\ SegmentJobs \cap Watchers = {}
    /\ None \notin Threads
  BY SessionAssumption DEF Jobs, Threads

LEMMA FinishJobType ==
  ASSUME NEW doc \in SessionType, NEW j \in SegmentJobs \cup {None}, NEW how
  PROVE  FinishJob(doc, j, how) \in SessionType
<1> DEFINE released == [doc EXCEPT !.active_job = IF @ = j THEN None ELSE @]
           entry == [job |-> j, status |-> how]
<1>1. released \in SessionType
  BY DEF SessionType
<1>2. ASSUME how \in {"stopped", "failed", "interrupted"}
      PROVE  [released EXCEPT !.segments = Append(@, entry)] \in SessionType
  <2>1. Append(released.segments, entry) \in
          Seq([job : SegmentJobs \cup {None},
               status : {"done", "stopped", "failed", "interrupted"}])
    BY <1>1, <1>2 DEF SessionType
  <2> HIDE DEF released, entry
  <2> QED BY <1>1, <2>1 DEF SessionType
<1> QED BY <1>1, <1>2 DEF FinishJob

(* finish_job touches the reservation and the history of its own job.       *)
LEMMA FinishJobFields ==
  ASSUME NEW doc \in SessionType, NEW j, NEW how, NEW new,
         new = FinishJob(doc, j, how)
  PROVE  /\ new.active_job = IF doc.active_job = j THEN None ELSE doc.active_job
         /\ new.last_job = doc.last_job /\ new.rounds = doc.rounds
         /\ new.trials = doc.trials
<1> DEFINE released == [doc EXCEPT !.active_job = IF @ = j THEN None ELSE @]
<1>1. /\ released.active_job = IF doc.active_job = j THEN None ELSE doc.active_job
      /\ released.last_job = doc.last_job /\ released.rounds = doc.rounds
      /\ released.trials = doc.trials
      /\ DOMAIN released = DOMAIN doc
  BY DEF SessionType
<1>2. \/ new = released
      \/ new = [released EXCEPT !.segments = Append(@, [job |-> j, status |-> how])]
  BY DEF FinishJob
<1> HIDE DEF released
<1> QED BY <1>1, <1>2 DEF SessionType

LEMMA FinishJobHistory ==
  ASSUME NEW doc \in SessionType, NEW j, NEW how, NEW new,
         new = FinishJob(doc, j, how)
  PROVE  \/ new.segments = doc.segments
         \/ /\ new.segments = Append(doc.segments, [job |-> j, status |-> how])
            /\ \A i \in 1..Len(doc.segments) : doc.segments[i].job # j
<1> DEFINE released == [doc EXCEPT !.active_job = IF @ = j THEN None ELSE @]
<1>1. released.segments = doc.segments /\ DOMAIN released = DOMAIN doc
  BY DEF SessionType
<1>2. \/ new = released
      \/ /\ new = [released EXCEPT !.segments = Append(@, [job |-> j, status |-> how])]
         /\ \A i \in 1..Len(doc.segments) : doc.segments[i].job # j
  BY DEF FinishJob
<1> HIDE DEF released
<1> QED BY <1>1, <1>2 DEF SessionType

LEMMA FinishJobElsewhere ==
  ASSUME NEW doc \in SessionType, NEW j, NEW how,
         doc.active_job # j, doc.last_job # j
  PROVE  FinishJob(doc, j, how) = doc
  BY DEF FinishJob, SessionType

LEMMA Resettled ==
  ASSUME NEW doc \in SessionType, NEW s \in SegmentJobs
  PROVE  [doc EXCEPT !.settings = s] \in SessionType
  BY DEF SessionType

LEMMA Bred ==
  ASSUME NEW file \in CheckpointType, NEW gens \in Nat, NEW trials \in Nat
  PROVE  [file EXCEPT !.gens = gens, !.trials = trials] \in CheckpointType
  BY DEF CheckpointType

LEMMA Traced ==
  ASSUME NEW file \in LineageType, NEW gens \in Nat, NEW sound \in BOOLEAN
  PROVE  [file EXCEPT !.gens = gens, !.sound = sound] \in LineageType
  BY DEF LineageType

LEMMA RequestType ==
  ASSUME Typed, NEW s \in SegmentJobs,
         \/ CheckIdle(s) \/ ClaimSegment(s) \/ ReloadReservation(s)
         \/ SaveSettings(s) \/ SubmitSegment(s)
  PROVE  Typed'
<1> USE Roles DEF Typed, SegmentsTypeOK, OutcomeKnown, Goto, segmentLocals, disk, memory, files,
            SegmentStages, MidRequest, Working, Evolved
<1>1. CASE CheckIdle(s)
  <2>1. CASE session.active_job = None
    BY <1>1, <2>1 DEF CheckIdle
  <2>2. CASE session.active_job # None
    <3>1. session.active_job \in SegmentJobs
      BY <2>2 DEF SessionType
    <3>2. LookupStatus(session.active_job) \in {"done", "stopped", "failed", "interrupted"}
      BY <1>1, <2>2, <3>1 DEF CheckIdle, LookupStatus, IsLive, SubjectJob, Live, JobStatuses
    <3> QED BY <1>1, <2>2, <3>1, <3>2 DEF CheckIdle
  <2> QED BY <2>1, <2>2
<1>2. CASE ClaimSegment(s)
  <2>1. session' \in SessionType
    <3>1. [session EXCEPT !.active_job = s, !.last_job = s] \in SessionType
      BY DEF SessionType
    <3> QED BY <1>2, <3>1 DEF ClaimSegment
  <2> QED BY <1>2, <2>1 DEF ClaimSegment
<1>3. CASE ReloadReservation(s)
  BY <1>3 DEF ReloadReservation, LoadSession
<1>4. CASE SaveSettings(s)
  <2>1. session' \in SessionType
    BY <1>4, Resettled DEF SaveSettings
  <2> QED BY <1>4, <2>1 DEF SaveSettings
<1>5. CASE SubmitSegment(s)
  BY <1>5 DEF SubmitSegment, Submitted, JobStatuses
<1> QED BY <1>1, <1>2, <1>3, <1>4, <1>5

LEMMA PollType ==
  ASSUME Typed, NEW t \in SegmentJobs \cup Watchers,
         ClearReservation(t) \/ (t \in Watchers /\ NoticeDead(t))
  PROVE  Typed'
<1> USE Roles DEF Typed, SegmentsTypeOK, OutcomeKnown, Goto, segmentLocals, disk, memory, files,
            SegmentStages, MidRequest, Working, Evolved
<1>1. CASE ClearReservation(t)
  <2>1. session' \in SessionType
    BY <1>1, FinishJobType DEF ClearReservation
  <2>2. noticed' \in [SegmentJobs \cup Watchers ->
                       [job : SegmentJobs \cup {None},
                        status : {"done", "stopped", "failed", "interrupted"}]]
    BY <1>1 DEF ClearReservation, Unnoticed
  <2> QED BY <1>1, <2>1, <2>2 DEF ClearReservation
<1>2. CASE t \in Watchers /\ NoticeDead(t)
  <2>1. session.active_job \in SegmentJobs
    BY <1>2 DEF NoticeDead, SessionType
  <2>2. LookupStatus(session.active_job) \in {"done", "stopped", "failed", "interrupted"}
    BY <1>2, <2>1 DEF NoticeDead, LookupStatus, IsLive, Live, JobStatuses
  <2> QED BY <1>2, <2>1, <2>2 DEF NoticeDead
<1> QED BY <1>1, <1>2

LEMMA SearchType ==
  ASSUME Typed, NEW s \in SegmentJobs,
         \/ BeginSegment(s) \/ LoadForSegment(s) \/ SaveMigrated(s) \/ EnterLease(s)
         \/ Evolve(s) \/ AbandonSegment(s)
  PROVE  Typed'
<1> USE Roles DEF Typed, SegmentsTypeOK, OutcomeKnown, Goto, segmentLocals, disk, memory, files,
            SegmentStages, MidRequest, Working, Evolved, Unwinding
<1>1. CASE BeginSegment(s)
  BY <1>1 DEF BeginSegment, JobStatuses
<1>2. CASE LoadForSegment(s)
  BY <1>2 DEF LoadForSegment, LoadSession
<1>3. CASE SaveMigrated(s)
  BY <1>3 DEF SaveMigrated
<1>4. CASE EnterLease(s)
  BY <1>4 DEF EnterLease
<1>5. CASE Evolve(s)
  <2> DEFINE cold == IF gp[s].gens = 0 THEN 1 ELSE 0
             before == gp[s].gens + cold
             traced == store[s].gens + cold
  <2>1. PICK born \in {0, 1} :
          /\ gp' = [gp EXCEPT ![s].gens = before + born, ![s].trials = @ + cold + born]
          /\ store' = [store EXCEPT
                ![s].gens = IF born = 1 THEN before + 1 ELSE traced,
                ![s].sound = @ /\ (born = 1 => traced = before)]
    BY <1>5 DEF Evolve
  <2>2. cold \in {0, 1} /\ before \in Nat /\ traced \in Nat
    BY DEF CheckpointType, LineageType
  <2>3. gp' \in [SegmentJobs -> CheckpointType]
    <3>1. /\ before + born \in Nat /\ gp[s].trials + cold + born \in Nat
      <4> HIDE DEF cold, before
      <4> QED BY <2>1, <2>2 DEF CheckpointType
    <3> HIDE DEF cold, before
    <3> DEFINE gens == before + born
               trials == gp[s].trials + cold + born
    <3>2. gens \in Nat /\ trials \in Nat
      BY <3>1
    <3>3. gp' = [gp EXCEPT ![s].gens = gens, ![s].trials = trials]
      BY <2>1
    <3> HIDE DEF gens, trials
    <3>4. [gp[s] EXCEPT !.gens = gens, !.trials = trials] \in CheckpointType
      BY <3>2, Bred
    <3> QED BY <3>3, <3>4
  <2>4. store' \in [SegmentJobs -> LineageType]
    <3> DEFINE generations == IF born = 1 THEN before + 1 ELSE traced
               right == store[s].sound /\ (born = 1 => traced = before)
    <3>0. store' = [store EXCEPT ![s].gens = generations, ![s].sound = right]
      BY <2>1
    <3> HIDE DEF before, traced
    <3>1. generations \in Nat
      BY <2>2
    <3>2. right \in BOOLEAN
      BY DEF LineageType
    <3> HIDE DEF generations, right
    <3>3. [store[s] EXCEPT !.gens = generations, !.sound = right] \in LineageType
      BY <3>1, <3>2, Traced
    <3> QED BY <3>0, <3>3
  <2> QED BY <1>5, <2>3, <2>4 DEF Evolve
<1>6. CASE AbandonSegment(s)
  BY <1>6 DEF AbandonSegment
<1> QED BY <1>1, <1>2, <1>3, <1>4, <1>5, <1>6

LEMMA SaveType ==
  ASSUME Typed, NEW s \in SegmentJobs,
         \/ TruncateCheckpoint(s) \/ WriteCheckpoint(s) \/ TruncateLineage(s)
         \/ WriteLineage(s) \/ SelectCandidate(s) \/ PickRound(s) \/ WriteRound(s)
  PROVE  Typed'
<1> USE Roles DEF Typed, SegmentsTypeOK, OutcomeKnown, Goto, segmentLocals, disk, memory, files,
            SegmentStages, MidRequest, Working, Evolved
<1>1. CASE TruncateCheckpoint(s)
  BY <1>1 DEF TruncateCheckpoint, CheckpointType
<1>2. CASE WriteCheckpoint(s)
  BY <1>2 DEF WriteCheckpoint
<1>3. CASE TruncateLineage(s)
  BY <1>3 DEF TruncateLineage, LineageType
<1>4. CASE WriteLineage(s) \/ SelectCandidate(s)
  BY <1>4 DEF WriteLineage, SelectCandidate
<1>5. CASE PickRound(s)
  BY <1>5 DEF PickRound, FreeRounds
<1>6. CASE WriteRound(s)
  <2>1. round_files' \in [Rounds -> RoundType]
    BY <1>6 DEF WriteRound, RoundType, SessionType
  <2> QED BY <1>6, <2>1 DEF WriteRound
<1> QED BY <1>1, <1>2, <1>3, <1>4, <1>5, <1>6

LEMMA EndType ==
  ASSUME Typed, NEW s \in SegmentJobs,
         \/ SaveSegment(s) \/ FinishSegment(s)
         \/ Settle(s) /\ UNCHANGED segmentLocals
         \/ Stop(s) /\ UNCHANGED segmentLocals
  PROVE  Typed'
<1> USE Roles DEF Typed, SegmentsTypeOK, OutcomeKnown, Goto, segmentLocals, disk, memory, files,
            SegmentStages, MidRequest, Working, Evolved
<1>1. CASE SaveSegment(s)
  <2> DEFINE entry == [job |-> s, status |-> outcome[s]]
  <2>1. Append(copy[s].segments, entry) \in
          Seq([job : SegmentJobs \cup {None},
               status : {"done", "stopped", "failed", "interrupted"}])
    <3>1. entry.status \in {"done", "stopped"} /\ copy[s] \in SessionType
      BY <1>1 DEF SaveSegment
    <3>2. entry \in [job : SegmentJobs \cup {None},
                    status : {"done", "stopped", "failed", "interrupted"}]
      BY <3>1
    <3> QED BY <3>1, <3>2 DEF SessionType
  <2>2. Append(copy[s].rounds, index[s]) \in Seq(Rounds)
    BY DEF SessionType
  <2>3. session' \in SessionType
    <3> DEFINE entries == Append(copy[s].segments, entry)
               listed == Append(copy[s].rounds, index[s])
    <3>1. session' = [copy[s] EXCEPT !.trials = gp[s].trials, !.last_job = s,
                                     !.segments = entries, !.rounds = listed]
      BY <1>1 DEF SaveSegment
    <3>2. gp[s].trials \in Nat /\ copy[s] \in SessionType
      BY DEF CheckpointType
    <3> HIDE DEF entries, listed
    <3> QED BY <2>1, <2>2, <3>1, <3>2 DEF SessionType, entries, listed
  <2> QED BY <1>1, <2>3 DEF SaveSegment
<1>2. CASE FinishSegment(s)
  BY <1>2, FinishJobType DEF FinishSegment
<1>3. CASE Settle(s) /\ UNCHANGED segmentLocals
  BY <1>3 DEF Settle, JobStatuses
<1>4. CASE Stop(s) /\ UNCHANGED segmentLocals
  BY <1>4 DEF Stop
<1> QED BY <1>1, <1>2, <1>3, <1>4

LEMMA CrashType ==
  ASSUME Typed, SegmentsCrash
  PROVE  Typed'
<1>1. pc' \in [Threads -> SegmentStages]
  BY DEF Typed, SegmentsTypeOK, SegmentsCrash, Crash, SegmentStages, Resting
<1>2. crashes' \in 0..MaxCrashes
  BY SessionAssumption DEF Typed, SegmentsTypeOK, SegmentsCrash, Crash
<1>3. noticed' \in [SegmentJobs \cup Watchers ->
                       [job : SegmentJobs \cup {None},
                        status : {"done", "stopped", "failed", "interrupted"}]]
  BY DEF SegmentsCrash, Unnoticed
<1>4. OutcomeKnown'
  BY Roles DEF Typed, OutcomeKnown, SegmentsCrash, Crash, Resting, Evolved
<1> QED
  BY <1>1, <1>2, <1>3, <1>4 DEF Typed, SegmentsTypeOK, SegmentsCrash, Crash, JobStatuses,
                                files, disk, memory

LEMMA NextTyped == Typed /\ [SegmentsNext]_segmentVars => Typed'
<1> SUFFICES ASSUME Typed, [SegmentsNext]_segmentVars PROVE Typed'
  OBVIOUS
<1>1. CASE SegmentsStep
  <2>1. ASSUME NEW s \in SegmentJobs,
               CheckIdle(s) \/ SegmentProgress(s) \/ (Stop(s) /\ UNCHANGED segmentLocals)
        PROVE  Typed'
    BY <2>1, RequestType, PollType, SearchType, SaveType, EndType DEF SegmentProgress
  <2>2. ASSUME NEW w \in Watchers, NoticeDead(w) \/ ClearReservation(w) PROVE Typed'
    BY <2>2, PollType
  <2> QED BY <1>1, <2>1, <2>2 DEF SegmentsStep
<1>2. CASE SegmentsCrash
  BY <1>2, CrashType
<1>3. CASE UNCHANGED segmentVars
  BY <1>3 DEF segmentVars, docVars, segmentLocals, disk, memory, files, Typed,
              SegmentsTypeOK, OutcomeKnown
<1> QED BY <1>1, <1>2, <1>3 DEF SegmentsNext

LEMMA InitTyped == SegmentsInit => Typed
<1> SUFFICES ASSUME SegmentsInit PROVE Typed
  OBVIOUS
<1> USE SessionAssumption
<1>1. AnyFingerprint \in Fingerprints
  BY DEF AnyFingerprint
<1>2. session \in SessionType
  <2>1. [i \in 1..InitialRounds |-> i - 1] \in Seq(Rounds)
    BY DEF Rounds
  <2>2. [i \in 1..InitialRounds |-> [job |-> None, status |-> "done"]] \in
          Seq([job : SegmentJobs \cup {None},
               status : {"done", "stopped", "failed", "interrupted"}])
    OBVIOUS
  <2>3. <<>> \in Seq(FinalizeJobs)
    OBVIOUS
  <2> QED BY <2>1, <2>2, <2>3 DEF SegmentsInit, DocInit, SessionType
<1>3. round_files \in [Rounds -> RoundType]
  <2>1. NoRound \in RoundType
    BY <1>1 DEF NoRound, RoundType
  <2>2. ASSUME NEW r \in Rounds, r < InitialRounds
        PROVE  [exists |-> TRUE, fp |-> RoundFingerprint[r],
                adaptive |-> LegacyReads > 0, job |-> None] \in RoundType
    <3>1. RoundFingerprint[r] \in Fingerprints
      BY <2>2 DEF Rounds
    <3>2. (LegacyReads > 0) \in BOOLEAN
      OBVIOUS
    <3> QED BY <3>1, <3>2 DEF RoundType
  <2> QED BY <2>1, <2>2 DEF SegmentsInit, DocInit
<1>4. index \in [SegmentJobs -> Rounds]
  BY DEF SegmentsInit, Rounds
<1>5. copy \in [SegmentJobs -> SessionType]
  BY <1>2 DEF SegmentsInit
<1>6. /\ checkpoint \in CheckpointType /\ lineage \in LineageType
      /\ gp \in [SegmentJobs -> CheckpointType] /\ store \in [SegmentJobs -> LineageType]
      /\ noticed \in [SegmentJobs \cup Watchers ->
                       [job : SegmentJobs \cup {None},
                        status : {"done", "stopped", "failed", "interrupted"}]]
  BY DEF SegmentsInit, CheckpointType, LineageType, NoCheckpoint, NoLineage, Unnoticed
<1>7. OutcomeKnown
  BY Roles DEF SegmentsInit, DocInit, OutcomeKnown, Evolved
<1>8. /\ pc \in [Threads -> SegmentStages] /\ jobs \in [Jobs -> JobStatuses]
      /\ outcome \in [Jobs -> {"done", "stopped", "failed", "unstarted"}]
      /\ cancelled \subseteq Jobs /\ crashes \in 0..MaxCrashes /\ io_lock = None
  BY DEF SegmentsInit, DocInit, SegmentStages, JobStatuses
<1> QED BY <1>2, <1>3, <1>4, <1>5, <1>6, <1>7, <1>8 DEF Typed, SegmentsTypeOK

(* The session, its files, what a segment has in memory and what a poller   *)
(* has noticed stay what they are said to be, however requests overlap.     *)
THEOREM TypeCorrect == SegmentsSpec => []SegmentsTypeOK
<1>1. Typed => SegmentsTypeOK
  BY DEF Typed
<1> QED BY <1>1, InitTyped, NextTyped, PTL DEF SegmentsSpec

-----------------------------------------------------------------------------
(* The reservation.                                                         *)

LEMMA OneHolder ==
  ASSUME HoldsReservation, NEW s \in SegmentJobs, NEW t \in SegmentJobs,
         pc[s] \in Holding, pc[t] \in Holding
  PROVE  s = t
  BY DEF HoldsReservation

(* A reservation that is neither live nor being requested has no thread.    *)
LEMMA DeadWhenNotLive ==
  ASSUME Typed, Reservation, ~RequestsOverlap, MayLook,
         session.active_job # None, ~IsLive(session.active_job)
  PROVE  session.active_job \in SegmentJobs /\ pc[session.active_job] = "dead"
<1>1. session.active_job \in SegmentJobs
  BY DEF Typed, SegmentsTypeOK, SessionType
<1>2. /\ pc[session.active_job] \in Holding \cup {"dead"}
      /\ pc[session.active_job] \notin MidRequest
  BY <1>1 DEF Reservation, HoldsReservation, MayLook
<1>3. pc[session.active_job] \notin {"queued", "unwinding"} \cup Working
  BY <1>1 DEF Reservation, HoldersAreLive, IsLive
<1> QED BY <1>1, <1>2, <1>3 DEF Holding

(* Releasing a dead reservation leaves a newer holder's session alone.      *)
LEMMA ClearEffect ==
  ASSUME Typed, Reservation, NEW t \in SegmentJobs \cup Watchers, ClearReservation(t),
         NEW j, j = noticed[t].job
  PROVE  /\ j \in SegmentJobs /\ pc[j] = "dead"
         /\ \A s \in SegmentJobs : pc[s] \in Holding => session' = session
         /\ session'.active_job = IF session.active_job = j THEN None
                                  ELSE session.active_job
         /\ session'.last_job = session.last_job /\ session'.rounds = session.rounds
         /\ session'.trials = session.trials
         /\ \/ session'.segments = session.segments
            \/ /\ session'.segments =
                     Append(session.segments, [job |-> j, status |-> noticed[t].status])
               /\ \A i \in 1..Len(session.segments) : session.segments[i].job # j
<1>1. j \in SegmentJobs /\ pc[j] = "dead"
  BY DEF ClearReservation, Reservation, NoticedAreDead
<1>2. session' = FinishJob(session, j, noticed[t].status) /\ session \in SessionType
  BY DEF ClearReservation, Typed, SegmentsTypeOK
<1>3. ASSUME NEW s \in SegmentJobs, pc[s] \in Holding PROVE session' = session
  <2>1. s # j
    BY <1>1, <1>3 DEF Holding, MidRequest, Working
  <2>2. session.active_job # j /\ session.last_job # j
    BY <1>3, <2>1 DEF Reservation, HoldsReservation
  <2>3. FinishJob(session, j, noticed[t].status) = session
    BY <1>2, <2>2, FinishJobElsewhere
  <2> QED BY <1>2, <2>3
<1> QED BY <1>1, <1>2, <1>3, FinishJobFields, FinishJobHistory

LEMMA ClaimEffect ==
  ASSUME session \in SessionType, NEW s \in SegmentJobs, ClaimSegment(s),
         session.active_job = None
  PROVE  /\ session'.active_job = s /\ session'.last_job = s
         /\ session'.rounds = session.rounds /\ session'.trials = session.trials
         /\ session'.segments = session.segments
<1>1. session' = [session EXCEPT !.active_job = s, !.last_job = s]
  BY DEF ClaimSegment
<1> QED BY <1>1 DEF SessionType

LEMMA RequestReservation ==
  ASSUME Typed, Reservation, ~RequestsOverlap, NEW s \in SegmentJobs,
         \/ CheckIdle(s) \/ ClaimSegment(s) \/ ReloadReservation(s)
         \/ SaveSettings(s) \/ SubmitSegment(s)
  PROVE  Reservation'
<1> USE Roles DEF Typed, SegmentsTypeOK, Reservation, HoldsReservation, HoldersAreLive,
            NoticedAreDead, CopyIsCurrent, Goto, segmentLocals, disk, memory,
            Holding, MidRequest, Working, Copied
<1>1. CASE CheckIdle(s)
  <2>1. CASE session.active_job = None
    BY <1>1, <2>1 DEF CheckIdle
  <2>2. CASE session.active_job # None
    <3>1. session.active_job \in SegmentJobs /\ pc[session.active_job] = "dead"
      BY <1>1, <2>2, DeadWhenNotLive DEF CheckIdle, SubjectJob
    <3>2. NoticedAreDead'
      BY <1>1, <2>2, <3>1 DEF CheckIdle
    <3> QED BY <1>1, <2>2, <3>2 DEF CheckIdle
  <2> QED BY <2>1, <2>2
<1>2. CASE ClaimSegment(s)
  <2>1. CASE session.active_job = None
    <3>1. \A t \in SegmentJobs : pc[t] \notin Holding
      BY <2>1
    <3>2. session'.active_job = s /\ session'.last_job = s
      BY <1>2, <2>1, ClaimEffect
    <3>3. pc' = [pc EXCEPT ![s] = "claimed"] /\ UNCHANGED <<jobs, copy, noticed>>
      BY <1>2, <2>1 DEF ClaimSegment
    <3> QED BY <1>2, <3>1, <3>2, <3>3 DEF ClaimSegment
  <2>2. CASE session.active_job # None
    BY <1>2, <2>2 DEF ClaimSegment
  <2> QED BY <2>1, <2>2
<1>3. CASE ReloadReservation(s)
  BY <1>3 DEF ReloadReservation, LoadSession
<1>4. CASE SaveSettings(s)
  <2>1. \A t \in SegmentJobs : pc[t] \in Holding => t = s
    BY <1>4, OneHolder DEF SaveSettings
  <2>2. session'.active_job = session.active_job /\ session'.last_job = session.last_job
    BY <1>4 DEF SaveSettings, SessionType
  <2>3. pc' = [pc EXCEPT ![s] = "configured"] /\ UNCHANGED <<jobs, copy, noticed>>
    BY <1>4 DEF SaveSettings
  <2> QED BY <1>4, <2>1, <2>2, <2>3 DEF SaveSettings
<1>5. CASE SubmitSegment(s)
  BY <1>5 DEF SubmitSegment, Submitted, Live
<1> QED BY <1>1, <1>2, <1>3, <1>4, <1>5

LEMMA PollReservation ==
  ASSUME Typed, Reservation, ~RequestsOverlap, NEW t \in SegmentJobs \cup Watchers,
         ClearReservation(t) \/ (t \in Watchers /\ NoticeDead(t))
  PROVE  Reservation'
<1> USE Roles DEF Typed, SegmentsTypeOK, Reservation, HoldsReservation, HoldersAreLive,
            NoticedAreDead, CopyIsCurrent, Goto, segmentLocals, disk, memory,
            Holding, MidRequest, Working, Copied
<1>1. CASE ClearReservation(t)
  <2>1. PICK j : j = noticed[t].job
    OBVIOUS
  <2>2. /\ \A s \in SegmentJobs : pc[s] \in Holding => session' = session
        /\ \A s \in SegmentJobs : session'.active_job = s => session.active_job = s
        /\ session'.last_job = session.last_job
    BY <1>1, <2>1, ClearEffect
  <2>3. /\ pc[t] = "clearing" /\ UNCHANGED <<jobs, copy>>
        /\ pc' = [pc EXCEPT ![t] = IF t \in Watchers THEN "idle" ELSE "checked"]
        /\ noticed' = [noticed EXCEPT ![t] = Unnoticed]
    BY <1>1 DEF ClearReservation
  <2>4. \A s \in SegmentJobs :
            pc[s] = pc'[s] \/ (pc[s] = "clearing" /\ pc'[s] = "checked")
    BY <2>3
  <2>5. NoticedAreDead'
    BY <2>3
  <2> HIDE DEF NoticedAreDead
  <2> QED BY <2>2, <2>3, <2>4, <2>5
<1>2. CASE t \in Watchers /\ NoticeDead(t)
  <2>1. session.active_job \in SegmentJobs /\ pc[session.active_job] = "dead"
    BY <1>2, DeadWhenNotLive DEF NoticeDead
  <2>2. NoticedAreDead'
    BY <1>2, <2>1 DEF NoticeDead
  <2> QED BY <1>2, <2>2 DEF NoticeDead
<1> QED BY <1>1, <1>2

LEMMA SearchReservation ==
  ASSUME Typed, Reservation, NEW s \in SegmentJobs,
         \/ BeginSegment(s) \/ LoadForSegment(s) \/ SaveMigrated(s) \/ EnterLease(s)
         \/ Evolve(s) \/ AbandonSegment(s)
  PROVE  Reservation'
<1> USE Roles DEF Typed, SegmentsTypeOK, Reservation, HoldsReservation, HoldersAreLive,
            NoticedAreDead, CopyIsCurrent, Goto, segmentLocals, disk, memory,
            Holding, MidRequest, Working, Copied, Unwinding
<1>1. CASE BeginSegment(s)
  BY <1>1 DEF BeginSegment, Live
<1>2. CASE LoadForSegment(s)
  BY <1>2 DEF LoadForSegment, LoadSession
<1>3. CASE SaveMigrated(s)
  <2>1. session' = session
    BY <1>3 DEF SaveMigrated
  <2> QED BY <1>3, <2>1 DEF SaveMigrated
<1>4. CASE EnterLease(s)
  BY <1>4 DEF EnterLease
<1>5. CASE Evolve(s)
  BY <1>5 DEF Evolve
<1>6. CASE AbandonSegment(s)
  BY <1>6 DEF AbandonSegment
<1> QED BY <1>1, <1>2, <1>3, <1>4, <1>5, <1>6

LEMMA SaveReservation ==
  ASSUME Typed, Reservation, NEW s \in SegmentJobs,
         \/ TruncateCheckpoint(s) \/ WriteCheckpoint(s) \/ TruncateLineage(s)
         \/ WriteLineage(s) \/ SelectCandidate(s) \/ PickRound(s) \/ WriteRound(s)
  PROVE  Reservation'
<1> USE Roles DEF Typed, SegmentsTypeOK, Reservation, HoldsReservation, HoldersAreLive,
            NoticedAreDead, CopyIsCurrent, Goto, segmentLocals, disk, memory,
            Holding, MidRequest, Working, Copied
<1>1. CASE TruncateCheckpoint(s) \/ WriteCheckpoint(s)
  BY <1>1 DEF TruncateCheckpoint, WriteCheckpoint
<1>2. CASE TruncateLineage(s) \/ WriteLineage(s) \/ SelectCandidate(s)
  BY <1>2 DEF TruncateLineage, WriteLineage, SelectCandidate
<1>3. CASE PickRound(s) \/ WriteRound(s)
  BY <1>3 DEF PickRound, WriteRound
<1> QED BY <1>1, <1>2, <1>3

(* What the save of a finished segment does to the document it reloads.     *)
LEMMA SaveEffect ==
  ASSUME Typed, Reservation, NEW s \in SegmentJobs, SaveSegment(s)
  PROVE  /\ copy[s] = session /\ session.active_job = s /\ session.last_job = s
         /\ session'.active_job = s /\ session'.last_job = s
         /\ session'.trials = gp[s].trials
         /\ session'.rounds = Append(session.rounds, index[s])
         /\ session'.segments =
                Append(session.segments, [job |-> s, status |-> outcome[s]])
<1>1. pc[s] = "written"
  BY DEF SaveSegment
<1>2. copy[s] = session /\ session.active_job = s /\ session.last_job = s
  BY <1>1 DEF Reservation, CopyIsCurrent, Copied, HoldsReservation, Holding, Working
<1> QED BY <1>2 DEF SaveSegment, Typed, SegmentsTypeOK, SessionType

LEMMA FinishEffect ==
  ASSUME Typed, Reservation, NEW s \in SegmentJobs, FinishSegment(s)
  PROVE  /\ session'.active_job = None
         /\ session'.last_job = session.last_job /\ session'.rounds = session.rounds
         /\ session'.trials = session.trials
         /\ \/ session'.segments = session.segments
            \/ /\ \E how : session'.segments =
                              Append(session.segments, [job |-> s, status |-> how])
               /\ \A i \in 1..Len(session.segments) : session.segments[i].job # s
<1>1. session.active_job = s /\ session \in SessionType
  BY DEF FinishSegment, Typed, SegmentsTypeOK, Reservation, HoldsReservation, Holding, Working
<1>2. PICK how : session' = FinishJob(session, s, how)
  BY DEF FinishSegment
<1>3. /\ session'.active_job = None
      /\ session'.last_job = session.last_job /\ session'.rounds = session.rounds
      /\ session'.trials = session.trials
  BY <1>1, <1>2, FinishJobFields
<1>4. \/ session'.segments = session.segments
      \/ /\ session'.segments = Append(session.segments, [job |-> s, status |-> how])
         /\ \A i \in 1..Len(session.segments) : session.segments[i].job # s
  BY <1>1, <1>2, FinishJobHistory
<1> QED BY <1>3, <1>4

LEMMA EndReservation ==
  ASSUME Typed, Reservation, NEW s \in SegmentJobs,
         \/ SaveSegment(s) \/ FinishSegment(s)
         \/ Settle(s) /\ UNCHANGED segmentLocals
         \/ Stop(s) /\ UNCHANGED segmentLocals
  PROVE  Reservation'
<1> USE Roles DEF Typed, SegmentsTypeOK, Reservation, HoldsReservation, HoldersAreLive,
            NoticedAreDead, CopyIsCurrent, Goto, segmentLocals, disk, memory,
            Holding, MidRequest, Working, Copied
<1>1. CASE SaveSegment(s)
  <2>1. \A t \in SegmentJobs : pc[t] \in Holding => t = s
    BY <1>1, OneHolder DEF SaveSegment
  <2>2. session'.active_job = s /\ session'.last_job = s
    BY <1>1, SaveEffect
  <2>3. /\ pc[s] = "written" /\ pc' = [pc EXCEPT ![s] = "saved"]
        /\ UNCHANGED <<jobs, copy, noticed>>
    BY <1>1 DEF SaveSegment
  <2> QED BY <1>1, <2>1, <2>2, <2>3
<1>2. CASE FinishSegment(s)
  <2>1. \A t \in SegmentJobs : pc[t] \in Holding => t = s
    BY <1>2, OneHolder DEF FinishSegment
  <2>2. session.active_job = s
    BY <1>2 DEF FinishSegment
  <2>3. session'.active_job = None
    BY <1>2, <2>2, FinishEffect
  <2>4. /\ pc[s] \in {"saved", "unwinding"} /\ pc' = [pc EXCEPT ![s] = "settling"]
        /\ UNCHANGED <<jobs, copy, noticed>>
    BY <1>2 DEF FinishSegment
  <2> QED BY <1>2, <2>1, <2>3, <2>4
<1>3. CASE Settle(s) /\ UNCHANGED segmentLocals
  BY <1>3 DEF Settle
<1>4. CASE Stop(s) /\ UNCHANGED segmentLocals
  BY <1>4 DEF Stop
<1> QED BY <1>1, <1>2, <1>3, <1>4

LEMMA CrashReservation ==
  ASSUME Typed, Reservation, SegmentsCrash
  PROVE  Reservation'
<1>1. \A s \in SegmentJobs : pc'[s] = IF pc[s] \in Resting THEN pc[s] ELSE "dead"
  BY Roles DEF SegmentsCrash, Crash
<1>2. \A w \in Watchers : pc'[w] = "idle"
  BY Roles DEF SegmentsCrash, Crash
<1>3. session' = session /\ copy' = copy
  BY DEF SegmentsCrash, Crash, memory
<1> QED BY <1>1, <1>2, <1>3 DEF Reservation, HoldsReservation, HoldersAreLive,
           NoticedAreDead, CopyIsCurrent, Resting, Holding, MidRequest, Working, Copied

LEMMA NextReservation ==
  ASSUME Typed, Reservation, ~RequestsOverlap, [SegmentsNext]_segmentVars
  PROVE  Reservation'
<1>1. CASE SegmentsStep
  <2>1. ASSUME NEW s \in SegmentJobs,
               CheckIdle(s) \/ SegmentProgress(s) \/ (Stop(s) /\ UNCHANGED segmentLocals)
        PROVE  Reservation'
    BY <2>1, RequestReservation, PollReservation, SearchReservation, SaveReservation,
       EndReservation DEF SegmentProgress
  <2>2. ASSUME NEW w \in Watchers, NoticeDead(w) \/ ClearReservation(w)
        PROVE  Reservation'
    BY <2>2, PollReservation
  <2> QED BY <1>1, <2>1, <2>2 DEF SegmentsStep
<1>2. CASE SegmentsCrash
  BY <1>2, CrashReservation
<1>3. CASE UNCHANGED segmentVars
  BY <1>3 DEF segmentVars, docVars, segmentLocals, disk, memory, Reservation,
     HoldsReservation, HoldersAreLive, NoticedAreDead, CopyIsCurrent
<1> QED BY <1>1, <1>2, <1>3 DEF SegmentsNext

LEMMA InitReservation == SegmentsInit => Reservation
  BY Roles, SessionAssumption
     DEF SegmentsInit, DocInit, Reservation, HoldsReservation, HoldersAreLive,
         NoticedAreDead, CopyIsCurrent, Holding, MidRequest, Working, Copied

-----------------------------------------------------------------------------
(* Rounds and history.                                                      *)

(* What most steps leave alone, and how the stages a job's record depends   *)
(* on may be entered.                                                       *)
RoundsFrame ==
    /\ session'.rounds = session.rounds /\ round_files' = round_files /\ index' = index
    /\ \A s \in SegmentJobs :
        /\ pc'[s] \in {"picked", "written"} => pc[s] = pc'[s]
        /\ pc'[s] \in Uncommitted => pc[s] \in Uncommitted
        /\ pc'[s] = "saved" => pc[s] = "saved"
        /\ pc'[s] = "unwinding" => outcome'[s] # "done"
        /\ pc'[s] = "settling" /\ outcome'[s] = "done" =>
              \/ pc[s] = "settling" /\ outcome[s] = "done"
              \/ pc[s] = "saved"
        /\ jobs'[s] = "done" =>
              \/ jobs[s] = "done"
              \/ pc[s] = "settling" /\ outcome[s] = "done"
        /\ pc'[s] = "dead" => jobs'[s] # "done"

HistoryFrame ==
    /\ session'.segments = session.segments
    /\ \A s \in SegmentJobs : pc'[s] \in Uncommitted => pc[s] \in Uncommitted

RoundsSound == FilesHaveNoGap /\ RoundsListed /\ PickIsFree /\ CommitSound

LEMMA FrameRounds == RoundsSound /\ RoundsFrame => RoundsSound'
<1> SUFFICES ASSUME RoundsSound, RoundsFrame PROVE RoundsSound'
  OBVIOUS
<1>1. FilesHaveNoGap' /\ RoundsListed' /\ PickIsFree'
  BY DEF RoundsSound, RoundsFrame, FilesHaveNoGap, RoundsListed, PickIsFree
<1>2. ASSUME NEW s \in SegmentJobs PROVE ListedOnce(s) => ListedOnce(s)'
  BY DEF RoundsFrame, ListedOnce, IsListed
<1>3. CommitSound'
  BY <1>2 DEF RoundsSound, RoundsFrame, CommitSound, IsListed
<1> QED BY <1>1, <1>3 DEF RoundsSound

LEMMA FrameHistory == HistorySound /\ HistoryFrame => HistorySound'
  BY DEF HistorySound, HistoryFrame, Recorded

LEMMA SearchFrame ==
  ASSUME Typed, Reservation, RoundsSound, NEW s \in SegmentJobs,
         \/ CheckIdle(s) \/ ReloadReservation(s) \/ SubmitSegment(s)
         \/ BeginSegment(s) \/ LoadForSegment(s) \/ SaveMigrated(s) \/ EnterLease(s)
         \/ Evolve(s) \/ AbandonSegment(s)
         \/ TruncateCheckpoint(s) \/ WriteCheckpoint(s) \/ TruncateLineage(s)
         \/ WriteLineage(s) \/ SelectCandidate(s)
         \/ Settle(s) /\ UNCHANGED segmentLocals
         \/ Stop(s) /\ UNCHANGED segmentLocals
  PROVE  RoundsFrame /\ HistoryFrame
<1> USE Roles DEF Typed, SegmentsTypeOK, RoundsSound, CommitSound, RoundsFrame, HistoryFrame, Goto,
            segmentLocals, disk, memory, files, Uncommitted, MidRequest, Copied, Unwinding
<1>1. CASE CheckIdle(s) \/ ReloadReservation(s)
  BY <1>1 DEF CheckIdle, ReloadReservation, LoadSession
<1>2. CASE SubmitSegment(s)
  BY <1>2 DEF SubmitSegment, Submitted
<1>3. CASE BeginSegment(s) \/ LoadForSegment(s)
  BY <1>3 DEF BeginSegment, LoadForSegment, LoadSession
<1>4. CASE SaveMigrated(s)
  <2>1. session' = session
    BY <1>4 DEF SaveMigrated, Reservation, CopyIsCurrent
  <2> QED BY <1>4, <2>1 DEF SaveMigrated
<1>5. CASE EnterLease(s) \/ AbandonSegment(s)
  BY <1>5 DEF EnterLease, AbandonSegment
<1>6. CASE Evolve(s)
  BY <1>6 DEF Evolve
<1>7. CASE TruncateCheckpoint(s) \/ WriteCheckpoint(s)
  BY <1>7 DEF TruncateCheckpoint, WriteCheckpoint
<1>8. CASE TruncateLineage(s) \/ WriteLineage(s) \/ SelectCandidate(s)
  BY <1>8 DEF TruncateLineage, WriteLineage, SelectCandidate
<1>9. CASE Settle(s) /\ UNCHANGED segmentLocals
  BY <1>9 DEF Settle
<1>10. CASE Stop(s) /\ UNCHANGED segmentLocals
  BY <1>10 DEF Stop
<1> QED BY <1>1, <1>2, <1>3, <1>4, <1>5, <1>6, <1>7, <1>8, <1>9, <1>10

LEMMA ClaimFrame ==
  ASSUME Typed, Reservation, RoundsSound, NEW s \in SegmentJobs,
         ClaimSegment(s) \/ SaveSettings(s)
  PROVE  RoundsFrame /\ HistoryFrame
<1>1. session'.rounds = session.rounds /\ session'.segments = session.segments
  <2>1. CASE ClaimSegment(s)
    BY <2>1, ClaimEffect DEF ClaimSegment, Typed, SegmentsTypeOK
  <2>2. CASE SaveSettings(s)
    <3>1. session' = [session EXCEPT !.settings = s]
      BY <2>2 DEF SaveSettings, Reservation, CopyIsCurrent, Copied
    <3> QED BY <3>1 DEF Typed, SegmentsTypeOK, SessionType
  <2> QED BY <2>1, <2>2
<1>2. /\ pc[s] \in Uncommitted
      /\ \/ pc' = [pc EXCEPT ![s] = "claimed"]
         \/ pc' = [pc EXCEPT ![s] = "configured"]
         \/ pc' = [pc EXCEPT ![s] = "finished"]
      /\ UNCHANGED <<round_files, index, outcome, jobs>>
  BY DEF ClaimSegment, SaveSettings, Goto, files, segmentLocals, memory, Uncommitted,
         Copied
<1> QED BY Roles, <1>1, <1>2
        DEF Typed, SegmentsTypeOK, RoundsSound, CommitSound, RoundsFrame, HistoryFrame,
            Uncommitted, MidRequest, Copied

(* A history that gets one entry of a job that had none.                    *)
LEMMA RecordOnce ==
  ASSUME Typed, HistorySound, NEW j \in SegmentJobs, NEW how,
         session'.segments = Append(session.segments, [job |-> j, status |-> how]),
         \A i \in 1..Len(session.segments) : session.segments[i].job # j,
         pc'[j] \notin Uncommitted,
         \A s \in SegmentJobs : pc'[s] \in Uncommitted => pc[s] \in Uncommitted
  PROVE  HistorySound'
<1> DEFINE old == session.segments
           new == session'.segments
<1>1. /\ Len(new) = Len(old) + 1 /\ Len(old) \in Nat
      /\ \A i \in 1..Len(old) : new[i] = old[i]
      /\ new[Len(old) + 1] = [job |-> j, status |-> how]
  BY DEF Typed, SegmentsTypeOK, SessionType
<1>2. \A i \in 1..Len(new) :
          (i \in 1..Len(old) /\ new[i] = old[i]) \/ (i = Len(old) + 1 /\ new[i].job = j)
  BY <1>1
<1>3. \A i, k \in 1..Len(new) : i # k /\ new[i].job # None => new[i].job # new[k].job
  <2> SUFFICES ASSUME NEW i \in 1..Len(new), NEW k \in 1..Len(new), i # k,
                      new[i].job # None
               PROVE  new[i].job # new[k].job
    OBVIOUS
  <2> QED BY <1>2 DEF HistorySound
<1>4. ASSUME NEW s \in SegmentJobs, pc'[s] \in Uncommitted,
             NEW i \in 1..Len(new), new[i].job = s
      PROVE  FALSE
  <2>1. s # j /\ ~Recorded(s)
    BY <1>4 DEF HistorySound
  <2> QED BY <1>2, <1>4, <2>1 DEF Recorded
<1> QED BY <1>3, <1>4 DEF HistorySound, Recorded

LEMMA ClearCommitted ==
  ASSUME Typed, Reservation, Committed, NEW t \in SegmentJobs \cup Watchers,
         ClearReservation(t) \/ (t \in Watchers /\ NoticeDead(t))
  PROVE  Committed'
<1>0. \A s \in SegmentJobs : pc'[s] = pc[s] \/ (pc[s] = "clearing" /\ pc'[s] = "checked")
  BY Roles DEF ClearReservation, NoticeDead, Goto, Typed, SegmentsTypeOK
<1>1. session'.rounds = session.rounds
  BY ClearEffect DEF NoticeDead
<1>2. UNCHANGED <<round_files, index, outcome, jobs>>
  BY DEF ClearReservation, NoticeDead, files, memory
<1>3. RoundsFrame
  BY <1>0, <1>1, <1>2 DEF RoundsFrame, Uncommitted, Committed, CommitSound
<1>4. \A s \in SegmentJobs : pc'[s] \in Uncommitted => pc[s] \in Uncommitted
  BY <1>0 DEF Uncommitted
<1>5. HistorySound'
  <2>1. CASE session'.segments = session.segments
    BY <1>4, <2>1, FrameHistory DEF HistoryFrame, Committed
  <2>2. CASE session'.segments # session.segments
    <3>1. ClearReservation(t)
      BY <2>2 DEF NoticeDead
    <3>2. PICK j : j = noticed[t].job
      OBVIOUS
    <3>3. /\ j \in SegmentJobs /\ pc[j] = "dead"
          /\ session'.segments =
                Append(session.segments, [job |-> j, status |-> noticed[t].status])
          /\ \A i \in 1..Len(session.segments) : session.segments[i].job # j
      BY <2>2, <3>1, <3>2, ClearEffect
    <3>4. pc'[j] \notin Uncommitted
      BY <1>0, <3>3 DEF Uncommitted, MidRequest, Copied
    <3> QED BY <1>4, <3>3, <3>4, RecordOnce DEF Committed
  <2> QED BY <2>1, <2>2
<1> QED BY <1>3, <1>5, FrameRounds DEF Committed, RoundsSound

LEMMA FinishCommitted ==
  ASSUME Typed, Reservation, Committed, NEW s \in SegmentJobs, FinishSegment(s)
  PROVE  Committed'
<1>1. /\ pc[s] \in {"saved", "unwinding"} /\ pc' = [pc EXCEPT ![s] = "settling"]
      /\ UNCHANGED <<round_files, index, outcome, jobs>>
  BY DEF FinishSegment, Goto, files, segmentLocals, memory
<1>2. \A t \in SegmentJobs : pc'[t] \in Uncommitted => t # s /\ pc[t] \in Uncommitted
  BY Roles, <1>1 DEF Uncommitted, MidRequest, Copied, Typed, SegmentsTypeOK
<1>3. RoundsFrame
  BY Roles, <1>1, <1>2, FinishEffect
     DEF RoundsFrame, Committed, CommitSound, Typed, SegmentsTypeOK
<1>4. HistorySound'
  <2>1. CASE session'.segments = session.segments
    BY <1>2, <2>1, FrameHistory DEF HistoryFrame, Committed
  <2>2. CASE session'.segments # session.segments
    <3>1. PICK how : session'.segments =
                        Append(session.segments, [job |-> s, status |-> how])
      BY <2>2, FinishEffect
    <3>2. \A i \in 1..Len(session.segments) : session.segments[i].job # s
      BY <2>2, FinishEffect
    <3> QED BY <1>2, <3>1, <3>2, RecordOnce DEF Committed
  <2> QED BY <2>1, <2>2
<1> QED BY <1>3, <1>4, FrameRounds DEF Committed, RoundsSound

(* The first free index from the number of listed rounds follows every file *)
(* and every listed round.                                                  *)
LEMMA PickCommitted ==
  ASSUME Typed, Reservation, Committed, NEW s \in SegmentJobs, PickRound(s)
  PROVE  Committed'
<1>1. /\ pc[s] = "scored" /\ pc' = [pc EXCEPT ![s] = "picked"]
      /\ UNCHANGED <<session, round_files, outcome, jobs>> /\ copy[s] = session
  BY DEF PickRound, Goto, files, Reservation, CopyIsCurrent, Copied
<1>2. PICK i \in FreeRounds(s) :
          /\ \A k \in FreeRounds(s) : i <= k
          /\ index' = [index EXCEPT ![s] = i]
  BY DEF PickRound
<1> DEFINE n == Len(session.rounds)
<1>3. /\ i \in Rounds /\ i \in Nat /\ i >= n /\ ~round_files[i].exists /\ n \in Nat
      /\ session.rounds \in Seq(Rounds)
      /\ \A q \in Rounds : q >= n /\ ~round_files[q].exists => i <= q
  BY <1>1, <1>2 DEF FreeRounds, Rounds, Typed, SegmentsTypeOK, SessionType
<1>4. ASSUME NEW q \in Rounds, q < i PROVE round_files[q].exists
  <2>1. CASE q >= n
    BY <1>3, <1>4, <2>1 DEF Rounds
  <2>2. CASE q < n
    <3>1. PICK k \in 1..n : k = q + 1
      BY <1>3, <2>2 DEF Rounds
    <3>2. PICK r \in Rounds : r = session.rounds[k]
      <4>1. session.rounds[k] \in Rounds
        BY <1>3
      <4> QED BY <4>1
    <3>3. round_files[r].exists /\ r >= k - 1
      BY <3>2 DEF Committed, RoundsListed
    <3>4. r = q \/ q < r
      BY <3>1, <3>3 DEF Rounds
    <3> QED BY <3>3, <3>4 DEF Committed, FilesHaveNoGap
  <2> QED BY <1>3, <2>1, <2>2 DEF Rounds
<1>5. ASSUME NEW k \in 1..n PROVE session.rounds[k] < i
  <2>1. session.rounds[k] \in Rounds /\ round_files[session.rounds[k]].exists
    BY <1>3 DEF Committed, RoundsListed
  <2> QED BY <1>3, <2>1 DEF Committed, FilesHaveNoGap, Rounds
<1>6. PickIsFree'
  <2>1. \A t \in SegmentJobs : pc'[t] \in {"picked", "written"} => t = s
    BY Roles, <1>1, OneHolder DEF Typed, SegmentsTypeOK, Reservation, Holding, Working
  <2>2. pc'[s] = "picked" /\ index'[s] = i
    BY Roles, <1>1, <1>2 DEF Typed, SegmentsTypeOK
  <2> QED BY <1>1, <1>3, <1>4, <1>5, <2>1, <2>2 DEF PickIsFree
<1>7. \A t \in SegmentJobs : t # s => pc'[t] = pc[t]
  BY Roles, <1>1 DEF Typed, SegmentsTypeOK
<1>8. FilesHaveNoGap' /\ RoundsListed' /\ HistorySound' /\ CommitSound'
  <2>1. pc[s] \in Uncommitted /\ pc'[s] = "picked"
    BY Roles, <1>1 DEF Uncommitted, Copied, Typed, SegmentsTypeOK
  <2>2. FilesHaveNoGap' /\ RoundsListed'
    BY <1>1 DEF Committed, FilesHaveNoGap, RoundsListed
  <2>3. HistorySound'
    BY <1>1, <1>7, <2>1 DEF Committed, HistorySound, Recorded
  <2>4. \A t \in SegmentJobs : ListedOnce(t) => ListedOnce(t)'
    BY <1>1 DEF ListedOnce, IsListed
  <2>5. CommitSound'
    BY <1>1, <1>7, <2>1, <2>4 DEF Committed, CommitSound, IsListed
  <2> QED BY <2>2, <2>3, <2>5
<1> QED BY <1>6, <1>8 DEF Committed

LEMMA WriteCommitted ==
  ASSUME Typed, Reservation, Committed, NEW s \in SegmentJobs, WriteRound(s)
  PROVE  Committed'
<1>1. /\ pc[s] = "picked" /\ pc' = [pc EXCEPT ![s] = "written"]
      /\ UNCHANGED <<session, index, outcome, jobs>>
      /\ index[s] \in Rounds /\ session.rounds \in Seq(Rounds)
  BY DEF WriteRound, Goto, segmentLocals, memory, Typed, SegmentsTypeOK, SessionType
<1>2. PICK fp \in Fingerprints :
         round_files' = [round_files EXCEPT ![index[s]] =
              [exists |-> TRUE, fp |-> fp, adaptive |-> copy[s].reads > 0, job |-> s]]
  BY DEF WriteRound
<1>3. /\ round_files'[index[s]].exists /\ round_files'[index[s]].job = s
      /\ \A r \in Rounds : r # index[s] => round_files'[r] = round_files[r]
  BY <1>1, <1>2 DEF Typed, SegmentsTypeOK
<1>4. /\ ~round_files[index[s]].exists
      /\ \A q \in Rounds : q < index[s] => round_files[q].exists
      /\ index[s] >= Len(session.rounds)
      /\ \A i \in 1..Len(session.rounds) : session.rounds[i] < index[s]
  BY <1>1 DEF Committed, PickIsFree
<1>5. \A i \in 1..Len(session.rounds) :
          /\ session.rounds[i] \in Rounds
          /\ round_files'[session.rounds[i]] = round_files[session.rounds[i]]
  <2> SUFFICES ASSUME NEW i \in 1..Len(session.rounds)
               PROVE  /\ session.rounds[i] \in Rounds
                      /\ round_files'[session.rounds[i]] = round_files[session.rounds[i]]
    OBVIOUS
  <2>1. PICK r \in Rounds : r = session.rounds[i]
    BY <1>1
  <2>2. r # index[s]
    BY <1>1, <1>4, <2>1 DEF Rounds
  <2> QED BY <1>3, <2>1, <2>2
<1>6. FilesHaveNoGap'
  BY <1>1, <1>3, <1>4 DEF Committed, FilesHaveNoGap, Rounds
<1>7. RoundsListed'
  BY <1>1, <1>5 DEF Committed, RoundsListed
<1>8. PickIsFree'
  <2>1. \A t \in SegmentJobs : pc'[t] \in {"picked", "written"} => t = s
    BY Roles, <1>1, OneHolder DEF Typed, SegmentsTypeOK, Reservation, Holding, Working
  <2>2. pc'[s] = "written"
    BY Roles, <1>1 DEF Typed, SegmentsTypeOK
  <2> QED BY <1>1, <1>3, <1>4, <2>1, <2>2 DEF PickIsFree
<1>9. \A t \in SegmentJobs : t # s => pc'[t] = pc[t]
  BY Roles, <1>1 DEF Typed, SegmentsTypeOK
<1>10. HistorySound' /\ CommitSound'
  <2>1. pc[s] \in Uncommitted /\ pc'[s] = "written"
    BY Roles, <1>1 DEF Uncommitted, Copied, Typed, SegmentsTypeOK
  <2>2. ASSUME NEW t \in SegmentJobs PROVE ListedOnce(t) => ListedOnce(t)'
    BY <1>1, <1>5 DEF ListedOnce, IsListed
  <2>3. HistorySound'
    BY <1>1, <1>9, <2>1 DEF Committed, HistorySound, Recorded
  <2> QED BY <1>1, <1>5, <1>9, <2>1, <2>2, <2>3 DEF Committed, CommitSound, IsListed
<1> QED BY <1>6, <1>7, <1>8, <1>10 DEF Committed

(* The commit lists the file that was just written, once.                   *)
LEMMA SaveCommitted ==
  ASSUME Typed, Reservation, Committed, NEW s \in SegmentJobs, SaveSegment(s)
  PROVE  Committed'
<1> DEFINE old == session.rounds
           new == session'.rounds
<1>0. PICK n : n = Len(session.rounds)
  OBVIOUS
<1>1. /\ pc[s] = "written" /\ pc' = [pc EXCEPT ![s] = "saved"]
      /\ UNCHANGED <<round_files, index, outcome, jobs>>
      /\ index[s] \in Rounds /\ old \in Seq(Rounds)
  BY DEF SaveSegment, Goto, files, segmentLocals, memory, Typed, SegmentsTypeOK,
         SessionType
<1>2. new = Append(old, index[s])
  BY SaveEffect
<1>3. /\ Len(new) = n + 1 /\ n \in Nat /\ new[n + 1] = index[s]
      /\ \A i \in 1..n : new[i] = old[i] /\ old[i] \in Rounds
  BY <1>0, <1>1, <1>2
<1>4. \A i \in 1..Len(new) : (i \in 1..n /\ new[i] = old[i]) \/ (i = n + 1 /\ new[i] = index[s])
  BY <1>3
<1>5. /\ round_files[index[s]].exists /\ round_files[index[s]].job = s
      /\ index[s] >= n /\ \A i \in 1..n : old[i] < index[s]
  BY <1>0, <1>1 DEF Committed, PickIsFree
<1>6. \A t \in SegmentJobs : pc'[t] = IF t = s THEN "saved" ELSE pc[t]
  BY Roles, <1>1 DEF Typed, SegmentsTypeOK
<1>7. \A t \in SegmentJobs : pc[t] \in Holding => t = s
  BY <1>1, OneHolder DEF Reservation, Holding, Working
<1>8. FilesHaveNoGap'
  BY <1>1 DEF Committed, FilesHaveNoGap
<1>9. RoundsListed'
  <2>1. \A i \in 1..Len(new) : round_files[new[i]].exists /\ new[i] >= i - 1
    BY <1>0, <1>3, <1>4, <1>5 DEF Committed, RoundsListed
  <2>2. ASSUME NEW i \in 1..Len(new), NEW k \in 1..Len(new), i < k PROVE new[i] < new[k]
    <3>1. i \in 1..n /\ new[i] = old[i]
      BY <1>3, <1>4, <2>2
    <3>2. CASE k \in 1..n
      BY <1>0, <1>3, <2>2, <3>1, <3>2 DEF Committed, RoundsListed
    <3>3. CASE k = n + 1
      BY <1>3, <1>5, <3>1, <3>3
    <3> QED BY <1>4, <3>2, <3>3
  <2> QED BY <1>1, <2>1, <2>2 DEF RoundsListed
<1>10. PickIsFree'
  BY <1>6, <1>7 DEF PickIsFree, Holding, Working
<1>11. CommitSound'
  <2>1. \A i \in 1..n : ~IsListed(i, s)
    BY <1>0, <1>1 DEF Committed, CommitSound, Uncommitted, Copied
  <2>2. ListedOnce(s)'
    <3>1. n + 1 \in 1..Len(new) /\ IsListed(n + 1, s)'
      BY <1>1, <1>3, <1>5 DEF IsListed
    <3>2. \A k \in 1..Len(new) : IsListed(k, s)' => k = n + 1
      BY <1>1, <1>4, <2>1 DEF IsListed
    <3> QED BY <3>1, <3>2 DEF ListedOnce
  <2>3. ASSUME NEW t \in SegmentJobs, t # s
        PROVE  /\ (\A i \in 1..n : ~IsListed(i, t)) => \A i \in 1..Len(new) : ~IsListed(i, t)'
               /\ ListedOnce(t) => ListedOnce(t)'
    <3>1. \A i \in 1..n : IsListed(i, t)' <=> IsListed(i, t)
      BY <1>1, <1>3 DEF IsListed
    <3>2. ~IsListed(n + 1, t)'
      BY <1>1, <1>3, <1>5, <2>3 DEF IsListed
    <3>3. \A i \in 1..Len(new) : i \in 1..n \/ i = n + 1
      BY <1>4
    <3>4. \A i \in 1..n : i \in 1..Len(new)
      BY <1>3
    <3> QED BY <1>0, <3>1, <3>2, <3>3, <3>4 DEF ListedOnce
  <2>4. pc'[s] = "saved" /\ (jobs'[s] = "done" => ListedOnce(s)')
    BY <1>6, <2>2
  <2> QED BY <1>0, <1>1, <1>6, <2>2, <2>3, <2>4
          DEF Committed, CommitSound, Uncommitted, MidRequest, Copied
<1>12. HistorySound'
  <2>1. \A i \in 1..Len(session.segments) : session.segments[i].job # s
    BY <1>1 DEF Committed, HistorySound, Recorded, Uncommitted, Copied
  <2>2. session'.segments = Append(session.segments, [job |-> s, status |-> outcome[s]])
    BY SaveEffect
  <2>3. /\ pc'[s] \notin Uncommitted
        /\ \A t \in SegmentJobs : pc'[t] \in Uncommitted => pc[t] \in Uncommitted
    BY <1>1, <1>6 DEF Uncommitted, MidRequest, Copied
  <2> QED BY <2>1, <2>2, <2>3, RecordOnce DEF Committed
<1> QED BY <1>8, <1>9, <1>10, <1>11, <1>12 DEF Committed

LEMMA CrashCommitted ==
  ASSUME Typed, Committed, SegmentsCrash
  PROVE  Committed'
<1>1. \A s \in SegmentJobs : /\ pc'[s] = IF pc[s] \in Resting THEN pc[s] ELSE "dead"
                            /\ jobs'[s] = "absent"
  BY Roles DEF SegmentsCrash, Crash
<1>2. UNCHANGED <<session, round_files, index, outcome>>
  BY DEF SegmentsCrash, Crash, files, memory
<1>3. RoundsFrame /\ HistoryFrame
  BY <1>1, <1>2 DEF RoundsFrame, HistoryFrame, Resting, Uncommitted, MidRequest, Copied
<1> QED BY <1>3, FrameRounds, FrameHistory DEF Committed, RoundsSound

LEMMA NextCommitted ==
  ASSUME Typed, Reservation, Committed, [SegmentsNext]_segmentVars
  PROVE  Committed'
<1>1. RoundsFrame /\ HistoryFrame => Committed'
  BY FrameRounds, FrameHistory DEF Committed, RoundsSound
<1>2. CASE SegmentsStep
  <2>1. ASSUME NEW s \in SegmentJobs,
               CheckIdle(s) \/ SegmentProgress(s) \/ (Stop(s) /\ UNCHANGED segmentLocals)
        PROVE  Committed'
    <3>1. CASE ClearReservation(s)
      BY <3>1, ClearCommitted
    <3>2. CASE FinishSegment(s) \/ PickRound(s) \/ WriteRound(s) \/ SaveSegment(s)
      BY <3>2, FinishCommitted, PickCommitted, WriteCommitted, SaveCommitted
    <3>3. CASE ~(ClearReservation(s) \/ FinishSegment(s) \/ PickRound(s)
                 \/ WriteRound(s) \/ SaveSegment(s))
      BY <1>1, <2>1, <3>3, SearchFrame, ClaimFrame
         DEF SegmentProgress, Committed, RoundsSound
    <3> QED BY <3>1, <3>2, <3>3
  <2>2. ASSUME NEW w \in Watchers, NoticeDead(w) \/ ClearReservation(w)
        PROVE  Committed'
    BY <2>2, ClearCommitted
  <2> QED BY <1>2, <2>1, <2>2 DEF SegmentsStep
<1>3. CASE SegmentsCrash
  BY <1>3, CrashCommitted
<1>4. CASE UNCHANGED segmentVars
  <2>1. RoundsFrame /\ HistoryFrame
    BY <1>4 DEF segmentVars, docVars, segmentLocals, memory, files, RoundsFrame,
                HistoryFrame, Committed, CommitSound
  <2> QED BY <1>1, <2>1
<1> QED BY <1>2, <1>3, <1>4 DEF SegmentsNext

LEMMA InitCommitted == SegmentsInit => Committed
<1> SUFFICES ASSUME SegmentsInit PROVE Committed
  OBVIOUS
<1> USE SessionAssumption
<1>1. /\ session.rounds = [i \in 1..InitialRounds |-> i - 1]
      /\ session.segments = [i \in 1..InitialRounds |-> [job |-> None, status |-> "done"]]
      /\ round_files = [r \in Rounds |->
             IF r < InitialRounds
             THEN [exists |-> TRUE, fp |-> RoundFingerprint[r],
                   adaptive |-> LegacyReads > 0, job |-> None]
             ELSE NoRound]
      /\ \A s \in SegmentJobs : pc[s] = "idle" /\ jobs[s] = "absent" /\ outcome[s] = "done"
  BY Roles DEF SegmentsInit, DocInit
<1>2. Len(session.rounds) = InitialRounds /\ Len(session.segments) = InitialRounds
  BY <1>1
<1>3. \A i \in 1..InitialRounds : session.rounds[i] = i - 1 /\ session.rounds[i] \in Rounds
  BY <1>1 DEF Rounds
<1>4. \A i \in 1..InitialRounds : session.segments[i].job = None
  BY <1>1
<1>5. \A r \in Rounds : (round_files[r].exists <=> r < InitialRounds)
                        /\ round_files[r].job = None
  BY <1>1 DEF NoRound
<1>6. FilesHaveNoGap /\ RoundsListed
  BY <1>2, <1>3, <1>5 DEF FilesHaveNoGap, RoundsListed, Rounds
<1>7. PickIsFree
  BY <1>1 DEF PickIsFree
<1>8. HistorySound
  BY Roles, <1>2, <1>4 DEF HistorySound, Recorded
<1>9. CommitSound
  <2>1. \A s \in SegmentJobs : \A i \in 1..Len(session.rounds) : ~IsListed(i, s)
    BY Roles, <1>2, <1>3, <1>5 DEF IsListed
  <2> QED BY <1>1, <2>1 DEF CommitSound
<1> QED BY <1>6, <1>7, <1>8, <1>9 DEF Committed

LEMMA ListedOnceIsOne ==
  ASSUME NEW s \in SegmentJobs, ListedOnce(s)
  PROVE  Cardinality({i \in 1..Len(session.rounds) :
                         round_files[session.rounds[i]].job = s}) = 1
<1>1. PICK i \in 1..Len(session.rounds) :
          IsListed(i, s) /\ \A k \in 1..Len(session.rounds) : IsListed(k, s) => k = i
  BY DEF ListedOnce
<1>2. {k \in 1..Len(session.rounds) : round_files[session.rounds[k]].job = s} = {i}
  BY <1>1 DEF IsListed
<1> QED BY <1>2, FS_Singleton

-----------------------------------------------------------------------------
(* Trials and lineage.                                                      *)

Tracked == {"waiting", "training"} \cup Evolved

EvolutionFrame ==
    /\ UNCHANGED <<checkpoint, lineage, gp, store, crashes>>
    /\ session'.trials = session.trials
    /\ \A s \in SegmentJobs :
          /\ pc'[s] \in Tracked => pc'[s] = pc[s]
          /\ pc[s] \in Saving => pc'[s] = pc[s]

LEMMA FrameEvolution == Evolution /\ EvolutionFrame => Evolution'
<1> SUFFICES ASSUME Evolution, EvolutionFrame PROVE Evolution'
  OBVIOUS
<1> USE DEF Evolution, EvolutionFrame, Tracked, Evolved, Saving
<1>1. TrialsSound'
  BY DEF TrialsSound
<1>2. LineageSound'
  BY DEF LineageSound
<1> QED BY <1>1, <1>2

LEMMA RequestEvolution ==
  ASSUME Typed, Reservation, Evolution, NEW s \in SegmentJobs,
         \/ CheckIdle(s) \/ ClaimSegment(s) \/ ReloadReservation(s)
         \/ SaveSettings(s) \/ SubmitSegment(s)
         \/ BeginSegment(s) \/ LoadForSegment(s) \/ AbandonSegment(s)
         \/ FinishSegment(s)
         \/ Settle(s) /\ UNCHANGED segmentLocals
         \/ Stop(s) /\ UNCHANGED segmentLocals
  PROVE  EvolutionFrame
<1> USE Roles DEF Typed, SegmentsTypeOK, EvolutionFrame, Goto, segmentLocals, disk, memory,
            Tracked, Evolved, Saving
<1>1. CASE CheckIdle(s) \/ ReloadReservation(s) \/ LoadForSegment(s)
  BY <1>1 DEF CheckIdle, ReloadReservation, LoadForSegment, LoadSession
<1>2. CASE ClaimSegment(s)
  <2>1. session'.trials = session.trials
    BY <1>2, ClaimEffect DEF ClaimSegment
  <2> QED BY <1>2, <2>1 DEF ClaimSegment
<1>3. CASE SaveSettings(s)
  <2>1. session' = [session EXCEPT !.settings = s]
    BY <1>3 DEF SaveSettings, Reservation, CopyIsCurrent, Copied
  <2>2. session'.trials = session.trials
    BY <2>1 DEF SessionType
  <2> QED BY <1>3, <2>2 DEF SaveSettings
<1>4. CASE SubmitSegment(s)
  BY <1>4 DEF SubmitSegment, Submitted
<1>5. CASE BeginSegment(s) \/ AbandonSegment(s)
  BY <1>5 DEF BeginSegment, AbandonSegment, Unwinding
<1>6. CASE FinishSegment(s)
  <2>1. session'.trials = session.trials
    BY <1>6, FinishEffect
  <2> QED BY <1>6, <2>1 DEF FinishSegment
<1>7. CASE Settle(s) /\ UNCHANGED segmentLocals
  BY <1>7 DEF Settle
<1>8. CASE Stop(s) /\ UNCHANGED segmentLocals
  BY <1>8 DEF Stop
<1> QED BY <1>1, <1>2, <1>3, <1>4, <1>5, <1>6, <1>7, <1>8

LEMMA PollEvolution ==
  ASSUME Typed, Reservation, NEW t \in SegmentJobs \cup Watchers,
         ClearReservation(t) \/ (t \in Watchers /\ NoticeDead(t))
  PROVE  EvolutionFrame
<1>1. \A s \in SegmentJobs : pc'[s] = pc[s] \/ (pc[s] = "clearing" /\ pc'[s] = "checked")
  BY Roles DEF ClearReservation, NoticeDead, Goto, Typed, SegmentsTypeOK
<1>2. session'.trials = session.trials
  BY ClearEffect DEF NoticeDead
<1>3. UNCHANGED <<checkpoint, lineage, gp, store, crashes>>
  BY DEF ClearReservation, NoticeDead, disk, memory
<1> QED BY <1>1, <1>2, <1>3 DEF EvolutionFrame, Tracked, Evolved, Saving

(* While one segment holds the reservation no other is at such a stage, so  *)
(* a step of it is judged by its own stage alone.                           *)
LEMMA Alone ==
  ASSUME Typed, Reservation, NEW s \in SegmentJobs, NEW to,
         pc[s] \in Holding, Goto(s, to)
  PROVE  /\ pc'[s] = to
         /\ \A t \in SegmentJobs : t # s =>
               /\ pc'[t] \notin Tracked \cup Saving
               /\ pc[t] \notin Tracked \cup Saving
<1>1. \A t \in SegmentJobs : t # s => pc[t] \notin Holding
  BY OneHolder DEF Reservation
<1>2. Tracked \cup Saving \subseteq Holding
  BY DEF Tracked, Evolved, Saving, Holding, Working
<1>3. pc'[s] = to /\ \A t \in SegmentJobs : t # s => pc'[t] = pc[t]
  BY Roles DEF Goto, Typed, SegmentsTypeOK
<1> QED BY <1>1, <1>2, <1>3

LEMMA LeaseEvolution ==
  ASSUME Typed, Reservation, Evolution, NEW s \in SegmentJobs,
         SaveMigrated(s) \/ EnterLease(s)
  PROVE  Evolution'
<1> USE DEF Evolution, TrialsSound, LineageSound, Tracked, Evolved, Saving
<1>1. CASE SaveMigrated(s)
  <2>1. /\ pc[s] = "loaded" /\ session' = session
        /\ UNCHANGED <<checkpoint, lineage, gp, crashes>>
        /\ store' = [store EXCEPT ![s] = lineage]
    BY <1>1 DEF SaveMigrated, disk, Reservation, CopyIsCurrent, Copied
  <2>2. PICK to \in {"unwinding", "waiting"} : Goto(s, to)
    BY <1>1 DEF SaveMigrated, Unwinding
  <2>3. /\ pc'[s] = to
        /\ \A t \in SegmentJobs : t # s => /\ pc'[t] \notin Tracked \cup Saving
                                         /\ pc[t] \notin Tracked \cup Saving
    BY <2>1, <2>2, Alone DEF Holding, Working
  <2>4. store'[s] = lineage
    BY <2>1 DEF Typed, SegmentsTypeOK
  <2> QED BY <2>1, <2>2, <2>3, <2>4
<1>2. CASE EnterLease(s)
  <2>1. /\ pc[s] = "waiting" /\ session' = session
        /\ UNCHANGED <<checkpoint, lineage, store, crashes>>
        /\ gp' = [gp EXCEPT ![s] = checkpoint]
    BY <1>2 DEF EnterLease, disk
  <2>2. PICK to \in {"unwinding", "training"} : Goto(s, to)
    BY <1>2 DEF EnterLease, Unwinding
  <2>3. /\ pc'[s] = to
        /\ \A t \in SegmentJobs : t # s => /\ pc'[t] \notin Tracked \cup Saving
                                         /\ pc[t] \notin Tracked \cup Saving
    BY <2>1, <2>2, Alone DEF Holding, Working
  <2>4. gp'[s] = checkpoint
    BY <2>1 DEF Typed, SegmentsTypeOK
  <2> QED BY <2>1, <2>2, <2>3, <2>4
<1> QED BY <1>1, <1>2

(* A generation is bred from, and traced to, the last one recorded.         *)
LEMMA EvolveEvolution ==
  ASSUME Typed, Reservation, Evolution, NEW s \in SegmentJobs, Evolve(s)
  PROVE  Evolution'
<1>1. /\ pc[s] = "training" /\ Goto(s, "trained")
      /\ UNCHANGED <<session, checkpoint, lineage, crashes>>
  BY DEF Evolve, disk
<1>2. /\ pc'[s] = "trained"
      /\ \A t \in SegmentJobs : t # s => /\ pc'[t] \notin Tracked \cup Saving
                                       /\ pc[t] \notin Tracked \cup Saving
  BY <1>1, Alone DEF Holding, Working
<1> DEFINE cold == IF gp[s].gens = 0 THEN 1 ELSE 0
           before == gp[s].gens + cold
           traced == store[s].gens + cold
<1>3. PICK born \in {0, 1} :
          /\ gp' = [gp EXCEPT ![s].gens = before + born, ![s].trials = @ + cold + born]
          /\ store' = [store EXCEPT
                ![s].gens = IF born = 1 THEN before + 1 ELSE traced,
                ![s].sound = @ /\ (born = 1 => traced = before)]
  BY DEF Evolve
<1>4. gp \in [SegmentJobs -> CheckpointType] /\ store \in [SegmentJobs -> LineageType]
  BY DEF Typed, SegmentsTypeOK
<1>5. cold \in {0, 1} /\ gp[s].gens \in Nat /\ gp[s].trials \in Nat /\ store[s].gens \in Nat
  BY <1>4 DEF CheckpointType, LineageType
<1>6. /\ gp'[s].gens = before + born /\ gp'[s].trials = gp[s].trials + cold + born
      /\ gp'[s].torn = gp[s].torn
  <2> HIDE DEF cold, before
  <2> QED BY <1>3, <1>4 DEF CheckpointType
<1>7. /\ store'[s].gens = IF born = 1 THEN before + 1 ELSE traced
      /\ (store[s].sound /\ (born = 1 => traced = before)) => store'[s].sound
      /\ store'[s].torn = store[s].torn
  <2> HIDE DEF before, traced
  <2> QED BY <1>3, <1>4 DEF LineageType
<1>8. TrialsSound'
  <2>1. session.trials <= gp[s].trials /\ session.trials \in Nat
    BY <1>1 DEF Evolution, TrialsSound, Typed, SegmentsTypeOK, SessionType
  <2>2. session.trials <= gp'[s].trials
    BY <1>5, <1>6, <2>1
  <2> QED BY <1>1, <1>2, <2>2 DEF Evolution, TrialsSound, Tracked, Evolved
<1>9. LineageSound'
  <2>1. CASE crashes = 0
    <3>1. /\ lineage.sound /\ ~checkpoint.torn /\ ~lineage.torn
          /\ checkpoint.gens = lineage.gens
          /\ store[s] = lineage /\ gp[s] = checkpoint
      BY <1>1, <1>2, <2>1 DEF Evolution, LineageSound, Saving
    <3>2. /\ ~gp'[s].torn /\ ~store'[s].torn /\ store'[s].sound
          /\ gp'[s].gens = store'[s].gens
      BY <1>5, <1>6, <1>7, <3>1
    <3> QED BY <1>1, <1>2, <3>1, <3>2 DEF LineageSound, Tracked, Evolved, Saving
  <2>2. CASE crashes # 0
    BY <1>1, <2>2 DEF LineageSound
  <2> QED BY <2>1, <2>2
<1> QED BY <1>8, <1>9 DEF Evolution

LEMMA SavingEvolution ==
  ASSUME Typed, Reservation, Evolution, NEW s \in SegmentJobs,
         \/ TruncateCheckpoint(s) \/ WriteCheckpoint(s) \/ TruncateLineage(s)
         \/ WriteLineage(s) \/ SelectCandidate(s) \/ PickRound(s) \/ WriteRound(s)
  PROVE  Evolution'
<1>1. UNCHANGED <<session, gp, store, crashes>>
  BY DEF TruncateCheckpoint, WriteCheckpoint, TruncateLineage, WriteLineage,
         SelectCandidate, PickRound, WriteRound, memory, segmentLocals
<1>2. /\ checkpoint \in CheckpointType /\ lineage \in LineageType
      /\ gp[s] \in CheckpointType /\ store[s] \in LineageType
  BY DEF Typed, SegmentsTypeOK
<1>3. PICK to : Goto(s, to)
  BY DEF TruncateCheckpoint, WriteCheckpoint, TruncateLineage, WriteLineage,
         SelectCandidate, PickRound, WriteRound
<1>4. pc[s] \in Evolved
  BY DEF TruncateCheckpoint, WriteCheckpoint, TruncateLineage, WriteLineage,
         SelectCandidate, PickRound, WriteRound, Evolved
<1>5. /\ pc'[s] = to
      /\ \A t \in SegmentJobs : t # s => /\ pc'[t] \notin Tracked \cup Saving
                                       /\ pc[t] \notin Tracked \cup Saving
  BY <1>3, <1>4, Alone DEF Holding, Working, Evolved
<1> USE <1>1, <1>5 DEF Evolution, TrialsSound, LineageSound, Tracked, Evolved, Saving
<1>6. CASE TruncateCheckpoint(s)
  <2>1. /\ checkpoint' = [checkpoint EXCEPT !.torn = TRUE] /\ lineage' = lineage
        /\ \/ pc[s] = "trained" /\ pc'[s] = "checkpointing"
           \/ pc[s] = "validated" /\ pc'[s] = "rescoring"
    BY Roles, <1>6 DEF TruncateCheckpoint, Goto, Typed, SegmentsTypeOK
  <2>2. checkpoint'.trials = checkpoint.trials
    BY <1>2, <2>1 DEF CheckpointType
  <2>3. TrialsSound'
    BY <2>1, <2>2
  <2>4. LineageSound'
    BY <2>1
  <2> QED BY <2>3, <2>4
<1>7. CASE WriteCheckpoint(s)
  <2>1. /\ checkpoint' = gp[s] /\ lineage' = lineage
        /\ \/ pc[s] = "checkpointing" /\ pc'[s] = "checkpointed"
           \/ pc[s] = "rescoring" /\ pc'[s] = "scored"
    BY Roles, <1>7 DEF WriteCheckpoint, Goto, Typed, SegmentsTypeOK
  <2>2. TrialsSound'
    BY <2>1
  <2>3. LineageSound'
    BY <2>1
  <2> QED BY <2>2, <2>3
<1>8. CASE TruncateLineage(s)
  <2>1. /\ lineage' = [lineage EXCEPT !.torn = TRUE] /\ checkpoint' = checkpoint
        /\ pc[s] = "checkpointed" /\ pc'[s] = "tracing"
    BY Roles, <1>8 DEF TruncateLineage, Goto, Typed, SegmentsTypeOK
  <2>2. lineage'.sound = lineage.sound
    BY <1>2, <2>1 DEF LineageType
  <2> QED BY <2>1, <2>2
<1>9. CASE WriteLineage(s)
  <2>1. /\ lineage' = store[s] /\ checkpoint' = checkpoint
        /\ pc[s] = "tracing" /\ pc'[s] = "traced"
    BY Roles, <1>9 DEF WriteLineage, Goto, Typed, SegmentsTypeOK
  <2> QED BY <2>1
<1>10. CASE SelectCandidate(s) \/ PickRound(s) \/ WriteRound(s)
  <2>1. /\ UNCHANGED <<checkpoint, lineage>>
        /\ \/ pc[s] = "traced" /\ pc'[s] = "validated"
           \/ pc[s] = "scored" /\ pc'[s] = "picked"
           \/ pc[s] = "picked" /\ pc'[s] = "written"
    BY Roles, <1>10 DEF SelectCandidate, PickRound, WriteRound, Goto, segmentLocals, disk,
                        Typed, SegmentsTypeOK
  <2> QED BY <2>1
<1> QED BY <1>6, <1>7, <1>8, <1>9, <1>10

LEMMA CommitEvolution ==
  ASSUME Typed, Reservation, Evolution, NEW s \in SegmentJobs, SaveSegment(s)
  PROVE  Evolution' /\ session'.trials >= session.trials
<1>1. /\ pc[s] = "written" /\ Goto(s, "saved")
      /\ UNCHANGED <<checkpoint, lineage, gp, store, crashes>>
  BY DEF SaveSegment, segmentLocals, disk, memory
<1>2. /\ pc'[s] = "saved"
      /\ \A t \in SegmentJobs : t # s => pc'[t] \notin Tracked \cup Saving
  BY <1>1, Alone DEF Holding, Working
<1>3. session'.trials = gp[s].trials /\ checkpoint = gp[s] /\ session.trials <= gp[s].trials
  BY <1>1, SaveEffect DEF Evolution, TrialsSound, Evolved
<1>4. gp[s].trials \in Nat /\ session.trials \in Nat
  BY DEF Typed, SegmentsTypeOK, CheckpointType, SessionType
<1>5. TrialsSound'
  BY <1>1, <1>2, <1>3, <1>4 DEF TrialsSound, Tracked, Evolved
<1>6. LineageSound'
  <2>1. \A t \in SegmentJobs : t # s => pc[t] \notin Saving
    BY <1>1, Alone DEF Holding, Working
  <2> QED BY <1>1, <1>2, <2>1 DEF Evolution, LineageSound, Tracked, Evolved, Saving
<1> QED BY <1>3, <1>4, <1>5, <1>6 DEF Evolution

LEMMA CrashEvolution ==
  ASSUME Typed, Evolution, SegmentsCrash
  PROVE  Evolution'
<1>1. \A s \in SegmentJobs : pc'[s] = IF pc[s] \in Resting THEN pc[s] ELSE "dead"
  BY Roles DEF SegmentsCrash, Crash
<1>2. UNCHANGED <<session, checkpoint, lineage, gp, store>>
  BY DEF SegmentsCrash, Crash, disk, memory
<1>3. crashes' # 0
  BY SessionAssumption DEF SegmentsCrash, Crash, Typed, SegmentsTypeOK
<1> QED BY <1>1, <1>2, <1>3 DEF Evolution, TrialsSound, LineageSound, Evolved, Resting

LEMMA NextEvolution ==
  ASSUME Typed, Reservation, Evolution, [SegmentsNext]_segmentVars
  PROVE  Evolution'
<1>1. CASE SegmentsStep
  <2>1. ASSUME NEW s \in SegmentJobs,
               CheckIdle(s) \/ SegmentProgress(s) \/ (Stop(s) /\ UNCHANGED segmentLocals)
        PROVE  Evolution'
    BY <2>1, FrameEvolution, RequestEvolution, PollEvolution, LeaseEvolution, EvolveEvolution,
       SavingEvolution, CommitEvolution DEF SegmentProgress
  <2>2. ASSUME NEW w \in Watchers, NoticeDead(w) \/ ClearReservation(w)
        PROVE  Evolution'
    BY <2>2, FrameEvolution, PollEvolution
  <2> QED BY <1>1, <2>1, <2>2 DEF SegmentsStep
<1>2. CASE SegmentsCrash
  BY <1>2, CrashEvolution
<1>3. CASE UNCHANGED segmentVars
  <2>1. EvolutionFrame
    BY <1>3 DEF segmentVars, docVars, segmentLocals, disk, memory, EvolutionFrame
  <2> QED BY <2>1, FrameEvolution
<1> QED BY <1>1, <1>2, <1>3 DEF SegmentsNext

LEMMA InitEvolution == SegmentsInit => Evolution
<1> SUFFICES ASSUME SegmentsInit PROVE Evolution
  OBVIOUS
<1>1. \A s \in SegmentJobs : pc[s] = "idle"
  BY Roles DEF SegmentsInit, DocInit
<1>2. TrialsSound
  <2>1. session.trials = InitialRounds /\ checkpoint.trials = InitialRounds
    BY DEF SegmentsInit, DocInit
  <2> QED BY <1>1, <2>1, SessionAssumption DEF TrialsSound, Evolved
<1>3. LineageSound
  BY <1>1 DEF SegmentsInit, LineageSound, Evolved
<1> QED BY <1>2, <1>3 DEF Evolution

-----------------------------------------------------------------------------
(* The inductive invariant, and what follows from it.                       *)

LEMMA Inductive ==
  ASSUME ~RequestsOverlap
  PROVE  SegmentsSpec => []IInv
<1>1. SegmentsInit => IInv
  BY InitTyped, InitReservation, InitCommitted, InitEvolution DEF IInv
<1>2. IInv /\ [SegmentsNext]_segmentVars => IInv'
  BY NextTyped, NextReservation, NextCommitted, NextEvolution DEF IInv
<1> QED BY <1>1, <1>2, PTL DEF SegmentsSpec

(* "Atomically reserve a session for one queued/running segment"            *)
(* (sessions.py 1371): two segments never work on the session at once.      *)
THEOREM ReservationCorrect ==
  ASSUME ~RequestsOverlap
  PROVE  SegmentsSpec => []OneSegmentAtATime
<1>1. IInv => OneSegmentAtATime
  BY OneHolder DEF IInv, Reservation, OneSegmentAtATime, Holding
<1> QED BY <1>1, Inductive, PTL

(* The rounds a session lists are distinct files in the order they were     *)
(* committed, a job reported done committed exactly one, and the history    *)
(* has no job twice.                                                        *)
THEOREM AccountCorrect ==
  ASSUME ~RequestsOverlap
  PROVE  SegmentsSpec => []RoundsAccounted
<1>1. IInv => RoundsAccounted
  BY ListedOnceIsOne
     DEF IInv, Committed, RoundsListed, HistorySound, CommitSound, RoundsAccounted
<1> QED BY <1>1, Inductive, PTL

(* Unless the process exited, checkpoint and lineage are whole and of the   *)
(* same generation whenever no segment is saving them.                      *)
THEOREM LineageCorrect ==
  ASSUME ~RequestsOverlap
  PROVE  SegmentsSpec => []LineageFollowsCheckpoint
<1>1. IInv => LineageFollowsCheckpoint
  BY DEF IInv, Evolution, LineageSound, LineageFollowsCheckpoint, Saving
<1> QED BY <1>1, Inductive, PTL

LEMMA RoundFilesKept ==
  ASSUME Typed, Committed, [SegmentsNext]_segmentVars, NEW r \in Rounds,
         round_files[r].exists
  PROVE  round_files'[r] = round_files[r]
<1>1. CASE \E s \in SegmentJobs : WriteRound(s)
  <2>1. PICK s \in SegmentJobs : WriteRound(s)
    BY <1>1
  <2>2. /\ ~round_files[index[s]].exists
        /\ \E file : round_files' = [round_files EXCEPT ![index[s]] = file]
    BY <2>1 DEF WriteRound, Committed, PickIsFree
  <2> QED BY <2>2 DEF Typed, SegmentsTypeOK
<1>2. CASE ~\E s \in SegmentJobs : WriteRound(s)
  <2>1. CASE UNCHANGED segmentVars
    BY <2>1 DEF segmentVars, docVars
  <2>2. CASE SegmentsCrash
    BY <2>2 DEF SegmentsCrash, Crash, files
  <2>3. CASE SegmentsStep
    BY <1>2, <2>3
       DEF SegmentsStep, SegmentProgress, files, CheckIdle, ClearReservation,
           ClaimSegment, ReloadReservation, LoadSession, SaveSettings, SubmitSegment,
           BeginSegment, LoadForSegment, SaveMigrated, EnterLease, Evolve,
           AbandonSegment, TruncateCheckpoint, WriteCheckpoint, TruncateLineage,
           WriteLineage, SelectCandidate, PickRound, SaveSegment, FinishSegment,
           Settle, Stop, NoticeDead
  <2> QED BY <2>1, <2>2, <2>3 DEF SegmentsNext
<1> QED BY <1>1, <1>2

LEMMA TrialsKept ==
  ASSUME Typed, Reservation, Evolution, [SegmentsNext]_segmentVars
  PROVE  session'.trials >= session.trials
<1>0. session.trials \in Nat
  BY DEF Typed, SegmentsTypeOK, SessionType
<1>1. EvolutionFrame => session'.trials >= session.trials
  BY <1>0 DEF EvolutionFrame
<1>2. session' = session => session'.trials >= session.trials
  BY <1>0
<1>3. CASE SegmentsStep
  <2>1. ASSUME NEW s \in SegmentJobs,
               CheckIdle(s) \/ SegmentProgress(s) \/ (Stop(s) /\ UNCHANGED segmentLocals)
        PROVE  session'.trials >= session.trials
    <3>1. CASE \/ SaveMigrated(s) \/ EnterLease(s) \/ Evolve(s)
               \/ TruncateCheckpoint(s) \/ WriteCheckpoint(s) \/ TruncateLineage(s)
               \/ WriteLineage(s) \/ SelectCandidate(s) \/ PickRound(s) \/ WriteRound(s)
      <4>1. session' = session
        BY <3>1 DEF SaveMigrated, EnterLease, Evolve, TruncateCheckpoint, WriteCheckpoint,
           TruncateLineage, WriteLineage, SelectCandidate, PickRound, WriteRound,
           Reservation, CopyIsCurrent, Copied
      <4> QED BY <1>2, <4>1
    <3>2. CASE SaveSegment(s)
      BY <3>2, CommitEvolution
    <3>3. CASE ClearReservation(s)
      BY <1>1, <3>3, PollEvolution
    <3> QED BY <1>1, <2>1, <3>1, <3>2, <3>3, RequestEvolution DEF SegmentProgress
  <2>2. ASSUME NEW w \in Watchers, NoticeDead(w) \/ ClearReservation(w)
        PROVE  session'.trials >= session.trials
    BY <1>1, <2>2, PollEvolution
  <2> QED BY <1>3, <2>1, <2>2 DEF SegmentsStep
<1>4. CASE SegmentsCrash \/ UNCHANGED segmentVars
  <2>1. session' = session
    BY <1>4 DEF SegmentsCrash, Crash, segmentVars, docVars
  <2> QED BY <1>2, <2>1
<1> QED BY <1>3, <1>4 DEF SegmentsNext

(* Cumulative trials never fall and a written round stays as it is, across  *)
(* failures, stops and exits.                                               *)
THEOREM TrialsAndRoundsCorrect ==
  ASSUME ~RequestsOverlap
  PROVE  SegmentsSpec => TrialsAndRoundsKept
<1>1. IInv /\ [SegmentsNext]_segmentVars
        => [/\ session'.trials >= session.trials
            /\ \A r \in Rounds : round_files[r].exists => round_files'[r] = round_files[r]
           ]_segmentVars
  BY RoundFilesKept, TrialsKept DEF IInv
<1> QED BY <1>1, Inductive, PTL DEF SegmentsSpec, TrialsAndRoundsKept
=============================================================================
