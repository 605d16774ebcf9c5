------------------------ MODULE SessionEvidence_proofs ------------------------
(***************************************************************************)
(* The safety of a session's evidence for any requests, holdouts, rounds   *)
(* and number of exits, and that it implements the abstract ledger.         *)
(***************************************************************************)
EXTENDS SessionEvidence, FiniteSetTheorems, TLAPS

-----------------------------------------------------------------------------
(* The plan a claim records is named by the request or by round and holdout. *)
LEMMA NoneIsNoPlan == None \notin PlanIds /\ None \notin Threads
  BY SessionAssumption

LEMMA CompatPlanType ==
  ASSUME NEW r \in Rounds, NEW fp \in Fingerprints
  PROVE  CompatPlan(r, fp) \in PlanIds
  BY DEF CompatPlan, PlanIds

LEMMA Roles ==
    /\ FinalizeJobs \cup ComparisonJobs \subseteq Jobs
    /\ Jobs \cup PlanRequests \cup Watchers \subseteq Threads
    /\ FinalizeJobs \cap (ComparisonJobs \cup PlanRequests \cup Watchers) = {}
    /\ ComparisonJobs \cap (PlanRequests \cup Watchers) = {}
    /\ PlanRequests \cap Watchers = {}
  BY SessionAssumption DEF Jobs, Threads

(* Whoever claimed knows its plan. *)
RequestPlanned ==
    \A f \in FinalizeJobs : pc[f] # "idle" => request[f].plan # None

Typed == EvidenceTypeOK /\ RequestPlanned

LEMMA FinalizeType ==
  ASSUME Typed, NEW f \in FinalizeJobs,
         ClaimFinalization(f) \/ WriteCompatPlan(f) \/ FinalizeProgress(f)
  PROVE  Typed'
<1> USE DEF Typed, RequestPlanned, EvidenceTypeOK, evidenceLocals, EvidenceStages,
            Goto, files
<1>1. CASE ClaimFinalization(f)
  <2>0. PICK q \in RequestType :
          request' = [request EXCEPT ![f] = [q EXCEPT !.plan =
             IF q.plan # None THEN q.plan ELSE CompatPlan(q.round, q.fp)]]
    BY Roles, <1>1 DEF ClaimFinalization
  <2>1. request' \in [FinalizeJobs -> RequestType] /\ request'[f].plan # None
    BY <2>0, CompatPlanType, NoneIsNoPlan DEF RequestType
  <2>2. session' \in SessionType
    BY Roles, <1>1 DEF ClaimFinalization, SessionType
  <2>3. RequestPlanned'
    BY Roles, <1>1, <2>0, <2>1 DEF ClaimFinalization
  <2> QED BY Roles, <1>1, <2>1, <2>2, <2>3 DEF ClaimFinalization
<1>2. CASE WriteCompatPlan(f)
  <2>1. PICK q \in RequestType :
          LET p == CompatPlan(q.round, q.fp)
          IN  /\ request' = [request EXCEPT ![f] = [q EXCEPT !.plan = p]]
              /\ plan_files' = [plan_files EXCEPT ![p] =
                    [exists |-> TRUE, round |-> q.round, fp |-> q.fp,
                     adaptive |-> session.reads > 0, comparison |-> None]]
    BY Roles, <1>2 DEF WriteCompatPlan
  <2>2. CompatPlan(q.round, q.fp) \in PlanIds
    BY CompatPlanType DEF RequestType
  <2>3. request' \in [FinalizeJobs -> RequestType] /\ RequestPlanned'
    BY Roles, <1>2, <2>1, <2>2, NoneIsNoPlan DEF WriteCompatPlan, RequestType
  <2>4. plan_files' \in [PlanIds -> PlanType]
    BY <2>1, <2>2 DEF RequestType, PlanType, SessionType
  <2> QED BY Roles, <1>2, <2>3, <2>4 DEF WriteCompatPlan
<1>3. CASE SaveFinalizationClaim(f)
  <2>0. request[f].plan \in PlanIds
    BY Roles, <1>3 DEF SaveFinalizationClaim, RequestType
  <2>1. session' \in SessionType
    BY Roles, <1>3, <2>0 DEF SaveFinalizationClaim, SessionType
  <2> QED BY Roles, <1>3, <2>1 DEF SaveFinalizationClaim
<1>4. CASE SubmitFinalization(f)
  <2>1. resolved' \in [FinalizeJobs -> PlanIds \cup {None}]
    BY Roles, <1>4 DEF SubmitFinalization, SessionType, RequestType
  <2>2. /\ pc' \in [Threads -> EvidenceStages] /\ jobs' \in [Jobs -> JobStatuses]
        /\ outcome' \in [Jobs -> {"done", "stopped", "failed", "unstarted"}]
    BY Roles, <1>4 DEF SubmitFinalization, Submitted, JobStatuses
  <2>3. RequestPlanned'
    BY Roles, <1>4 DEF SubmitFinalization, Submitted
  <2> QED BY Roles, <1>4, <2>1, <2>2, <2>3 DEF SubmitFinalization
<1>5. CASE BeginFinalization(f) \/ ReadHoldout(f) \/ AbandonFinalization(f)
  <2>1. /\ pc' \in [Threads -> EvidenceStages] /\ jobs' \in [Jobs -> JobStatuses]
        /\ outcome' \in [Jobs -> {"done", "stopped", "failed", "unstarted"}]
    BY Roles, <1>5 DEF BeginFinalization, ReadHoldout, AbandonFinalization, Unwinding,
                      JobStatuses
  <2>2. RequestPlanned'
    BY Roles, <1>5 DEF BeginFinalization, ReadHoldout, AbandonFinalization, Unwinding
  <2> QED
    BY Roles, <1>5, <2>1, <2>2 DEF BeginFinalization, ReadHoldout, AbandonFinalization
<1>6. CASE PublishFinalization(f)
  <2>1. CASE Reserved(f) /\ ~final_files[f].exists
    <3> DEFINE q == request[f]
               Sig(found) == /\ found /\ session.reads = 0
                             /\ ~round_files[q.round].adaptive
                             /\ ~plan_files[q.plan].adaptive
    <3>1. /\ q.round \in Rounds /\ q.fp \in Fingerprints /\ q.confirm \in BOOLEAN
          /\ q.plan \in PlanIds /\ session.reads + 1 \in Nat
          /\ session.counts[q.fp] + 1 \in Nat
      BY Roles, <1>6 DEF PublishFinalization, RequestType, SessionType
    <3>2. \A found \in BOOLEAN : Sig(found) \in BOOLEAN
      OBVIOUS
    <3>3. final_files' \in [FinalizeJobs -> FinalType]
      <4> HIDE DEF Sig
      <4>1. PICK found \in BOOLEAN : final_files' = [final_files EXCEPT ![f] =
                      [exists |-> TRUE, round |-> q.round, plan |-> q.plan,
                       fp |-> q.fp, index |-> session.reads + 1,
                       same |-> session.counts[q.fp] + 1, first |-> session.reads = 0,
                       consent |-> q.confirm, significant |-> Sig(found)]]
        BY <1>6, <2>1 DEF PublishFinalization, Sig
      <4> QED BY <3>1, <3>2, <4>1 DEF FinalType
    <3> QED BY Roles, <1>6, <2>1, <3>3 DEF PublishFinalization
  <2>2. CASE ~(Reserved(f) /\ ~final_files[f].exists)
    BY Roles, <1>6, <2>2 DEF PublishFinalization, Unwinding
  <2> QED BY <2>1, <2>2
<1>7. CASE CountFinalization(f)
  <2>1. /\ final_files[f].index \in Nat /\ final_files[f].same \in Nat
        /\ final_files[f].fp \in Fingerprints
    BY DEF FinalType
  <2>2. session' \in SessionType
    <3>1. Append(session.finalizations, f) \in Seq(FinalizeJobs)
      BY DEF SessionType
    <3>2. [session.counts EXCEPT ![final_files[f].fp] = final_files[f].same]
            \in [Fingerprints -> Nat]
      BY <2>1 DEF SessionType
    <3> QED BY <1>7, <2>1, <3>1, <3>2 DEF CountFinalization, SessionType
  <2> QED BY Roles, <1>7, <2>2 DEF CountFinalization
<1>8. CASE UnwindFinalization(f)
  <2>1. session' \in SessionType
    BY Roles, <1>8 DEF UnwindFinalization, SessionType
  <2> QED BY Roles, <1>8, <2>1 DEF UnwindFinalization
<1>9. CASE Settle(f) /\ UNCHANGED evidenceLocals
  BY Roles, <1>9 DEF Settle, JobStatuses
<1> QED
  BY Roles, <1>1, <1>2, <1>3, <1>4, <1>5, <1>6, <1>7, <1>8, <1>9 DEF FinalizeProgress

LEMMA ComparisonRewritten ==
  ASSUME NEW old \in ComparisonType, NEW status \in {"done", "stopped", "failed"},
         NEW eligible \in BOOLEAN
  PROVE  [old EXCEPT !.status = status, !.eligible = eligible] \in ComparisonType
  BY DEF ComparisonType

LEMMA CompareType ==
  ASSUME Typed, NEW c \in ComparisonJobs,
         ClaimComparison(c) \/ CompareProgress(c)
  PROVE  Typed'
<1> USE DEF Typed, RequestPlanned, EvidenceTypeOK, evidenceLocals, EvidenceStages,
            Goto, files
<1>1. CASE ClaimComparison(c)
  <2>1. comparison_files' \in [ComparisonJobs -> ComparisonType]
    BY Roles, <1>1 DEF ClaimComparison, ComparisonType, RoundType, SessionType
  <2> QED BY Roles, <1>1, <2>1 DEF ClaimComparison
<1>2. CASE SaveComparisonClaim(c) \/ SaveComparison(c)
  <2>1. session' \in SessionType
    <3>1. CASE SaveComparisonClaim(c)
      BY <3>1 DEF SaveComparisonClaim, SessionType
    <3>2. CASE SaveComparison(c)
      BY <3>2 DEF SaveComparison, SessionType
    <3> QED BY <1>2, <3>1, <3>2
  <2> QED BY Roles, <1>2, <2>1 DEF SaveComparisonClaim, SaveComparison
<1>3. CASE SubmitComparison(c)
  BY Roles, <1>3 DEF SubmitComparison, Submitted, JobStatuses
<1>4. CASE BeginComparison(c)
  <2>1. comparison_files' \in [ComparisonJobs -> ComparisonType]
    <3>1. [comparison_files[c] EXCEPT !.status = "running"] \in ComparisonType
      BY DEF ComparisonType
    <3> QED BY <1>4, <3>1 DEF BeginComparison
  <2> QED BY Roles, <1>4, <2>1 DEF BeginComparison, JobStatuses
<1>5. CASE Compare(c) \/ AbandonComparison(c)
  BY Roles, <1>5 DEF Compare, AbandonComparison, Unwinding
<1>6. CASE WriteComparison(c)
  <2>1. comparison_files' \in [ComparisonJobs -> ComparisonType]
    <3> DEFINE Status == IF pc[c] = "computed" THEN "done"
                         ELSE IF outcome[c] = "stopped" THEN "stopped" ELSE "failed"
               Eligible(e) == pc[c] = "computed" /\ e
    <3>1. Status \in {"done", "stopped", "failed"}
      OBVIOUS
    <3>2. \A e \in BOOLEAN : Eligible(e) \in BOOLEAN
      OBVIOUS
    <3>3. PICK e \in BOOLEAN : comparison_files' = [comparison_files EXCEPT
             ![c].status = Status, ![c].eligible = Eligible(e)]
      BY <1>6 DEF WriteComparison
    <3> DEFINE eligible == Eligible(e)
    <3>4. eligible \in BOOLEAN
      BY <3>2
    <3>5. comparison_files' = [comparison_files EXCEPT ![c].status = Status, ![c].eligible = eligible]
      BY <3>3
    <3> HIDE DEF Status, eligible
    <3>6. [comparison_files[c] EXCEPT !.status = Status, !.eligible = eligible] \in ComparisonType
      BY <3>1, <3>4, ComparisonRewritten
    <3> QED BY <3>5, <3>6
  <2> QED BY Roles, <1>6, <2>1 DEF WriteComparison
<1>7. CASE Settle(c) /\ UNCHANGED evidenceLocals
  BY Roles, <1>7 DEF Settle, JobStatuses
<1> QED
  BY Roles, <1>1, <1>2, <1>3, <1>4, <1>5, <1>6, <1>7 DEF CompareProgress

LEMMA OtherType ==
  ASSUME Typed,
         \/ \E j \in FinalizeJobs \cup ComparisonJobs :
               Stop(j) /\ UNCHANGED evidenceLocals
         \/ \E p \in PlanRequests : WritePlan(p) \/ SavePlan(p)
         \/ \E w \in Watchers : NoticeStale(w) \/ ReleaseStale(w)
         \/ EvidenceCrash
         \/ UNCHANGED evidenceVars
  PROVE  Typed'
<1> USE DEF Typed, RequestPlanned, EvidenceTypeOK, evidenceLocals, EvidenceStages,
            Goto, files
<1>1. ASSUME NEW j \in FinalizeJobs \cup ComparisonJobs,
             Stop(j) /\ UNCHANGED evidenceLocals
      PROVE  Typed'
  BY Roles, <1>1 DEF Stop
<1>2. ASSUME NEW p \in PlanRequests, WritePlan(p) PROVE Typed'
  <2>1. p \in PlanIds BY DEF PlanIds
  <2>2. plan_files' \in [PlanIds -> PlanType]
    BY Roles, <1>2, <2>1 DEF WritePlan, PlanType, ComparisonType
  <2> QED BY Roles, <1>2, <2>2 DEF WritePlan
<1>3. ASSUME NEW p \in PlanRequests, SavePlan(p) PROVE Typed'
  <2>1. session' \in SessionType
    BY Roles, <1>3 DEF SavePlan, SessionType, PlanIds
  <2> QED BY Roles, <1>3, <2>1 DEF SavePlan
<1>4. ASSUME NEW w \in Watchers, NoticeStale(w) PROVE Typed'
  <2>1. session.active_final \in FinalizeJobs \cup {None}
    BY DEF SessionType
  <2> QED BY Roles, <1>4, <2>1 DEF NoticeStale
<1>5. ASSUME NEW w \in Watchers, ReleaseStale(w) PROVE Typed'
  <2>1. session' \in SessionType
    BY Roles, <1>5 DEF ReleaseStale, SessionType
  <2> QED BY Roles, <1>5, <2>1 DEF ReleaseStale
<1>6. CASE EvidenceCrash
  <2>1. pc' \in [Threads -> EvidenceStages]
    BY <1>6 DEF EvidenceCrash, Crash
  <2>2. RequestPlanned'
    BY Roles, <1>6 DEF EvidenceCrash, Crash, Resting
  <2>3. /\ crashes' \in 0..MaxCrashes /\ jobs' \in [Jobs -> JobStatuses]
        /\ cancelled' \subseteq Jobs /\ io_lock' \in Threads \cup {None}
        /\ watched' \in [Watchers -> FinalizeJobs \cup {None}]
    BY SessionAssumption, <1>6 DEF EvidenceCrash, Crash, JobStatuses
  <2> QED BY <1>6, <2>1, <2>2, <2>3 DEF EvidenceCrash, Crash
<1>7. CASE UNCHANGED evidenceVars
  BY Roles, <1>7 DEF evidenceVars, docVars
<1> QED
  BY Roles, <1>1, <1>2, <1>3, <1>4, <1>5, <1>6, <1>7
-----------------------------------------------------------------------------
(* A thread between the two writes of a commit is the one that holds the lock. *)
LockHolder ==
    \A t \in Threads : pc[t] \in {"claim_save", "commit_save"} <=> io_lock = t

(* A reservation, or one being saved, asked for consent in the session as it *)
(* still is: nobody counts a read while it stands.                           *)
ReservationConsents ==
    \A f \in FinalizeJobs :
        /\ session.active_final = f \/ pc[f] = "claim_save"
              => (ReadBefore(request[f].fp) => request[f].confirm)
        /\ pc[f] = "claim_save" => session.active_final = None

(* An artifact that is about to be counted carries the next numbers. *)
NextEntry(e) ==
    /\ e.exists
    /\ e.index = session.reads + 1
    /\ e.same = session.counts[e.fp] + 1
    /\ e.first <=> session.reads = 0
    /\ e.significant => e.first
    /\ ReadBefore(e.fp) => e.consent

CommitNumbered ==
    \A f \in FinalizeJobs :
        pc[f] = "commit_save" =>
            NextEntry(final_files[f]) /\ session.active_final = f /\ f \notin Counted

CountedExist == \A f \in Counted : final_files[f].exists

(* "done" is an outcome only of a read that is counted. *)
OutcomeKnown ==
    \A f \in FinalizeJobs :
        /\ pc[f] = "unwinding" => outcome[f] # "done"
        /\ pc[f] = "settling" /\ outcome[f] = "done" => f \in Counted

LedgerInv ==
    /\ LockHolder
    /\ ReservationConsents
    /\ CommitNumbered
    /\ CountedExist
    /\ OutcomeKnown
    /\ CounterIsExact
    /\ DoneMeansCounted

(* A compatibility plan is what its name says; a plan that names a comparison *)
(* names one that ended well.                                                 *)
PlansSound ==
    /\ \A r \in Rounds, fp \in Fingerprints :
          plan_files[CompatPlan(r, fp)].exists =>
              /\ plan_files[CompatPlan(r, fp)].round = r
              /\ plan_files[CompatPlan(r, fp)].fp = fp
    /\ \A p \in PlanIds :
          plan_files[p].exists /\ plan_files[p].comparison # None =>
              LET c == comparison_files[plan_files[p].comparison]
              IN  c.status = "done" /\ c.eligible /\ c.round = plan_files[p].round
    /\ \A p \in PlanRequests : pc[p] = "idle" => ~plan_files[p].exists

(* The plan a request was admitted with exists and is for its round and holdout. *)
PlanPinned ==
    \A f \in FinalizeJobs :
        pc[f] # "idle" =>
            LET p == plan_files[request[f].plan]
            IN  p.exists /\ p.round = request[f].round /\ p.fp = request[f].fp

ArtifactFollowsRequest ==
    \A f \in FinalizeJobs :
        final_files[f].exists =>
            /\ pc[f] # "idle"
            /\ final_files[f].plan = request[f].plan
            /\ final_files[f].round = request[f].round
            /\ final_files[f].fp = request[f].fp

(* A comparison whose job has not written its end has none. *)
ComparisonOpen ==
    \A c \in ComparisonJobs :
        pc[c] \notin {"commit_save", "settling", "finished", "dead"}
            => comparison_files[c].status \notin {"done", "stopped", "failed"}

PlanInv == PlansSound /\ PlanPinned /\ ArtifactFollowsRequest /\ ComparisonOpen

IInv == Typed /\ LedgerInv /\ PlanInv

LEMMA InitIInv == EvidenceInit => IInv
<1> SUFFICES ASSUME EvidenceInit PROVE IInv
  OBVIOUS
<1> USE SessionAssumption, NoneIsNoPlan DEF EvidenceInit, DocInit, LocalsInit
<1>0. AnyFingerprint \in Fingerprints
  BY DEF AnyFingerprint
<1>1. session \in SessionType
  <2>1. /\ InitialRounds \in Nat
        /\ [i \in 1..InitialRounds |-> i - 1] \in Seq(Rounds)
        /\ [i \in 1..InitialRounds |-> [job |-> None, status |-> "done"]] \in
              Seq([job : SegmentJobs \cup {None},
                   status : {"done", "stopped", "failed", "interrupted"}])
    BY DEF Rounds
  <2> QED BY <2>1 DEF SessionType
<1>2. /\ round_files \in [Rounds -> RoundType]
      /\ final_files \in [FinalizeJobs -> FinalType]
      /\ comparison_files \in [ComparisonJobs -> ComparisonType]
      /\ plan_files \in [PlanIds -> PlanType]
  BY <1>0 DEF Rounds, RoundType, NoRound, FinalType, NoFinal, ComparisonType,
              NoComparison, PlanType, NoPlan
<1>3. request \in [FinalizeJobs -> RequestType]
  BY <1>0 DEF RequestType, Rounds
<1>4. Typed
  <2>1. /\ io_lock \in Threads \cup {None} /\ jobs \in [Jobs -> JobStatuses]
        /\ cancelled \subseteq Jobs /\ crashes \in 0..MaxCrashes
        /\ outcome \in [Jobs -> {"done", "stopped", "failed", "unstarted"}]
    BY DEF JobStatuses
  <2>2. /\ pc \in [Threads -> EvidenceStages]
        /\ resolved \in [FinalizeJobs -> PlanIds \cup {None}]
        /\ watched \in [Watchers -> FinalizeJobs \cup {None}]
    BY DEF EvidenceStages
  <2>3. RequestPlanned
    BY Roles DEF RequestPlanned
  <2> QED
    BY ONLY <1>1, <1>2, <1>3, <2>1, <2>2, <2>3 DEF Typed, EvidenceTypeOK
<1>5. LedgerInv
  BY Roles DEF LedgerInv, LockHolder, ReservationConsents, CommitNumbered, CountedExist,
      Counted, OutcomeKnown, CounterIsExact, DoneMeansCounted
<1>6. PlanInv
  BY Roles DEF PlanInv, PlansSound, PlanPinned, ArtifactFollowsRequest, ComparisonOpen,
      NoFinal, NoComparison, NoPlan, CompatPlan, PlanIds
<1> QED BY <1>4, <1>5, <1>6 DEF IInv

-----------------------------------------------------------------------------
(* Steps that leave the ledger, its reservation and the finalizations alone.  *)
LedgerFrame ==
    /\ session'.reads = session.reads /\ session'.counts = session.counts
    /\ session'.finalizations = session.finalizations
    /\ session'.active_final = session.active_final
    /\ final_files' = final_files /\ request' = request
    /\ \A f \in FinalizeJobs :
          pc'[f] = pc[f] /\ outcome'[f] = outcome[f] /\ jobs'[f] = jobs[f]

LEMMA OthersFrame ==
  ASSUME Typed,
         \/ \E c \in ComparisonJobs : ClaimComparison(c) \/ CompareProgress(c)
         \/ \E j \in FinalizeJobs \cup ComparisonJobs :
               Stop(j) /\ UNCHANGED evidenceLocals
         \/ \E p \in PlanRequests : WritePlan(p) \/ SavePlan(p)
         \/ \E w \in Watchers : NoticeStale(w)
  PROVE  LedgerFrame
<1> USE Roles DEF Typed, EvidenceTypeOK, LedgerFrame, Goto, files, evidenceLocals, SessionType
<1>1. ASSUME NEW c \in ComparisonJobs, ClaimComparison(c) \/ CompareProgress(c)
      PROVE  LedgerFrame
  <2>0. CASE SaveComparisonClaim(c)
    BY <2>0 DEF SaveComparisonClaim
  <2>1. CASE SaveComparison(c)
    BY <2>1 DEF SaveComparison
  <2>2. CASE ClaimComparison(c) \/ SubmitComparison(c) \/ BeginComparison(c)
    BY <2>2 DEF ClaimComparison, SubmitComparison, Submitted, BeginComparison
  <2>3. CASE Compare(c) \/ AbandonComparison(c) \/ WriteComparison(c)
    BY <2>3 DEF Compare, AbandonComparison, Unwinding, WriteComparison
  <2>4. CASE Settle(c) /\ UNCHANGED evidenceLocals
    BY <2>4 DEF Settle
  <2> QED BY <1>1, <2>0, <2>1, <2>2, <2>3, <2>4 DEF CompareProgress
<1>2. ASSUME NEW j \in FinalizeJobs \cup ComparisonJobs,
             Stop(j) /\ UNCHANGED evidenceLocals
      PROVE  LedgerFrame
  BY <1>2 DEF Stop
<1>3. ASSUME NEW p \in PlanRequests, WritePlan(p) \/ SavePlan(p) PROVE LedgerFrame
  BY <1>3 DEF WritePlan, SavePlan
<1>4. ASSUME NEW w \in Watchers, NoticeStale(w) PROVE LedgerFrame
  BY <1>4 DEF NoticeStale
<1> QED BY <1>1, <1>2, <1>3, <1>4

LEMMA FrameKeepsLedger ==
  ASSUME Typed, LedgerInv, LedgerFrame, LockHolder'
  PROVE  LedgerInv'
<1> USE DEF LedgerInv, LedgerFrame
<1>1. ReservationConsents'
  BY DEF ReservationConsents, ReadBefore
<1>2. CommitNumbered'
  BY DEF CommitNumbered, NextEntry, ReadBefore, Counted
<1>3. CountedExist' /\ OutcomeKnown'
  BY DEF CountedExist, OutcomeKnown, Counted
<1>4. CounterIsExact' /\ DoneMeansCounted'
  BY DEF CounterIsExact, DoneMeansCounted, Counted
<1> QED BY <1>1, <1>2, <1>3, <1>4

-----------------------------------------------------------------------------
LEMMA LockFinalize ==
  ASSUME Typed, LockHolder, NEW f \in FinalizeJobs,
         ClaimFinalization(f) \/ WriteCompatPlan(f) \/ FinalizeProgress(f)
  PROVE  LockHolder'
<1> USE Roles, NoneIsNoPlan DEF Typed, EvidenceTypeOK, LockHolder, Goto, evidenceLocals
<1>1. CASE ClaimFinalization(f) \/ WriteCompatPlan(f) \/ SaveFinalizationClaim(f)
  BY <1>1 DEF ClaimFinalization, WriteCompatPlan, SaveFinalizationClaim
<1>2. CASE SubmitFinalization(f) \/ BeginFinalization(f)
  BY <1>2 DEF SubmitFinalization, Submitted, BeginFinalization, Unwinding
<1>3. CASE ReadHoldout(f) \/ AbandonFinalization(f)
  BY <1>3 DEF ReadHoldout, AbandonFinalization, Unwinding
<1>4. CASE PublishFinalization(f)
  <2>1. CASE Reserved(f) /\ ~final_files[f].exists
    BY <1>4, <2>1 DEF PublishFinalization
  <2>2. CASE ~(Reserved(f) /\ ~final_files[f].exists)
    BY <1>4, <2>2 DEF PublishFinalization, Unwinding
  <2> QED BY <2>1, <2>2
<1>5. CASE CountFinalization(f) \/ UnwindFinalization(f)
  BY <1>5 DEF CountFinalization, UnwindFinalization
<1>6. CASE Settle(f) /\ UNCHANGED evidenceLocals
  BY <1>6 DEF Settle
<1> QED
  BY <1>1, <1>2, <1>3, <1>4, <1>5, <1>6 DEF FinalizeProgress

LEMMA LockOthers ==
  ASSUME Typed, LockHolder,
         \/ \E c \in ComparisonJobs : ClaimComparison(c) \/ CompareProgress(c)
         \/ \E j \in FinalizeJobs \cup ComparisonJobs :
               Stop(j) /\ UNCHANGED evidenceLocals
         \/ \E p \in PlanRequests : WritePlan(p) \/ SavePlan(p)
         \/ \E w \in Watchers : NoticeStale(w) \/ ReleaseStale(w)
         \/ EvidenceCrash
  PROVE  LockHolder'
<1> USE Roles, NoneIsNoPlan DEF Typed, EvidenceTypeOK, LockHolder, Goto, evidenceLocals
<1>1. ASSUME NEW c \in ComparisonJobs, ClaimComparison(c) \/ CompareProgress(c)
      PROVE  LockHolder'
  <2>1. CASE ClaimComparison(c) \/ SaveComparisonClaim(c) \/ SaveComparison(c)
    BY <2>1 DEF ClaimComparison, SaveComparisonClaim, SaveComparison
  <2>2. CASE SubmitComparison(c) \/ BeginComparison(c)
    BY <2>2 DEF SubmitComparison, Submitted, BeginComparison
  <2>3. CASE Compare(c) \/ AbandonComparison(c) \/ WriteComparison(c)
    BY <2>3 DEF Compare, AbandonComparison, Unwinding, WriteComparison
  <2>4. CASE Settle(c) /\ UNCHANGED evidenceLocals
    BY <2>4 DEF Settle
  <2> QED BY <1>1, <2>1, <2>2, <2>3, <2>4 DEF CompareProgress
<1>2. ASSUME NEW j \in FinalizeJobs \cup ComparisonJobs,
             Stop(j) /\ UNCHANGED evidenceLocals
      PROVE  LockHolder'
  BY <1>2 DEF Stop
<1>3. ASSUME NEW p \in PlanRequests, WritePlan(p) \/ SavePlan(p) PROVE LockHolder'
  BY <1>3 DEF WritePlan, SavePlan
<1>4. ASSUME NEW w \in Watchers, NoticeStale(w) \/ ReleaseStale(w) PROVE LockHolder'
  BY <1>4 DEF NoticeStale, ReleaseStale
<1>5. CASE EvidenceCrash
  BY <1>5 DEF EvidenceCrash, Crash, Resting
<1> QED BY <1>1, <1>2, <1>3, <1>4, <1>5

-----------------------------------------------------------------------------
(* The finalization's own steps. *)
LEMMA LedgerFinalize ==
  ASSUME Typed, LedgerInv, NEW f \in FinalizeJobs,
         ClaimFinalization(f) \/ WriteCompatPlan(f) \/ FinalizeProgress(f)
  PROVE  LedgerInv'
<1>0. LockHolder'
  BY LockFinalize DEF LedgerInv
<1> USE Roles, NoneIsNoPlan, <1>0 DEF Typed, EvidenceTypeOK, LedgerInv, Goto, files
<1>1. CASE ClaimFinalization(f)
  <2>0. PICK q \in RequestType :
          /\ MayFinalize(q)
          /\ request' = [request EXCEPT ![f] = [q EXCEPT !.plan =
                IF q.plan # None THEN q.plan ELSE CompatPlan(q.round, q.fp)]]
    BY <1>1 DEF ClaimFinalization
  <2>1. /\ request'[f].fp = q.fp /\ request'[f].confirm = q.confirm
        /\ \A g \in FinalizeJobs \ {f} : request'[g] = request[g]
        /\ ReadBefore(q.fp) => q.confirm
        /\ session.active_final = None
    BY <2>0 DEF MayFinalize, RequestType
  <2>2. /\ session'.reads = session.reads /\ session'.counts = session.counts
        /\ session'.finalizations = session.finalizations
        /\ session'.active_final = f
    BY <1>1 DEF ClaimFinalization, SessionType
  <2>3. \A g \in FinalizeJobs : pc[g] \notin {"claim_save", "commit_save"}
    BY <1>1 DEF ClaimFinalization, LockHolder
  <2>4. ReservationConsents'
    BY <1>1, <2>1, <2>2, <2>3 DEF ClaimFinalization, ReservationConsents, ReadBefore
  <2>5. CommitNumbered'
    BY <1>1, <2>3 DEF ClaimFinalization, CommitNumbered
  <2>6. CountedExist' /\ OutcomeKnown' /\ DoneMeansCounted'
    BY <1>1, <2>2 DEF ClaimFinalization, CountedExist, OutcomeKnown, Counted, DoneMeansCounted
  <2>7. CounterIsExact'
    BY <1>1, <2>2 DEF ClaimFinalization, CounterIsExact
  <2> QED BY <2>4, <2>5, <2>6, <2>7
<1>2. CASE WriteCompatPlan(f)
  <2>0. PICK q \in RequestType :
          /\ MayFinalize(q)
          /\ request' = [request EXCEPT ![f] = [q EXCEPT !.plan = CompatPlan(q.round, q.fp)]]
    BY <1>2 DEF WriteCompatPlan
  <2>1. /\ request'[f].fp = q.fp /\ request'[f].confirm = q.confirm
        /\ \A g \in FinalizeJobs \ {f} : request'[g] = request[g]
        /\ ReadBefore(q.fp) => q.confirm
        /\ session.active_final = None
    BY <2>0 DEF MayFinalize, RequestType
  <2>3. \A g \in FinalizeJobs : pc[g] \notin {"claim_save", "commit_save"}
    BY <1>2 DEF WriteCompatPlan, LockHolder
  <2>4. ReservationConsents'
    BY <1>2, <2>1, <2>3 DEF WriteCompatPlan, ReservationConsents, ReadBefore
  <2>5. CommitNumbered'
    BY <1>2, <2>3 DEF WriteCompatPlan, CommitNumbered
  <2>6. CountedExist' /\ OutcomeKnown' /\ DoneMeansCounted'
    BY <1>2 DEF WriteCompatPlan, CountedExist, OutcomeKnown, Counted, DoneMeansCounted
  <2>7. CounterIsExact'
    BY <1>2 DEF WriteCompatPlan, CounterIsExact
  <2> QED BY <2>4, <2>5, <2>6, <2>7
<1>3. CASE SaveFinalizationClaim(f)
  <2>2. /\ session'.reads = session.reads /\ session'.counts = session.counts
        /\ session'.finalizations = session.finalizations
        /\ session'.active_final = f
    BY <1>3 DEF SaveFinalizationClaim, SessionType
  <2>3. \A g \in FinalizeJobs : pc[g] = "commit_save" => FALSE
    BY <1>3 DEF SaveFinalizationClaim, LockHolder
  <2>4. ReservationConsents'
    BY <1>3, <2>2 DEF SaveFinalizationClaim, ReservationConsents, ReadBefore, LockHolder,
       evidenceLocals
  <2>5. CommitNumbered'
    BY <1>3, <2>3 DEF SaveFinalizationClaim, CommitNumbered
  <2>6. CountedExist' /\ OutcomeKnown' /\ DoneMeansCounted'
    BY <1>3, <2>2 DEF SaveFinalizationClaim, CountedExist, OutcomeKnown, Counted,
       DoneMeansCounted
  <2>7. CounterIsExact'
    BY <1>3, <2>2 DEF SaveFinalizationClaim, CounterIsExact
  <2> QED BY <2>4, <2>5, <2>6, <2>7
<1>4. CASE SubmitFinalization(f) \/ BeginFinalization(f)
  <2>0. /\ session' = session /\ final_files' = final_files /\ request' = request
        /\ pc[f] \in {"claimed", "queued"}
        /\ pc'[f] \notin {"claim_save", "commit_save", "settling"}
        /\ pc'[f] = "unwinding" => outcome'[f] # "done"
        /\ jobs'[f] # "done"
        /\ \A g \in FinalizeJobs \ {f} :
              pc'[g] = pc[g] /\ outcome'[g] = outcome[g] /\ jobs'[g] = jobs[g]
    BY <1>4 DEF SubmitFinalization, Submitted, BeginFinalization, Unwinding, evidenceLocals
  <2> QED
    BY <2>0 DEF ReservationConsents, ReadBefore, CommitNumbered, NextEntry, CountedExist,
       OutcomeKnown, Counted, DoneMeansCounted, CounterIsExact
<1>5. CASE ReadHoldout(f) \/ AbandonFinalization(f)
  <2>0. /\ session' = session /\ final_files' = final_files /\ request' = request
        /\ jobs' = jobs
        /\ pc'[f] \notin {"claim_save", "commit_save", "settling"}
        /\ pc'[f] = "unwinding" => outcome'[f] # "done"
        /\ \A g \in FinalizeJobs \ {f} : pc'[g] = pc[g] /\ outcome'[g] = outcome[g]
    BY <1>5 DEF ReadHoldout, AbandonFinalization, Unwinding, evidenceLocals
  <2> QED
    BY <2>0 DEF ReservationConsents, ReadBefore, CommitNumbered, NextEntry, CountedExist,
       OutcomeKnown, Counted, DoneMeansCounted, CounterIsExact
<1>6. CASE PublishFinalization(f)
  <2>0. \A g \in FinalizeJobs : pc[g] \notin {"claim_save", "commit_save"}
    BY <1>6 DEF PublishFinalization, LockHolder
  <2>1. CASE Reserved(f) /\ ~final_files[f].exists
    <3> DEFINE q == request[f]
               Sig(found) == /\ found /\ session.reads = 0
                             /\ ~round_files[q.round].adaptive
                             /\ ~plan_files[q.plan].adaptive
    <3>1. PICK found \in BOOLEAN : final_files' = [final_files EXCEPT ![f] =
                      [exists |-> TRUE, round |-> q.round, plan |-> q.plan,
                       fp |-> q.fp, index |-> session.reads + 1,
                       same |-> session.counts[q.fp] + 1, first |-> session.reads = 0,
                       consent |-> q.confirm, significant |-> Sig(found)]]
      BY <1>6, <2>1 DEF PublishFinalization
    <3>2. /\ session' = session /\ request' = request /\ jobs' = jobs /\ outcome' = outcome
          /\ pc'[f] = "commit_save" /\ \A g \in FinalizeJobs \ {f} : pc'[g] = pc[g]
      BY <1>6, <2>1 DEF PublishFinalization, evidenceLocals
    <3>3. NextEntry(final_files[f])'
      BY <2>1, <3>1, <3>2 DEF NextEntry, ReservationConsents, Reserved, ReadBefore
    <3>4. f \notin Counted /\ Counted' = Counted
      BY <2>1, <3>2 DEF CountedExist, Counted
    <3>5. CommitNumbered'
      BY <2>0, <2>1, <3>2, <3>3, <3>4 DEF CommitNumbered, Reserved
    <3>6. ReservationConsents'
      BY <2>0, <3>2 DEF ReservationConsents, ReadBefore
    <3>7. CountedExist' /\ OutcomeKnown' /\ DoneMeansCounted'
      BY <3>1, <3>2, <3>4 DEF CountedExist, OutcomeKnown, DoneMeansCounted
    <3>8. CounterIsExact'
      BY <3>1, <3>2, <3>4 DEF CounterIsExact, Counted
    <3> QED BY <3>5, <3>6, <3>7, <3>8
  <2>2. CASE ~(Reserved(f) /\ ~final_files[f].exists)
    <3>0. /\ session' = session /\ final_files' = final_files /\ request' = request
          /\ jobs' = jobs /\ pc'[f] = "unwinding" /\ outcome'[f] # "done"
          /\ \A g \in FinalizeJobs \ {f} : pc'[g] = pc[g] /\ outcome'[g] = outcome[g]
      BY <1>6, <2>2 DEF PublishFinalization, Unwinding, evidenceLocals
    <3> QED
      BY <3>0 DEF ReservationConsents, ReadBefore, CommitNumbered, NextEntry, CountedExist,
         OutcomeKnown, Counted, DoneMeansCounted, CounterIsExact
  <2> QED BY <2>1, <2>2
<1>7. CASE CountFinalization(f)
  <2>0. \A g \in FinalizeJobs \ {f} : pc[g] \notin {"claim_save", "commit_save"}
    BY <1>7 DEF CountFinalization, LockHolder
  <2>1. /\ pc[f] = "commit_save" /\ NextEntry(final_files[f]) /\ f \notin Counted
    BY <1>7 DEF CountFinalization, CommitNumbered
  <2>2. /\ session'.reads = session.reads + 1
        /\ session'.finalizations = Append(session.finalizations, f)
        /\ session'.active_final = None
        /\ session.finalizations \in Seq(FinalizeJobs)
        /\ session.reads \in Nat
    BY <1>7, <2>1 DEF CountFinalization, SessionType, NextEntry
  <2>3. /\ final_files' = final_files /\ jobs' = jobs
        /\ pc'[f] = "settling" /\ outcome'[f] = "done"
        /\ \A g \in FinalizeJobs \ {f} : pc'[g] = pc[g] /\ outcome'[g] = outcome[g]
    BY <1>7 DEF CountFinalization
  <2>4. Counted' = Counted \cup {f}
    BY <2>2 DEF Counted
  <2>5. ReservationConsents' /\ CommitNumbered'
    BY <2>0, <2>2, <2>3 DEF ReservationConsents, CommitNumbered
  <2>6. CountedExist' /\ OutcomeKnown' /\ DoneMeansCounted'
    BY <2>1, <2>3, <2>4 DEF CountedExist, OutcomeKnown, DoneMeansCounted, NextEntry
  <2>7. CounterIsExact'
    <3>1. /\ Len(session'.finalizations) = Len(session.finalizations) + 1
          /\ session'.finalizations[Len(session.finalizations) + 1] = f
          /\ \A i \in 1..Len(session.finalizations) :
                session'.finalizations[i] = session.finalizations[i]
          /\ Len(session.finalizations) \in Nat
      BY <2>2
    <3>2. session'.reads = LegacyReads + Len(session'.finalizations)
      BY <2>2, <3>1, SessionAssumption DEF CounterIsExact
    <3>3. ASSUME NEW i \in 1..Len(session'.finalizations)
          PROVE  final_files'[session'.finalizations[i]].index = LegacyReads + i
      <4>1. CASE i \in 1..Len(session.finalizations)
        BY <2>3, <3>1, <4>1 DEF CounterIsExact
      <4>2. CASE i = Len(session.finalizations) + 1
        BY <2>1, <2>3, <3>1, <4>2, SessionAssumption DEF CounterIsExact, NextEntry
      <4> QED BY <3>1, <4>1, <4>2
    <3> QED BY <3>2, <3>3 DEF CounterIsExact
  <2> QED BY <2>5, <2>6, <2>7
<1>8. CASE UnwindFinalization(f)
  <2>0. \A g \in FinalizeJobs : pc[g] \notin {"claim_save", "commit_save"}
    BY <1>8 DEF UnwindFinalization, LockHolder
  <2>1. /\ session'.reads = session.reads /\ session'.counts = session.counts
        /\ session'.finalizations = session.finalizations
        /\ session'.active_final \in {session.active_final, None}
    BY <1>8 DEF UnwindFinalization, SessionType
  <2>2. /\ final_files' = final_files /\ request' = request
        /\ jobs' = jobs /\ outcome' = outcome
        /\ pc'[f] = "settling" /\ pc[f] = "unwinding"
        /\ \A g \in FinalizeJobs \ {f} : pc'[g] = pc[g]
    BY <1>8 DEF UnwindFinalization, evidenceLocals
  <2>3. ReservationConsents' /\ CommitNumbered'
    BY <2>0, <2>1, <2>2 DEF ReservationConsents, ReadBefore, CommitNumbered
  <2>4. CountedExist' /\ OutcomeKnown' /\ DoneMeansCounted'
    BY <2>1, <2>2 DEF CountedExist, OutcomeKnown, DoneMeansCounted, Counted
  <2>5. CounterIsExact'
    BY <2>1, <2>2 DEF CounterIsExact
  <2> QED BY <2>3, <2>4, <2>5
<1>9. CASE Settle(f) /\ UNCHANGED evidenceLocals
  <2>0. /\ session' = session /\ final_files' = final_files /\ request' = request
        /\ outcome' = outcome
        /\ pc[f] = "settling" /\ pc'[f] = "finished"
        /\ jobs'[f] = "done" => outcome[f] = "done" \/ jobs[f] = "done"
        /\ \A g \in FinalizeJobs \ {f} : pc'[g] = pc[g] /\ jobs'[g] = jobs[g]
    BY <1>9 DEF Settle, evidenceLocals
  <2> QED
    BY <2>0 DEF ReservationConsents, ReadBefore, CommitNumbered, NextEntry, CountedExist,
       OutcomeKnown, Counted, DoneMeansCounted, CounterIsExact
<1> QED
  BY <1>1, <1>2, <1>3, <1>4, <1>5, <1>6, <1>7, <1>8, <1>9 DEF FinalizeProgress

(* A released reservation was nobody's commit. *)
LEMMA LedgerRelease ==
  ASSUME Typed, LedgerInv, NEW w \in Watchers, ReleaseStale(w)
  PROVE  LedgerInv'
<1> USE Roles, NoneIsNoPlan DEF Typed, EvidenceTypeOK, LedgerInv, Goto, files
<1>0. LockHolder'
  BY LockOthers
<1>1. \A g \in FinalizeJobs : pc[g] \notin {"claim_save", "commit_save"}
  BY DEF ReleaseStale, LockHolder
<1>2. /\ session'.reads = session.reads /\ session'.counts = session.counts
      /\ session'.finalizations = session.finalizations
      /\ session'.active_final \in {session.active_final, None}
  BY DEF ReleaseStale, SessionType
<1>3. /\ final_files' = final_files /\ request' = request
      /\ jobs' = jobs /\ outcome' = outcome
      /\ \A g \in FinalizeJobs : pc'[g] = pc[g]
  BY DEF ReleaseStale
<1>4. ReservationConsents' /\ CommitNumbered'
  BY <1>1, <1>2, <1>3 DEF ReservationConsents, ReadBefore, CommitNumbered
<1>5. CountedExist' /\ OutcomeKnown' /\ DoneMeansCounted'
  BY <1>2, <1>3 DEF CountedExist, OutcomeKnown, DoneMeansCounted, Counted
<1>6. CounterIsExact'
  BY <1>2, <1>3 DEF CounterIsExact
<1> QED BY <1>0, <1>4, <1>5, <1>6

LEMMA LedgerCrash ==
  ASSUME Typed, LedgerInv, EvidenceCrash
  PROVE  LedgerInv'
<1> USE Roles, NoneIsNoPlan DEF Typed, EvidenceTypeOK, LedgerInv, files
<1>0. LockHolder'
  BY LockOthers
<1>1. /\ session' = session /\ final_files' = final_files /\ request' = request
      /\ \A g \in FinalizeJobs :
            jobs'[g] = "absent" /\ pc'[g] \in {"idle", "finished", "dead"}
  BY DEF EvidenceCrash, Crash, Resting
<1>2. ReservationConsents' /\ CommitNumbered'
  BY <1>1 DEF ReservationConsents, ReadBefore, CommitNumbered
<1>3. CountedExist' /\ OutcomeKnown' /\ DoneMeansCounted'
  BY <1>1 DEF CountedExist, OutcomeKnown, Counted, DoneMeansCounted
<1>4. CounterIsExact'
  BY <1>1 DEF CounterIsExact
<1> QED BY <1>0, <1>2, <1>3, <1>4

-----------------------------------------------------------------------------
(* What a step keeps: published reads, pinned plans, ended comparisons.      *)
Kept ==
    /\ \A f \in FinalizeJobs : final_files[f].exists => final_files'[f] = final_files[f]
    /\ \A p \in PlanIds : plan_files[p].exists => plan_files'[p] = plan_files[p]
    /\ \A c \in ComparisonJobs :
          comparison_files[c].status \in {"done", "stopped", "failed"}
             => comparison_files'[c] = comparison_files[c]

LEMMA KeptStep ==
  ASSUME Typed, PlanInv, EvidenceNext
  PROVE  Kept
<1> USE Roles, NoneIsNoPlan DEF Typed, EvidenceTypeOK, Kept, files, evidenceLocals
<1>1. ASSUME NEW f \in FinalizeJobs,
             ClaimFinalization(f) \/ FinalizeProgress(f) \/ WriteCompatPlan(f)
      PROVE  Kept
  <2>1. CASE WriteCompatPlan(f)
    BY <2>1 DEF WriteCompatPlan, PlanMissing
  <2>2. CASE PublishFinalization(f)
    BY <2>2 DEF PublishFinalization
  <2>3. CASE ClaimFinalization(f) \/ SaveFinalizationClaim(f) \/ SubmitFinalization(f)
    BY <2>3 DEF ClaimFinalization, SaveFinalizationClaim, SubmitFinalization
  <2>4. CASE BeginFinalization(f) \/ ReadHoldout(f) \/ AbandonFinalization(f)
    BY <2>4 DEF BeginFinalization, ReadHoldout, AbandonFinalization
  <2>5. CASE CountFinalization(f) \/ UnwindFinalization(f) \/ Settle(f)
    BY <2>5 DEF CountFinalization, UnwindFinalization, Settle
  <2> QED BY <1>1, <2>1, <2>2, <2>3, <2>4, <2>5 DEF FinalizeProgress
<1>2. ASSUME NEW c \in ComparisonJobs, ClaimComparison(c) \/ CompareProgress(c)
      PROVE  Kept
  <2>1. CASE ClaimComparison(c) \/ BeginComparison(c) \/ WriteComparison(c)
    <3>1. /\ \A d \in ComparisonJobs \ {c} : comparison_files'[d] = comparison_files[d]
          /\ final_files' = final_files /\ plan_files' = plan_files
          /\ pc[c] \in {"idle", "queued", "computed", "unwinding"}
      BY <2>1 DEF ClaimComparison, BeginComparison, WriteComparison
    <3> QED BY <3>1 DEF PlanInv, ComparisonOpen
  <2>2. CASE \/ SaveComparisonClaim(c) \/ SubmitComparison(c) \/ Compare(c)
             \/ AbandonComparison(c) \/ SaveComparison(c) \/ Settle(c)
    BY <2>2 DEF SaveComparisonClaim, SubmitComparison, Compare, AbandonComparison,
                SaveComparison, Settle
  <2> QED BY <1>2, <2>1, <2>2 DEF CompareProgress
<1>3. ASSUME NEW j \in FinalizeJobs \cup ComparisonJobs, Stop(j) PROVE Kept
  BY <1>3 DEF Stop
<1>4. ASSUME NEW p \in PlanRequests, WritePlan(p) \/ SavePlan(p) PROVE Kept
  BY <1>4 DEF WritePlan, SavePlan, PlanInv, PlansSound
<1>5. ASSUME NEW w \in Watchers, NoticeStale(w) \/ ReleaseStale(w) PROVE Kept
  BY <1>5 DEF NoticeStale, ReleaseStale
<1>6. CASE EvidenceCrash
  BY <1>6 DEF EvidenceCrash, Crash
<1> QED
  BY <1>1, <1>2, <1>3, <1>4, <1>5, <1>6 DEF EvidenceNext, EvidenceStep

(* Steps that move threads on and write neither artifacts nor requests. *)
PlanFrame ==
    /\ final_files' = final_files /\ plan_files' = plan_files
    /\ comparison_files' = comparison_files /\ request' = request
    /\ \A t \in FinalizeJobs \cup PlanRequests : pc'[t] = "idle" <=> pc[t] = "idle"
    /\ \A c \in ComparisonJobs :
          pc[c] \in {"commit_save", "settling", "finished", "dead"}
             => pc'[c] \in {"commit_save", "settling", "finished", "dead"}

LEMMA FrameKeepsPlans ==
  ASSUME Typed, PlanInv, PlanFrame
  PROVE  PlanInv'
<1> USE DEF PlanInv, PlanFrame
<1>1. PlansSound'
  BY DEF PlansSound, CompatPlan
<1>2. PlanPinned' /\ ArtifactFollowsRequest'
  BY DEF PlanPinned, ArtifactFollowsRequest
<1>3. ComparisonOpen'
  BY DEF ComparisonOpen
<1> QED BY <1>1, <1>2, <1>3

LEMMA StepIsPlanFrame ==
  ASSUME Typed,
         \/ \E f \in FinalizeJobs :
               \/ SaveFinalizationClaim(f) \/ SubmitFinalization(f)
               \/ BeginFinalization(f) \/ ReadHoldout(f) \/ AbandonFinalization(f)
               \/ CountFinalization(f) \/ UnwindFinalization(f)
         \/ \E c \in ComparisonJobs :
               \/ SaveComparisonClaim(c) \/ SubmitComparison(c) \/ Compare(c)
               \/ AbandonComparison(c) \/ SaveComparison(c)
         \/ \E j \in FinalizeJobs \cup ComparisonJobs :
               (Stop(j) \/ Settle(j)) /\ UNCHANGED evidenceLocals
         \/ \E p \in PlanRequests : SavePlan(p)
         \/ \E w \in Watchers : NoticeStale(w) \/ ReleaseStale(w)
         \/ EvidenceCrash
  PROVE  PlanFrame
<1> USE Roles DEF Typed, EvidenceTypeOK, PlanFrame, files, evidenceLocals, Goto
<1>1. ASSUME NEW f \in FinalizeJobs,
             SaveFinalizationClaim(f) \/ SubmitFinalization(f) \/ BeginFinalization(f)
      PROVE  PlanFrame
  <2>1. CASE SaveFinalizationClaim(f)
    BY <2>1 DEF SaveFinalizationClaim
  <2>2. CASE SubmitFinalization(f)
    BY <2>2 DEF SubmitFinalization, Submitted
  <2>3. CASE BeginFinalization(f)
    BY <2>3 DEF BeginFinalization, Unwinding
  <2> QED BY <1>1, <2>1, <2>2, <2>3
<1>2. ASSUME NEW f \in FinalizeJobs,
             \/ ReadHoldout(f) \/ AbandonFinalization(f)
             \/ CountFinalization(f) \/ UnwindFinalization(f)
      PROVE  PlanFrame
  BY <1>2 DEF ReadHoldout, AbandonFinalization, CountFinalization, UnwindFinalization,
              Unwinding
<1>3. ASSUME NEW c \in ComparisonJobs,
             \/ SaveComparisonClaim(c) \/ SubmitComparison(c) \/ Compare(c)
             \/ AbandonComparison(c) \/ SaveComparison(c)
      PROVE  PlanFrame
  BY <1>3 DEF SaveComparisonClaim, SubmitComparison, Submitted, Compare,
              AbandonComparison, Unwinding, SaveComparison
<1>4. ASSUME NEW j \in FinalizeJobs \cup ComparisonJobs,
             (Stop(j) \/ Settle(j)) /\ UNCHANGED evidenceLocals
      PROVE  PlanFrame
  BY <1>4 DEF Stop, Settle
<1>5. ASSUME NEW p \in PlanRequests, SavePlan(p) PROVE PlanFrame
  BY <1>5 DEF SavePlan
<1>6. ASSUME NEW w \in Watchers, NoticeStale(w) \/ ReleaseStale(w) PROVE PlanFrame
  BY <1>6 DEF NoticeStale, ReleaseStale
<1>7. CASE EvidenceCrash
  BY <1>7 DEF EvidenceCrash, Crash, Resting
<1> QED BY <1>1, <1>2, <1>3, <1>4, <1>5, <1>6, <1>7

(* The steps that write plans, artifacts, comparisons or requests. *)
LEMMA PlanWrites ==
  ASSUME Typed, Typed', PlanInv, Kept,
         \/ \E f \in FinalizeJobs :
               ClaimFinalization(f) \/ WriteCompatPlan(f) \/ PublishFinalization(f)
         \/ \E c \in ComparisonJobs :
               ClaimComparison(c) \/ BeginComparison(c) \/ WriteComparison(c)
         \/ \E p \in PlanRequests : WritePlan(p)
  PROVE  PlanInv'
<1> USE Roles, NoneIsNoPlan DEF PlanInv, Typed, EvidenceTypeOK, files, evidenceLocals, Goto
<1>1. ASSUME NEW f \in FinalizeJobs, ClaimFinalization(f) PROVE PlanInv'
  <2>0. PICK q \in RequestType :
          LET p == IF q.plan # None THEN q.plan ELSE CompatPlan(q.round, q.fp)
          IN  /\ MayFinalize(q)
              /\ ~PlanMissing(p)
              /\ request' = [request EXCEPT ![f] = [q EXCEPT !.plan = p]]
    BY <1>1 DEF ClaimFinalization
  <2>1. /\ plan_files' = plan_files /\ final_files' = final_files
        /\ comparison_files' = comparison_files
        /\ pc[f] = "idle" /\ pc'[f] = "claimed"
        /\ \A t \in Threads \ {f} : pc'[t] = pc[t]
    BY <1>1 DEF ClaimFinalization
  <2>2. /\ \A g \in FinalizeJobs \ {f} : request'[g] = request[g]
        /\ LET p == plan_files[request'[f].plan]
           IN  p.exists /\ p.round = request'[f].round /\ p.fp = request'[f].fp
    <3>1. q.round \in Rounds /\ q.fp \in Fingerprints
      BY DEF RequestType
    <3>2. CASE q.plan # None
      BY <2>0, <3>2 DEF MayFinalize, RequestType
    <3>3. CASE q.plan = None
      BY <2>0, <3>1, <3>3 DEF PlanMissing, PlansSound, RequestType
    <3> QED BY <2>0, <3>2, <3>3
  <2>3. PlansSound' /\ ComparisonOpen'
    BY <2>1 DEF PlansSound, ComparisonOpen, CompatPlan
  <2>4. PlanPinned' /\ ArtifactFollowsRequest'
    BY <2>1, <2>2 DEF PlanPinned, ArtifactFollowsRequest
  <2> QED BY <2>3, <2>4
<1>2. ASSUME NEW f \in FinalizeJobs, WriteCompatPlan(f) PROVE PlanInv'
  <2>0. PICK q \in RequestType :
          LET p == CompatPlan(q.round, q.fp)
          IN  /\ PlanMissing(p)
              /\ request' = [request EXCEPT ![f] = [q EXCEPT !.plan = p]]
              /\ plan_files' = [plan_files EXCEPT ![p] =
                    [exists |-> TRUE, round |-> q.round, fp |-> q.fp,
                     adaptive |-> session.reads > 0, comparison |-> None]]
    BY <1>2 DEF WriteCompatPlan
  <2> DEFINE p == CompatPlan(q.round, q.fp)
  <2>1. /\ final_files' = final_files /\ comparison_files' = comparison_files
        /\ pc[f] = "idle" /\ pc'[f] = "claim_save"
        /\ \A t \in Threads \ {f} : pc'[t] = pc[t]
    BY <1>2 DEF WriteCompatPlan
  <2>2. /\ q.round \in Rounds /\ q.fp \in Fingerprints
        /\ p \in PlanIds /\ p \notin PlanRequests
    BY CompatPlanType, SessionAssumption DEF RequestType, CompatPlan
  <2>3. /\ plan_files'[p].exists /\ plan_files'[p].round = q.round
        /\ plan_files'[p].fp = q.fp /\ plan_files'[p].comparison = None
        /\ \A r \in PlanIds \ {p} : plan_files'[r] = plan_files[r]
        /\ request'[f].plan = p /\ request'[f].round = q.round /\ request'[f].fp = q.fp
        /\ \A g \in FinalizeJobs \ {f} : request'[g] = request[g]
    BY <2>0, <2>2 DEF RequestType
  <2>4. PlansSound'
    <3>1. \A r \in Rounds, fp \in Fingerprints :
             /\ CompatPlan(r, fp) \in PlanIds
             /\ CompatPlan(r, fp) = p => r = q.round /\ fp = q.fp
      BY DEF CompatPlan, PlanIds
    <3>2. \A r \in PlanRequests : r \in PlanIds \ {p} /\ r \in Threads \ {f}
      BY <2>2 DEF PlanIds
    <3> HIDE DEF p
    <3>3. \A r \in Rounds, fp \in Fingerprints :
             plan_files'[CompatPlan(r, fp)].exists =>
                 /\ plan_files'[CompatPlan(r, fp)].round = r
                 /\ plan_files'[CompatPlan(r, fp)].fp = fp
      BY <2>3, <3>1 DEF PlansSound
    <3>4. \A r \in PlanIds :
             plan_files'[r].exists /\ plan_files'[r].comparison # None =>
                LET c == comparison_files[plan_files'[r].comparison]
                IN  c.status = "done" /\ c.eligible /\ c.round = plan_files'[r].round
      BY <2>3 DEF PlansSound
    <3>5. \A r \in PlanRequests : pc'[r] = "idle" => ~plan_files'[r].exists
      BY <2>1, <2>3, <3>2 DEF PlansSound
    <3> QED BY <2>1, <3>3, <3>4, <3>5 DEF PlansSound, CompatPlan
  <2> HIDE DEF p
  <2>5. PlanPinned'
    <3>1. ASSUME NEW g \in FinalizeJobs, g # f, pc[g] # "idle"
          PROVE  LET r == plan_files'[request'[g].plan]
                 IN  r.exists /\ r.round = request'[g].round /\ r.fp = request'[g].fp
      <4>1. request[g].plan \in PlanIds /\ plan_files[request[g].plan].exists
        BY <3>1 DEF PlanPinned, RequestPlanned, RequestType
      <4> QED BY <2>3, <3>1, <4>1 DEF PlanPinned, Kept
    <3> QED BY <2>1, <2>3, <3>1 DEF PlanPinned
  <2>6. ArtifactFollowsRequest' /\ ComparisonOpen'
    BY <2>1, <2>3 DEF ArtifactFollowsRequest, ComparisonOpen
  <2> QED BY <2>4, <2>5, <2>6
<1>3. ASSUME NEW f \in FinalizeJobs, PublishFinalization(f) PROVE PlanInv'
  <2>1. /\ plan_files' = plan_files /\ comparison_files' = comparison_files
        /\ request' = request
        /\ pc[f] = "computed" /\ pc'[f] \in {"commit_save", "unwinding"}
        /\ \A t \in Threads \ {f} : pc'[t] = pc[t]
        /\ \A g \in FinalizeJobs \ {f} : final_files'[g] = final_files[g]
        /\ \/ final_files'[f] = final_files[f]
           \/ /\ final_files'[f].plan = request[f].plan
              /\ final_files'[f].round = request[f].round
              /\ final_files'[f].fp = request[f].fp
    BY <1>3 DEF PublishFinalization, Unwinding
  <2>2. PlansSound' /\ PlanPinned' /\ ComparisonOpen'
    BY <2>1 DEF PlansSound, PlanPinned, ComparisonOpen, CompatPlan
  <2>3. ArtifactFollowsRequest'
    BY <2>1 DEF ArtifactFollowsRequest
  <2> QED BY <2>2, <2>3
<1>4. ASSUME NEW c \in ComparisonJobs,
             ClaimComparison(c) \/ BeginComparison(c) \/ WriteComparison(c)
      PROVE  PlanInv'
  <2>1. /\ plan_files' = plan_files /\ final_files' = final_files /\ request' = request
        /\ \A t \in Threads \ {c} : pc'[t] = pc[t]
        /\ \A d \in ComparisonJobs \ {c} : comparison_files'[d] = comparison_files[d]
        /\ \/ pc'[c] = "commit_save"
           \/ comparison_files'[c].status \in {"queued", "running"}
    BY <1>4 DEF ClaimComparison, BeginComparison, WriteComparison, ComparisonType
  <2>2. PlansSound'
    <3>1. \A p \in PlanIds :
             plan_files[p].exists /\ plan_files[p].comparison # None =>
                LET d == comparison_files'[plan_files[p].comparison]
                IN  d.status = "done" /\ d.eligible /\ d.round = plan_files[p].round
      BY DEF PlansSound, Kept, PlanType
    <3>2. \A r \in PlanRequests : pc'[r] = pc[r]
      BY <2>1
    <3> QED BY <2>1, <3>1, <3>2 DEF PlansSound, CompatPlan
  <2>3. PlanPinned' /\ ArtifactFollowsRequest' /\ ComparisonOpen'
    BY <2>1 DEF PlanPinned, ArtifactFollowsRequest, ComparisonOpen
  <2> QED BY <2>2, <2>3
<1>5. ASSUME NEW p \in PlanRequests, WritePlan(p) PROVE PlanInv'
  <2>0. PICK c \in ComparisonJobs :
          /\ comparison_files[c].status = "done"
          /\ comparison_files[c].eligible
          /\ plan_files' = [plan_files EXCEPT ![p] =
                [exists |-> TRUE, round |-> comparison_files[c].round,
                 fp |-> comparison_files[c].fp,
                 adaptive |-> comparison_files[c].adaptive, comparison |-> c]]
    BY <1>5 DEF WritePlan
  <2>1. /\ final_files' = final_files /\ comparison_files' = comparison_files
        /\ request' = request
        /\ pc[p] = "idle" /\ pc'[p] = "claim_save"
        /\ \A t \in Threads \ {p} : pc'[t] = pc[t]
    BY <1>5 DEF WritePlan
  <2>2. /\ p \in PlanIds
        /\ \A r \in Rounds, fp \in Fingerprints :
              CompatPlan(r, fp) \in PlanIds \ {p}
        /\ \A r \in PlanRequests : r \in PlanIds
    BY SessionAssumption DEF PlanIds, CompatPlan
  <2>3. /\ plan_files'[p].comparison = c
        /\ plan_files'[p].round = comparison_files[c].round
        /\ \A r \in PlanIds \ {p} : plan_files'[r] = plan_files[r]
    BY <2>0, <2>2
  <2>4. PlansSound'
    <3>1. \A r \in Rounds, fp \in Fingerprints :
             plan_files'[CompatPlan(r, fp)].exists =>
                 /\ plan_files'[CompatPlan(r, fp)].round = r
                 /\ plan_files'[CompatPlan(r, fp)].fp = fp
      BY <2>2, <2>3 DEF PlansSound
    <3>2. \A r \in PlanIds :
             plan_files'[r].exists /\ plan_files'[r].comparison # None =>
                LET d == comparison_files[plan_files'[r].comparison]
                IN  d.status = "done" /\ d.eligible /\ d.round = plan_files'[r].round
      BY <2>0, <2>3 DEF PlansSound
    <3>3. \A r \in PlanRequests : pc'[r] = "idle" => ~plan_files'[r].exists
      BY <2>1, <2>2, <2>3 DEF PlansSound
    <3> QED BY <2>1, <3>1, <3>2, <3>3 DEF PlansSound, CompatPlan
  <2>5. PlanPinned'
    <3>1. ASSUME NEW g \in FinalizeJobs, pc[g] # "idle"
          PROVE  LET r == plan_files'[request[g].plan]
                 IN  r.exists /\ r.round = request[g].round /\ r.fp = request[g].fp
      <4>1. request[g].plan \in PlanIds /\ plan_files[request[g].plan].exists
        BY <3>1 DEF PlanPinned, RequestPlanned, RequestType
      <4> QED BY <3>1, <4>1 DEF PlanPinned, Kept
    <3> QED BY <2>1, <3>1 DEF PlanPinned
  <2>6. ArtifactFollowsRequest' /\ ComparisonOpen'
    BY <2>1 DEF ArtifactFollowsRequest, ComparisonOpen
  <2> QED BY <2>4, <2>5, <2>6
<1> QED BY <1>1, <1>2, <1>3, <1>4, <1>5

-----------------------------------------------------------------------------
LEMMA TypedStep ==
  ASSUME Typed, [EvidenceNext]_evidenceVars
  PROVE  Typed'
  BY FinalizeType, CompareType, OtherType
  DEF EvidenceNext, EvidenceStep

LEMMA LedgerStep ==
  ASSUME Typed, LedgerInv, EvidenceNext
  PROVE  LedgerInv'
<1>1. ASSUME NEW f \in FinalizeJobs,
             ClaimFinalization(f) \/ WriteCompatPlan(f) \/ FinalizeProgress(f)
      PROVE  LedgerInv'
  BY <1>1, LedgerFinalize
<1>2. CASE \/ \E c \in ComparisonJobs : ClaimComparison(c) \/ CompareProgress(c)
           \/ \E j \in FinalizeJobs \cup ComparisonJobs :
                 Stop(j) /\ UNCHANGED evidenceLocals
           \/ \E p \in PlanRequests : WritePlan(p) \/ SavePlan(p)
           \/ \E w \in Watchers : NoticeStale(w)
  <2>1. LedgerFrame
    BY <1>2, OthersFrame
  <2>2. LockHolder'
    BY <1>2, LockOthers DEF LedgerInv
  <2> QED BY <2>1, <2>2, FrameKeepsLedger
<1>3. ASSUME NEW w \in Watchers, ReleaseStale(w) PROVE LedgerInv'
  BY <1>3, LedgerRelease
<1>4. CASE EvidenceCrash
  BY <1>4, LedgerCrash
<1> QED
  BY <1>1, <1>2, <1>3, <1>4 DEF EvidenceNext, EvidenceStep

LEMMA PlanStep ==
  ASSUME Typed, PlanInv, EvidenceNext
  PROVE  PlanInv'
<1>1. Typed' /\ Kept
  BY TypedStep, KeptStep
<1>2. ASSUME PlanFrame PROVE PlanInv'
  BY <1>2, FrameKeepsPlans
<1>3. CASE \/ \E f \in FinalizeJobs :
                 ClaimFinalization(f) \/ WriteCompatPlan(f) \/ PublishFinalization(f)
           \/ \E c \in ComparisonJobs :
                 ClaimComparison(c) \/ BeginComparison(c) \/ WriteComparison(c)
           \/ \E p \in PlanRequests : WritePlan(p)
  BY <1>1, <1>3, PlanWrites
<1> QED
  BY <1>2, <1>3, StepIsPlanFrame
  DEF EvidenceNext, EvidenceStep, FinalizeProgress, CompareProgress

LEMMA NextIInv == IInv /\ [EvidenceNext]_evidenceVars => IInv'
<1> SUFFICES ASSUME IInv, [EvidenceNext]_evidenceVars PROVE IInv'
  OBVIOUS
<1>1. CASE EvidenceNext
  BY <1>1, TypedStep, LedgerStep, PlanStep DEF IInv
<1>2. CASE UNCHANGED evidenceVars
  <2>1. Typed'
    BY <1>2, TypedStep DEF IInv
  <2>2. LedgerInv'
    BY <1>2 DEF IInv, LedgerInv, LockHolder, ReservationConsents, ReadBefore, CommitNumbered,
       NextEntry, CountedExist, Counted, OutcomeKnown, CounterIsExact, DoneMeansCounted,
       evidenceVars, docVars, evidenceLocals, files
  <2>3. PlanInv'
    BY <1>2 DEF IInv, PlanInv, PlansSound, CompatPlan, PlanPinned, ArtifactFollowsRequest,
       ComparisonOpen, evidenceVars, docVars, evidenceLocals, files
  <2> QED BY <2>1, <2>2, <2>3 DEF IInv
<1> QED BY <1>1, <1>2

-----------------------------------------------------------------------------
(* The session document, its artifacts and the threads' state are well formed. *)
THEOREM TypeCorrect == EvidenceSpec => []EvidenceTypeOK
<1>1. IInv => EvidenceTypeOK
  BY DEF IInv, Typed
<1> QED
  BY <1>1, InitIInv, NextIInv, PTL DEF EvidenceSpec

(* The holdout counter is the number of reads the session lists, each listed  *)
(* under its number: the lock is held from numbering a read to counting it.   *)
THEOREM CounterCorrect == EvidenceSpec => []CounterIsExact
<1>1. IInv => CounterIsExact
  BY DEF IInv, LedgerInv
<1> QED
  BY <1>1, InitIInv, NextIInv, PTL DEF EvidenceSpec

(* A finalization the registry reports as done is one the session counts. *)
THEOREM DoneCorrect == EvidenceSpec => []DoneMeansCounted
<1>1. IInv => DoneMeansCounted
  BY DEF IInv, LedgerInv
<1> QED
  BY <1>1, InitIInv, NextIInv, PTL DEF EvidenceSpec

(* Behind every published read stands the plan it was reserved with, for the  *)
(* same round and holdout, and behind that an eligible comparison, if any.    *)
THEOREM PlanCorrect == EvidenceSpec => []PlanBehindArtifact
<1>1. IInv => PlanBehindArtifact
  <2> SUFFICES ASSUME IInv, NEW f \in FinalizeJobs, final_files[f].exists
               PROVE  LET plan == plan_files[final_files[f].plan]
                      IN  /\ final_files[f].plan = request[f].plan
                          /\ plan.exists
                          /\ plan.round = final_files[f].round
                          /\ plan.fp = final_files[f].fp
                          /\ plan.comparison # None =>
                                /\ comparison_files[plan.comparison].status = "done"
                                /\ comparison_files[plan.comparison].eligible
                                /\ comparison_files[plan.comparison].round = plan.round
    BY DEF PlanBehindArtifact
  <2>1. pc[f] # "idle"
    BY DEF IInv, PlanInv, ArtifactFollowsRequest
  <2>2. request[f].plan \in PlanIds
    BY <2>1 DEF IInv, Typed, RequestPlanned, EvidenceTypeOK, RequestType
  <2> QED
    BY <2>1, <2>2 DEF IInv, PlanInv, ArtifactFollowsRequest, PlanPinned, PlansSound
<1> QED
  BY <1>1, InitIInv, NextIInv, PTL DEF EvidenceSpec

(* Published evidence is never rewritten, whoever retries, stops or restarts. *)
THEOREM ImmutableCorrect == EvidenceSpec => EvidenceImmutable
<1>1. IInv /\ [EvidenceNext]_evidenceVars => [Kept]_evidenceVars
  BY KeptStep DEF IInv
<1>2. EvidenceSpec => [][Kept]_evidenceVars
  BY <1>1, InitIInv, NextIInv, PTL DEF EvidenceSpec
<1> QED
  BY <1>2 DEF EvidenceImmutable, Kept

-----------------------------------------------------------------------------
(* What the document shows of its reads, as the abstract ledger sees it.      *)
Shown == [i \in 1..Len(session.finalizations) |->
             LedgerEntry(session.finalizations[i])]

(* Only the second write of a finalization's commit changes what is shown.    *)
LEMMA OnlyCountMovesLedger ==
  ASSUME Typed, EvidenceNext,
         ~ \E f \in FinalizeJobs : CountFinalization(f)
  PROVE  /\ session'.finalizations = session.finalizations
         /\ session'.counts = session.counts
<1> DEFINE Same == /\ session'.finalizations = session.finalizations
                   /\ session'.counts = session.counts
<1> USE DEF Typed, EvidenceTypeOK, SessionType
<1>1. ASSUME NEW f \in FinalizeJobs,
             ClaimFinalization(f) \/ WriteCompatPlan(f) \/ FinalizeProgress(f)
      PROVE  Same
  <2>1. CASE ClaimFinalization(f) \/ WriteCompatPlan(f)
    BY <2>1 DEF ClaimFinalization, WriteCompatPlan
  <2>2. CASE SaveFinalizationClaim(f) \/ UnwindFinalization(f)
    BY <2>2 DEF SaveFinalizationClaim, UnwindFinalization
  <2>3. CASE \/ SubmitFinalization(f) \/ BeginFinalization(f) \/ ReadHoldout(f)
             \/ AbandonFinalization(f) \/ PublishFinalization(f) \/ Settle(f)
    BY <2>3 DEF SubmitFinalization, BeginFinalization, ReadHoldout,
                AbandonFinalization, PublishFinalization, Settle
  <2> QED BY <1>1, <2>1, <2>2, <2>3 DEF FinalizeProgress
<1>2. CASE \/ \E c \in ComparisonJobs : ClaimComparison(c) \/ CompareProgress(c)
           \/ \E j \in FinalizeJobs \cup ComparisonJobs :
                 Stop(j) /\ UNCHANGED evidenceLocals
           \/ \E p \in PlanRequests : WritePlan(p) \/ SavePlan(p)
           \/ \E w \in Watchers : NoticeStale(w)
  BY <1>2, OthersFrame DEF LedgerFrame
<1>3. ASSUME NEW w \in Watchers, ReleaseStale(w) PROVE Same
  BY <1>3 DEF ReleaseStale
<1>4. CASE EvidenceCrash
  BY <1>4 DEF EvidenceCrash, Crash
<1> HIDE DEF Same
<1>5. Same
  <2>1. CASE \E f \in FinalizeJobs :
                ClaimFinalization(f) \/ WriteCompatPlan(f) \/ FinalizeProgress(f)
    BY <1>1, <2>1
  <2>2. CASE \E w \in Watchers : ReleaseStale(w)
    BY <1>3, <2>2
  <2> QED
    BY <2>1, <1>2, <2>2, <1>4 DEF EvidenceNext, EvidenceStep, Same
<1> QED BY <1>5 DEF Same

(* A counted read is one abstract read: its artifact carries the numbers, the *)
(* label and the consent the ledger asks of the next entry.                   *)
LEMMA CountIsRead ==
  ASSUME IInv, NEW f \in FinalizeJobs, CountFinalization(f)
  PROVE  Ledger!Next
<1> DEFINE n == Len(session.finalizations)
           e == final_files[f]
<1>1. /\ session.finalizations \in Seq(FinalizeJobs) /\ n \in Nat
      /\ session'.finalizations = Append(session.finalizations, f)
      /\ session.counts \in [Fingerprints -> Nat] /\ session.reads \in Nat
      /\ final_files' = final_files /\ e \in FinalType
  BY DEF IInv, Typed, EvidenceTypeOK, SessionType, CountFinalization, files
<1>2. NextEntry(e)
  BY DEF IInv, LedgerInv, CommitNumbered, CountFinalization
<1>3. session'.counts = [session.counts EXCEPT ![e.fp] = @ + 1]
  BY <1>1, <1>2 DEF IInv, Typed, EvidenceTypeOK, SessionType, CountFinalization, NextEntry,
                    FinalType
<1>4. /\ Len(session'.finalizations) = n + 1
      /\ session'.finalizations[n + 1] = f
      /\ \A i \in 1..n : session'.finalizations[i] = session.finalizations[i]
  BY <1>1
<1>5. Shown' = [i \in 1..n + 1 |-> LedgerEntry(session'.finalizations[i])]
  BY <1>1, <1>4 DEF Shown, LedgerEntry
<1>6. /\ Len(Shown) = n /\ Len(Shown') = n + 1
      /\ Shown'[n + 1] = LedgerEntry(f)
  BY <1>1, <1>4, <1>5 DEF Shown
<1>7. Shown' = Append(Shown, LedgerEntry(f))
  <2>1. Append(Shown, LedgerEntry(f)) =
          [i \in 1..n + 1 |-> IF i = n + 1 THEN LedgerEntry(f) ELSE Shown[i]]
    BY <1>1, <1>6 DEF Shown
  <2>2. \A i \in 1..n + 1 :
          LedgerEntry(session'.finalizations[i])
            = IF i = n + 1 THEN LedgerEntry(f) ELSE Shown[i]
    BY <1>1, <1>4 DEF Shown
  <2> QED BY <1>5, <2>1, <2>2
<1>8. LedgerEntry(f) \in Ledger!Entry
  <2>1. e.same \in Nat \ {0}
    BY <1>1, <1>2 DEF NextEntry, FinalType
  <2> QED BY <1>1, <2>1 DEF LedgerEntry, Ledger!Entry, FinalType
<1>9. session.reads = LegacyReads + Len(Shown)
  BY <1>6 DEF IInv, LedgerInv, CounterIsExact
<1>10. Ledger!SeenBefore(e.fp) => ReadBefore(e.fp)
  BY <1>1, <1>9, <1>6, SessionAssumption DEF Ledger!SeenBefore, ReadBefore
<1>11. Ledger!Read(LedgerEntry(f))
  BY <1>2, <1>3, <1>7, <1>9, <1>10
  DEF Ledger!Read, Ledger!Reads, LedgerEntry, NextEntry, Shown
<1> QED
  BY <1>6, <1>8, <1>11 DEF Ledger!Next, Shown

LEMMA StepRefines ==
  ASSUME IInv, [EvidenceNext]_evidenceVars
  PROVE  [Ledger!Next]_<<Shown, session.counts>>
<1>1. ASSUME NEW f \in FinalizeJobs, CountFinalization(f) PROVE Ledger!Next
  BY <1>1, CountIsRead
<1>2. CASE EvidenceNext /\ ~ \E f \in FinalizeJobs : CountFinalization(f)
  <2>1. /\ session'.finalizations = session.finalizations
        /\ session'.counts = session.counts
    BY <1>2, OnlyCountMovesLedger DEF IInv
  <2>2. Kept
    BY <1>2, KeptStep DEF IInv
  <2>3. \A i \in 1..Len(session.finalizations) :
           final_files'[session.finalizations[i]] = final_files[session.finalizations[i]]
    <3>1. session.finalizations \in Seq(FinalizeJobs)
      BY DEF IInv, Typed, EvidenceTypeOK, SessionType
    <3> QED
      BY <2>2, <3>1 DEF Kept, IInv, LedgerInv, CountedExist, Counted
  <2> QED BY <2>1, <2>3 DEF Shown, LedgerEntry
<1>3. CASE UNCHANGED evidenceVars
  BY <1>3 DEF evidenceVars, docVars, Shown, LedgerEntry
<1> QED BY <1>1, <1>2, <1>3

(* What the session says of its holdout is a run of the abstract ledger: a    *)
(* repeated read had consent, only the first is a locked first read, and no   *)
(* entry is lost, doubled or relabelled by any interleaving or exit.          *)
THEOREM LedgerRefinement == EvidenceSpec => ImplementsLedger
<1>1. EvidenceInit => Ledger!Init
  BY DEF EvidenceInit, DocInit, Ledger!Init
<1>2. IInv /\ [EvidenceNext]_evidenceVars =>
         [Ledger!Next]_<<[i \in 1..Len(session.finalizations) |->
                            LedgerEntry(session.finalizations[i])], session.counts>>
  BY StepRefines DEF Shown
<1> QED
  BY <1>1, <1>2, InitIInv, NextIInv, PTL
  DEF EvidenceSpec, ImplementsLedger, Ledger!Spec

-----------------------------------------------------------------------------
(* The reads on disk that the session does not count and nobody is counting.  *)
Unlisted == {f \in FinalizeJobs :
                /\ final_files[f].exists
                /\ f \notin Counted
                /\ pc[f] # "commit_save"}

UnlistedInv == IsFiniteSet(Unlisted) /\ Cardinality(Unlisted) <= crashes

(* Only an exit adds to them: a commit leaves its second write by making it.  *)
LEMMA StepListsReads ==
  ASSUME IInv, EvidenceStep
  PROVE  Unlisted' \subseteq Unlisted /\ crashes' = crashes
<1> USE Roles DEF IInv, Typed, EvidenceTypeOK, Goto, files, evidenceLocals
<1>1. ASSUME NEW f \in FinalizeJobs,
             ClaimFinalization(f) \/ WriteCompatPlan(f) \/ FinalizeProgress(f)
      PROVE  Unlisted' \subseteq Unlisted /\ crashes' = crashes
  <2>1. CASE CountFinalization(f)
    <3>1. /\ session'.finalizations = Append(session.finalizations, f)
          /\ session.finalizations \in Seq(FinalizeJobs)
          /\ final_files' = final_files /\ crashes' = crashes
          /\ \A g \in FinalizeJobs \ {f} : pc'[g] = pc[g]
      BY <2>1 DEF CountFinalization, SessionType
    <3>2. Counted' = Counted \cup {f}
      BY <3>1 DEF Counted
    <3> QED BY <3>1, <3>2 DEF Unlisted
  <2>2. CASE ~ CountFinalization(f)
    <3>1. /\ \A g \in FinalizeJobs \ {f} : pc'[g] = pc[g]
          /\ \A g \in FinalizeJobs \ {f} : final_files'[g] = final_files[g]
          /\ crashes' = crashes
          /\ pc[f] # "commit_save"
          /\ pc'[f] # "commit_save" => final_files'[f] = final_files[f]
      <4>1. CASE PublishFinalization(f)
        <5>1. CASE Reserved(f) /\ ~final_files[f].exists
          BY <4>1, <5>1 DEF PublishFinalization
        <5>2. CASE ~(Reserved(f) /\ ~final_files[f].exists)
          BY <4>1, <5>2 DEF PublishFinalization, Unwinding
        <5> QED BY <5>1, <5>2
      <4>2. CASE \/ ClaimFinalization(f) \/ WriteCompatPlan(f)
                 \/ SaveFinalizationClaim(f) \/ UnwindFinalization(f)
        BY <4>2 DEF ClaimFinalization, WriteCompatPlan, SaveFinalizationClaim,
                    UnwindFinalization
      <4>3. CASE SubmitFinalization(f) \/ BeginFinalization(f)
        BY <4>3 DEF SubmitFinalization, Submitted, BeginFinalization, Unwinding
      <4>4. CASE ReadHoldout(f) \/ AbandonFinalization(f) \/ Settle(f)
        BY <4>4 DEF ReadHoldout, AbandonFinalization, Unwinding, Settle
      <4> QED BY <1>1, <2>2, <4>1, <4>2, <4>3, <4>4 DEF FinalizeProgress
    <3>2. session'.finalizations = session.finalizations
      <4>1. CASE ClaimFinalization(f) \/ WriteCompatPlan(f)
        BY <4>1 DEF ClaimFinalization, WriteCompatPlan, SessionType
      <4>2. CASE SaveFinalizationClaim(f) \/ UnwindFinalization(f)
        BY <4>2 DEF SaveFinalizationClaim, UnwindFinalization, SessionType
      <4>3. CASE \/ SubmitFinalization(f) \/ BeginFinalization(f) \/ ReadHoldout(f)
                 \/ AbandonFinalization(f) \/ PublishFinalization(f) \/ Settle(f)
        BY <4>3 DEF SubmitFinalization, BeginFinalization, ReadHoldout,
                    AbandonFinalization, PublishFinalization, Settle
      <4> QED BY <1>1, <2>2, <4>1, <4>2, <4>3 DEF FinalizeProgress
    <3> QED BY <3>1, <3>2 DEF Unlisted, Counted
  <2> QED BY <2>1, <2>2
<1>2. CASE \/ \E c \in ComparisonJobs : ClaimComparison(c) \/ CompareProgress(c)
           \/ \E j \in FinalizeJobs \cup ComparisonJobs :
                 Stop(j) /\ UNCHANGED evidenceLocals
           \/ \E p \in PlanRequests : WritePlan(p) \/ SavePlan(p)
           \/ \E w \in Watchers : NoticeStale(w)
  <2>1. LedgerFrame
    BY <1>2, OthersFrame
  <2>2. crashes' = crashes
    BY <1>2 DEF ClaimComparison, CompareProgress, SaveComparisonClaim, SubmitComparison,
       BeginComparison, Compare, AbandonComparison, WriteComparison, SaveComparison,
       Settle, Stop, WritePlan, SavePlan, NoticeStale
  <2> QED BY <2>1, <2>2 DEF LedgerFrame, Unlisted, Counted
<1>3. ASSUME NEW w \in Watchers, ReleaseStale(w)
      PROVE  Unlisted' \subseteq Unlisted /\ crashes' = crashes
  BY <1>3 DEF ReleaseStale, SessionType, Unlisted, Counted
<1> QED BY <1>1, <1>2, <1>3 DEF EvidenceStep

(* ... and an exit adds at most the read whose commit held the lock. *)
LEMMA CrashHidesOne ==
  ASSUME IInv, EvidenceCrash
  PROVE  Unlisted' \subseteq Unlisted \cup {io_lock} /\ crashes' = crashes + 1
<1>1. /\ session' = session /\ final_files' = final_files /\ crashes' = crashes + 1
  BY DEF EvidenceCrash, Crash, files
<1>2. \A f \in FinalizeJobs : pc[f] = "commit_save" => io_lock = f
  BY Roles DEF IInv, LedgerInv, LockHolder
<1> QED BY <1>1, <1>2 DEF Unlisted, Counted

LEMMA NextUnlisted ==
  ASSUME IInv, UnlistedInv, [EvidenceNext]_evidenceVars
  PROVE  UnlistedInv'
<1>0. crashes \in Nat /\ Cardinality(Unlisted) \in Nat
  BY FS_CardinalityType, SessionAssumption DEF IInv, Typed, EvidenceTypeOK, UnlistedInv
<1>1. CASE EvidenceStep
  <2>1. Unlisted' \subseteq Unlisted /\ crashes' = crashes
    BY <1>1, StepListsReads
  <2> QED BY <1>0, <2>1, FS_Subset, FS_CardinalityType DEF UnlistedInv
<1>2. CASE EvidenceCrash
  <2> DEFINE More == Unlisted \cup {io_lock}
  <2>1. Unlisted' \subseteq More /\ crashes' = crashes + 1
    BY <1>2, CrashHidesOne
  <2>2. /\ IsFiniteSet(More)
        /\ Cardinality(More) = IF io_lock \in Unlisted THEN Cardinality(Unlisted)
                               ELSE Cardinality(Unlisted) + 1
    BY FS_AddElement DEF UnlistedInv
  <2>3. Cardinality(More) <= crashes + 1
    BY <1>0, <2>2 DEF UnlistedInv
  <2>4. /\ IsFiniteSet(Unlisted') /\ Cardinality(Unlisted') <= Cardinality(More)
        /\ Cardinality(Unlisted') \in Nat /\ Cardinality(More) \in Nat
    BY <2>1, <2>2, FS_Subset, FS_CardinalityType
  <2> QED BY <1>0, <2>1, <2>3, <2>4 DEF UnlistedInv
<1>3. CASE UNCHANGED evidenceVars
  BY <1>3 DEF evidenceVars, docVars, files, UnlistedInv, Unlisted, Counted
<1> QED BY <1>1, <1>2, <1>3 DEF EvidenceNext

(* An exit of the process can hide at most one published read from the        *)
(* session's count, and nothing else can.                                     *)
THEOREM UncountedCorrect == EvidenceSpec => []UncountedOnlyByExit
<1>1. EvidenceInit => UnlistedInv
  <2> SUFFICES ASSUME EvidenceInit PROVE UnlistedInv
    OBVIOUS
  <2>1. Unlisted = {}
    BY DEF EvidenceInit, DocInit, NoFinal, Unlisted
  <2>2. crashes = 0
    BY DEF EvidenceInit, DocInit
  <2> QED BY <2>1, <2>2, FS_EmptySet DEF UnlistedInv
<1>2. IInv /\ UnlistedInv /\ [EvidenceNext]_evidenceVars => UnlistedInv'
  BY NextUnlisted
<1>3. UnlistedInv => UncountedOnlyByExit
  BY DEF UnlistedInv, Unlisted, UncountedOnlyByExit
<1> QED
  BY <1>1, <1>2, <1>3, InitIInv, NextIInv, PTL DEF EvidenceSpec

(* The counters and the finalizations reported as done account for the same   *)
(* reads.                                                                     *)
THEOREM AccountCorrect == EvidenceSpec => []ReadsAccounted
<1>1. CounterIsExact /\ DoneMeansCounted /\ UncountedOnlyByExit => ReadsAccounted
  BY DEF ReadsAccounted
<1> QED
  BY <1>1, CounterCorrect, DoneCorrect, UncountedCorrect, PTL
=============================================================================
