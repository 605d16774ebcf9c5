---------------------------- MODULE JobStore_proofs ----------------------------
(***************************************************************************)
(* The safety of the job registry for any jobs and any number of           *)
(* cancelling requests, and that it implements the abstract lifecycle.      *)
(***************************************************************************)
EXTENDS JobStore, TLAPS

-----------------------------------------------------------------------------
(* What the worker thread has reached determines the recorded status. *)
Working == {"body", "crossing", "locked", "cancelled", "raised", "returned"}

StatusFollowsWorker ==
    \A j \in Jobs :
        /\ worker[j] = "none" => status[j] = "absent"
        /\ worker[j] \in {"unstarted", "starting"} => status[j] = "queued"
        /\ worker[j] \in Working => status[j] = "running"
        /\ worker[j] \in {"settled", "exited"} => status[j] \in Over \cup {"deleted"}

(* The lock keeps the job a canceller looked at live until it is marked. *)
LockKeepsLive ==
    \A c \in Cancellers :
        lock = c => target[c] \in Jobs /\ status[target[c]] \in Live

(* An event that is set was, or is just being, announced. *)
CancelIsTold ==
    \A j \in cancel :
        j \in told \/ \E c \in Cancellers : lock = c /\ target[c] = j

(* Only a job with its event set ends early. *)
EarlyIsCancelled ==
    /\ early \subseteq cancel
    /\ \A j \in Jobs : worker[j] = "cancelled" => j \in cancel

(* Between the outcome and the last phase, "early" tells them apart. *)
SettledKnowsOutcome ==
    \A j \in Jobs :
        worker[j] = "settled" =>
            /\ status[j] = "stopped" => j \in early
            /\ status[j] = "done" => j \notin early

IInv ==
    /\ TypeOK
    /\ StatusFollowsWorker
    /\ LockKeepsLive
    /\ CancelIsTold
    /\ EarlyIsCancelled
    /\ SettledKnowsOutcome
    /\ StoppedWasTold
    /\ PhaseAgreesWithOutcome

LEMMA InitIInv == Init => IInv
  BY JobStoreAssumption
  DEF Init, IInv, TypeOK, StatusFollowsWorker, LockKeepsLive, CancelIsTold,
      EarlyIsCancelled, SettledKnowsOutcome, StoppedWasTold, PhaseAgreesWithOutcome,
      Lifecycle!Statuses, Lifecycle!Outcomes, WorkerStates, Phases, Working

(* The conjuncts of the invariant, for the steps of one job's worker. *)
LEMMA WorkIInv ==
  ASSUME IInv, NEW j \in Jobs, Work(j)
  PROVE  IInv'
<1> USE JobStoreAssumption DEF IInv, TypeOK, Lifecycle!Statuses, Lifecycle!Outcomes,
        WorkerStates, Phases
<1>1. CASE Submit(j)
  <2>1. TypeOK' BY <1>1 DEF Submit
  <2>2. StatusFollowsWorker' BY <1>1 DEF Submit, StatusFollowsWorker, Working, Over
  <2>3. LockKeepsLive' BY <1>1 DEF Submit, LockKeepsLive
  <2>4. CancelIsTold' /\ EarlyIsCancelled'
    BY <1>1 DEF Submit, CancelIsTold, EarlyIsCancelled
  <2>5. SettledKnowsOutcome' BY <1>1 DEF Submit, SettledKnowsOutcome
  <2>6. StoppedWasTold' /\ PhaseAgreesWithOutcome'
    BY <1>1 DEF Submit, StoppedWasTold, PhaseAgreesWithOutcome
  <2> QED BY <2>1, <2>2, <2>3, <2>4, <2>5, <2>6
<1>2. CASE Start(j)
  <2>1. TypeOK' BY <1>2 DEF Start
  <2>2. StatusFollowsWorker' BY <1>2 DEF Start, StatusFollowsWorker, Working, Over
  <2>3. LockKeepsLive' BY <1>2 DEF Start, LockKeepsLive
  <2>4. CancelIsTold' /\ EarlyIsCancelled'
    BY <1>2 DEF Start, CancelIsTold, EarlyIsCancelled
  <2>5. SettledKnowsOutcome' BY <1>2 DEF Start, SettledKnowsOutcome
  <2>6. StoppedWasTold' /\ PhaseAgreesWithOutcome'
    BY <1>2 DEF Start, StoppedWasTold, PhaseAgreesWithOutcome
  <2> QED BY <2>1, <2>2, <2>3, <2>4, <2>5, <2>6
<1>3. CASE Publish(j)
  <2>1. TypeOK' BY <1>3 DEF Publish
  <2>2. StatusFollowsWorker' BY <1>3 DEF Publish, StatusFollowsWorker
  <2>3. LockKeepsLive' BY <1>3 DEF Publish, LockKeepsLive
  <2>4. CancelIsTold' /\ EarlyIsCancelled'
    BY <1>3 DEF Publish, CancelIsTold, EarlyIsCancelled
  <2>5. SettledKnowsOutcome' BY <1>3 DEF Publish, SettledKnowsOutcome
  <2>6. StoppedWasTold' /\ PhaseAgreesWithOutcome'
    BY <1>3 DEF Publish, StoppedWasTold, PhaseAgreesWithOutcome
  <2> QED BY <2>1, <2>2, <2>3, <2>4, <2>5, <2>6
<1>4. CASE SeeCancel(j)
  <2>1. TypeOK' BY <1>4 DEF SeeCancel
  <2>2. StatusFollowsWorker' BY <1>4 DEF SeeCancel, StatusFollowsWorker, Working
  <2>3. LockKeepsLive' BY <1>4 DEF SeeCancel, LockKeepsLive
  <2>4. CancelIsTold' /\ EarlyIsCancelled'
    BY <1>4 DEF SeeCancel, CancelIsTold, EarlyIsCancelled
  <2>5. SettledKnowsOutcome' BY <1>4 DEF SeeCancel, SettledKnowsOutcome
  <2>6. StoppedWasTold' /\ PhaseAgreesWithOutcome'
    BY <1>4 DEF SeeCancel, StoppedWasTold, PhaseAgreesWithOutcome
  <2> QED BY <2>1, <2>2, <2>3, <2>4, <2>5, <2>6
<1>5. CASE Raise(j) \/ PassLastPoll(j)
  <2>1. TypeOK' BY <1>5 DEF Raise, PassLastPoll
  <2>2. StatusFollowsWorker'
    BY <1>5 DEF Raise, PassLastPoll, StatusFollowsWorker, Working
  <2>3. LockKeepsLive' BY <1>5 DEF Raise, PassLastPoll, LockKeepsLive
  <2>4. CancelIsTold' /\ EarlyIsCancelled'
    BY <1>5 DEF Raise, PassLastPoll, CancelIsTold, EarlyIsCancelled
  <2>5. SettledKnowsOutcome' BY <1>5 DEF Raise, PassLastPoll, SettledKnowsOutcome
  <2>6. StoppedWasTold' /\ PhaseAgreesWithOutcome'
    BY <1>5 DEF Raise, PassLastPoll, StoppedWasTold, PhaseAgreesWithOutcome
  <2> QED BY <2>1, <2>2, <2>3, <2>4, <2>5, <2>6
<1>6. CASE CrossBoundary(j) \/ Return(j)
  <2>1. TypeOK' BY <1>6 DEF CrossBoundary, Return
  <2>2. StatusFollowsWorker'
    BY <1>6 DEF CrossBoundary, Return, StatusFollowsWorker, Working
  <2>3. LockKeepsLive' BY <1>6 DEF CrossBoundary, Return, LockKeepsLive
  <2>4. CancelIsTold' /\ EarlyIsCancelled'
    BY <1>6 DEF CrossBoundary, Return, CancelIsTold, EarlyIsCancelled
  <2>5. SettledKnowsOutcome' BY <1>6 DEF CrossBoundary, Return, SettledKnowsOutcome
  <2>6. StoppedWasTold' /\ PhaseAgreesWithOutcome'
    BY <1>6 DEF CrossBoundary, Return, StoppedWasTold, PhaseAgreesWithOutcome
  <2> QED BY <2>1, <2>2, <2>3, <2>4, <2>5, <2>6
<1>7. CASE Settle(j)
  <2>0. /\ Outcome(j) \in Over
        /\ Outcome(j) = "stopped" => worker[j] = "cancelled" \/ j \in early
        /\ Outcome(j) = "done" => worker[j] # "cancelled" /\ j \notin early
        /\ worker[j] = "raised" <=> Outcome(j) = "failed"
    BY DEF Outcome, Over
  <2>1. TypeOK' BY <1>7, <2>0 DEF Settle, Over
  <2>2. StatusFollowsWorker' BY <1>7, <2>0 DEF Settle, StatusFollowsWorker, Working
  <2>3. LockKeepsLive' BY <1>7 DEF Settle, LockKeepsLive
  <2>4. CancelIsTold' /\ EarlyIsCancelled'
    BY <1>7 DEF Settle, CancelIsTold, EarlyIsCancelled
  <2>5. SettledKnowsOutcome' BY <1>7, <2>0 DEF Settle, SettledKnowsOutcome
  <2>6. StoppedWasTold'
    BY <1>7, <2>0 DEF Settle, StoppedWasTold, CancelIsTold, EarlyIsCancelled
  <2>7. PhaseAgreesWithOutcome' BY <1>7, <2>0 DEF Settle, PhaseAgreesWithOutcome
  <2> QED BY <2>1, <2>2, <2>3, <2>4, <2>5, <2>6, <2>7
<1>8. CASE FinishProgress(j)
  <2>1. TypeOK' BY <1>8 DEF FinishProgress
  <2>2. StatusFollowsWorker' BY <1>8 DEF FinishProgress, StatusFollowsWorker, Working
  <2>3. LockKeepsLive' BY <1>8 DEF FinishProgress, LockKeepsLive
  <2>4. CancelIsTold' /\ EarlyIsCancelled'
    BY <1>8 DEF FinishProgress, CancelIsTold, EarlyIsCancelled
  <2>5. SettledKnowsOutcome' BY <1>8 DEF FinishProgress, SettledKnowsOutcome
  <2>6. StoppedWasTold' BY <1>8 DEF FinishProgress, StoppedWasTold
  <2>7. PhaseAgreesWithOutcome'
    BY <1>8 DEF FinishProgress, PhaseAgreesWithOutcome, SettledKnowsOutcome
  <2> QED BY <2>1, <2>2, <2>3, <2>4, <2>5, <2>6, <2>7
<1>9. CASE Delete(j)
  <2>1. TypeOK' BY <1>9 DEF Delete
  <2>2. StatusFollowsWorker' BY <1>9 DEF Delete, StatusFollowsWorker, Working, Over
  <2>3. LockKeepsLive' BY <1>9 DEF Delete, LockKeepsLive
  <2>4. CancelIsTold' /\ EarlyIsCancelled'
    BY <1>9 DEF Delete, CancelIsTold, EarlyIsCancelled
  <2>5. SettledKnowsOutcome' BY <1>9 DEF Delete, SettledKnowsOutcome
  <2>6. StoppedWasTold' /\ PhaseAgreesWithOutcome'
    BY <1>9 DEF Delete, StoppedWasTold, PhaseAgreesWithOutcome
  <2> QED BY <2>1, <2>2, <2>3, <2>4, <2>5, <2>6
<1> QED
  BY <1>1, <1>2, <1>3, <1>4, <1>5, <1>6, <1>7, <1>8, <1>9 DEF Work

(* A canceller never touches a job that is over. *)
LEMMA CancelIInv ==
  ASSUME IInv, NEW c \in Cancellers,
         (\E j \in Jobs : CancelLook(c, j)) \/ CancelSignal(c) \/ CancelMark(c)
  PROVE  IInv'
<1> USE JobStoreAssumption DEF IInv, TypeOK, Lifecycle!Statuses, Lifecycle!Outcomes,
        WorkerStates, Phases
<1>1. ASSUME NEW j \in Jobs, CancelLook(c, j) PROVE IInv'
  <2>1. TypeOK' BY <1>1 DEF CancelLook
  <2>2. StatusFollowsWorker' BY <1>1 DEF CancelLook, StatusFollowsWorker
  <2>3. LockKeepsLive' BY <1>1 DEF CancelLook, LockKeepsLive
  <2>4. CancelIsTold' /\ EarlyIsCancelled'
    BY <1>1 DEF CancelLook, CancelIsTold, EarlyIsCancelled
  <2>5. SettledKnowsOutcome' /\ StoppedWasTold' /\ PhaseAgreesWithOutcome'
    BY <1>1 DEF CancelLook, SettledKnowsOutcome, StoppedWasTold, PhaseAgreesWithOutcome
  <2> QED BY <2>1, <2>2, <2>3, <2>4, <2>5
<1>2. CASE CancelSignal(c)
  <2>0. target[c] \in Jobs BY <1>2 DEF CancelSignal, LockKeepsLive
  <2>1. TypeOK' BY <1>2, <2>0 DEF CancelSignal
  <2>2. StatusFollowsWorker' BY <1>2 DEF CancelSignal, StatusFollowsWorker
  <2>3. LockKeepsLive' BY <1>2 DEF CancelSignal, LockKeepsLive
  <2>4. CancelIsTold' /\ EarlyIsCancelled'
    BY <1>2 DEF CancelSignal, CancelIsTold, EarlyIsCancelled
  <2>5. SettledKnowsOutcome' /\ StoppedWasTold' /\ PhaseAgreesWithOutcome'
    BY <1>2 DEF CancelSignal, SettledKnowsOutcome, StoppedWasTold, PhaseAgreesWithOutcome
  <2> QED BY <2>1, <2>2, <2>3, <2>4, <2>5
<1>3. CASE CancelMark(c)
  <2>0. target[c] \in Jobs /\ status[target[c]] \in Live
    BY <1>3 DEF CancelMark, LockKeepsLive
  <2>1. TypeOK' BY <1>3, <2>0 DEF CancelMark
  <2>2. StatusFollowsWorker' BY <1>3 DEF CancelMark, StatusFollowsWorker
  <2>3. LockKeepsLive' BY <1>3 DEF CancelMark, LockKeepsLive
  <2>4. CancelIsTold' /\ EarlyIsCancelled'
    BY <1>3 DEF CancelMark, CancelIsTold, EarlyIsCancelled
  <2>5. SettledKnowsOutcome' /\ StoppedWasTold'
    BY <1>3 DEF CancelMark, SettledKnowsOutcome, StoppedWasTold
  <2>6. PhaseAgreesWithOutcome'
    BY <1>3, <2>0 DEF CancelMark, PhaseAgreesWithOutcome, Live
  <2> QED BY <2>1, <2>2, <2>3, <2>4, <2>5, <2>6
<1> QED BY <1>1, <1>2, <1>3

LEMMA NextIInv == IInv /\ [Next]_vars => IInv'
<1> SUFFICES ASSUME IInv, [Next]_vars PROVE IInv'
  OBVIOUS
<1>1. CASE Next
  BY <1>1, WorkIInv, CancelIInv DEF Next
<1>2. CASE UNCHANGED vars
  BY <1>2 DEF vars, IInv, TypeOK, StatusFollowsWorker, LockKeepsLive, CancelIsTold,
      EarlyIsCancelled, SettledKnowsOutcome, StoppedWasTold, PhaseAgreesWithOutcome
<1> QED BY <1>1, <1>2

-----------------------------------------------------------------------------
(* The registry's state is well formed. *)
THEOREM TypeCorrect == Spec => []TypeOK
<1>1. IInv => TypeOK
  BY DEF IInv
<1> QED
  BY <1>1, InitIInv, NextIInv, PTL DEF Spec

(* Once a job's thread is gone, the phase clients poll is its outcome, and    *)
(* no job is reported as stopped before a request was told that it stops.     *)
(* The invariant behind it is that the lock keeps a job live from the moment  *)
(* a canceller has looked at it to the moment it has marked it.               *)
THEOREM ClientsCorrect == Spec => []ClientsHearTheOutcome
<1>1. IInv => ClientsHearTheOutcome
  BY DEF IInv, ClientsHearTheOutcome
<1> QED
  BY <1>1, InitIInv, NextIInv, PTL DEF Spec

-----------------------------------------------------------------------------
(* Every step moves one job along its lifecycle or none. *)
LEMMA StepRefines == IInv /\ [Next]_vars => [Lifecycle!Next]_status
<1> SUFFICES ASSUME IInv, [Next]_vars PROVE [Lifecycle!Next]_status
  OBVIOUS
<1> USE DEF Lifecycle!Next, Lifecycle!Move, Lifecycle!Outcomes
<1>1. ASSUME NEW j \in Jobs, Work(j) PROVE [Lifecycle!Next]_status
  <2>1. CASE Submit(j)
    BY <2>1 DEF Submit
  <2>2. CASE Start(j)
    BY <2>2 DEF Start, IInv, StatusFollowsWorker
  <2>3. CASE \/ Publish(j) \/ SeeCancel(j) \/ Raise(j) \/ PassLastPoll(j)
             \/ CrossBoundary(j) \/ Return(j) \/ FinishProgress(j)
    BY <2>3 DEF Publish, SeeCancel, Raise, PassLastPoll, CrossBoundary, Return,
                FinishProgress
  <2>4. CASE Settle(j)
    <3>1. Outcome(j) \in {"done", "stopped", "failed"}
      BY DEF Outcome
    <3>2. status[j] = "running"
      BY <2>4 DEF Settle, IInv, StatusFollowsWorker, Working
    <3> QED
      BY <2>4, <3>1, <3>2 DEF Settle
  <2>5. CASE Delete(j)
    BY <2>5 DEF Delete, Over
  <2> QED
    BY <1>1, <2>1, <2>2, <2>3, <2>4, <2>5 DEF Work
<1>2. ASSUME NEW c \in Cancellers,
             (\E j \in Jobs : CancelLook(c, j)) \/ CancelSignal(c) \/ CancelMark(c)
      PROVE  UNCHANGED status
  BY <1>2 DEF CancelLook, CancelSignal, CancelMark
<1>3. CASE UNCHANGED vars
  BY <1>3 DEF vars
<1> QED
  BY <1>1, <1>2, <1>3 DEF Next

(* The registry implements the abstract lifecycle: no job starts twice, ends *)
(* twice, changes its outcome, or is forgotten while it is live.             *)
THEOREM Refinement == Spec => ImplementsLifecycle
<1>1. Init => Lifecycle!Init
  BY DEF Init, Lifecycle!Init
<1> QED
  BY <1>1, InitIInv, NextIInv, StepRefines, PTL
  DEF Spec, ImplementsLifecycle, Lifecycle!Spec
=============================================================================
