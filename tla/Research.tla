------------------------------- MODULE Research -------------------------------
(***************************************************************************)
(* The research of one session: the agent's desk, the genetic search, the  *)
(* tuner of its workers and the evidence, with the one place where the     *)
(* first writes what the second reads.  Clients, the model and the market  *)
(* send a bounded number of requests, so that a behaviour ends when all    *)
(* are answered.                                                           *)
(***************************************************************************)
EXTENDS AgentDesk, SearchRun, Validation, WorkerTuner

CONSTANT Budgets    \* bound: how many requests of each kind, and which

VARIABLE budget

(* What a session may be created with, and a search run with.                *)
ASSUME BudgetsAssumption ==
    \A b \in Budgets :
        /\ {"choices", "runs"} \subseteq DOMAIN b
        /\ \A choice \in b.choices :
              choice.train \in Nat /\ choice.valid \in Nat /\ choice.embargo \in Nat
        /\ \A run \in b.runs : run.horizon \in Nat \ {0}

researchVars == <<deskVars, searchVars, tunerVars, validationVars, budget>>

Init ==
    /\ DeskInit /\ SearchInit /\ TunerInit /\ ValidationInit
    /\ budget \in Budgets
    /\ market.days \in budget.days /\ process \in budget.kernels

Spends(kind) == budget[kind] > 0 /\ budget' = [budget EXCEPT ![kind] = @ - 1]

DeskAlone == UNCHANGED <<searchVars, tunerVars, validationVars>>
SearchAlone == UNCHANGED <<deskVars, tunerVars, validationVars>>
TunerAlone == UNCHANGED <<deskVars, searchVars, validationVars>>
ValidationAlone == UNCHANGED <<deskVars, searchVars, tunerVars>>

(* Requests are numbered in the order in which they come.                    *)
Fresh(d) == \A e \in Desks : e < d => ~Idle(e)

(* Bound: where budget.apart says so, a segment and a request of the desk    *)
(* are never under way together.                                             *)
DeskRests ==
    \A d \in Desks : turn[d].step \in {"idle", "done"} /\ errand[d].step \in {"idle", "done"}
MayBegin(others_rest) == budget.apart => others_rest

-----------------------------------------------------------------------------
DeskRequest(d) ==
    /\ DeskAlone /\ Fresh(d) /\ MayBegin(segment.step = "idle")
    /\ \/ Spends("messages") /\ AskMessage(d)
       \/ /\ Spends("errands")
          /\ \E p \in Proposals(conversation) : PlanPromotion(d, p.id) \/ AskPatch(d, p.id)

(* Bound: what the model asks for, where it asks for anything.               *)
ModelAsks(d) ==
    ModelReplies(d) => turn'[d].asked \in budget.replies \cup {<<>>}

DeskStep(d) ==
    /\ UNCHANGED <<validationVars, tunerVars, budget>>
    /\ \/ /\ StartMessage(d) \/ SaveMessage(d) \/ ErrandStep(d)
             \/ (MessageStep(d) /\ ModelAsks(d))
          /\ UNCHANGED searchVars
       \/ /\ SaveDocument(d) /\ errand[d].kind = "config"
          /\ \E measure \in Measures : PatchMeasure(measure)

SegmentStep ==
    /\ DeskAlone
    /\ \/ /\ Spends("segments") /\ MayBegin(DeskRests)
          /\ \E change \in budget.settings : AskContinue(change)
       \/ /\ UNCHANGED budget
          /\ ClaimSession \/ SaveSettings \/ BeginSegment \/ WriteSegment \/ SaveSegment
       \/ Spends("upsets") /\ (ClearConversation \/ ExitDesk)

SearchRequest ==
    /\ SearchAlone
    /\ \/ Spends("asks") /\ \E more \in 1 .. 2 : Continue(settings, more, <<>>)
       \/ /\ Spends("changes")
          /\ \/ \E measure \in Measures : Continue(measure, 1, <<>>)
             \/ \E t \in Trees : Continue(settings, 1, <<t>>)
       \/ Spends("stops") /\ \E why \in {"user", "time"} : StopSearch(why)
       \/ Spends("exits") /\ ExitSearch

GenerationStep ==
    /\ SearchAlone /\ UNCHANGED budget
    /\ SearchStep

(* Batch by batch; what a segment's tuner does, no other part sees.          *)
TunerStep ==
    /\ TunerAlone
    /\ \/ Spends("tunings") /\ \E ceiling \in Ceilings : BeginTuning(ceiling)
       \/ Spends("batches") /\ \E size \in BatchSizes : ChooseWorkers(size)
       \/ UNCHANGED budget /\ (SaveTuning \/ DropTuning \/ \E cost \in Costs : ObserveBatch(cost))

EvidenceRequest ==
    /\ ValidationAlone
    /\ \/ UNCHANGED budget
          /\ \E choice \in budget.choices, run \in budget.runs : CreateSession(choice, run)
       \/ /\ Spends("rounds")
          /\ \E pool \in Pools, run \in budget.runs : SelectRound(pool, run)
       \/ /\ Spends("reports")
          /\ \E r \in DOMAIN judged_rounds, plan \in Plans : StartReport(r, plan)
       \/ /\ Spends("comparisons")
          /\ \E r \in DOMAIN judged_rounds, plan \in Plans : CompareStrategies(r, plan)
       \/ Spends("report_stops") /\ StopReport
       \/ Spends("syncs") /\ SyncPrices
       \/ Spends("damages") /\ (ExitReport \/ DamageSummary)

EvidenceStep ==
    /\ ValidationAlone /\ UNCHANGED budget
    /\ ReportStep

Next ==
    \/ \E d \in Desks : DeskRequest(d) \/ DeskStep(d)
    \/ SegmentStep
    \/ SearchRequest \/ GenerationStep
    \/ TunerStep
    \/ EvidenceRequest \/ EvidenceStep

Spec == Init /\ [][Next]_researchVars

ResearchTypeOK == DeskTypeOK /\ SearchTypeOK /\ TunerTypeOK /\ ValidationTypeOK
=============================================================================
