------------------------------ MODULE AgentDesk ------------------------------
(***************************************************************************)
(* What the agent's exchanges leave behind and what people do with it: one *)
(* conversation file per session, proposals promoted to rounds or applied  *)
(* to the session's settings, the thread cleared.  Every request is a job  *)
(* or a thread of its own, and none of them holds a lock between reading a *)
(* file and writing it.  Segments of the search (module SessionSegments)   *)
(* are here as far as they read and write the same two files.              *)
(***************************************************************************)
EXTENDS AgentTurn, Splits, SequencesExt

CONSTANTS
    StartConfig,    \* the settings the session was created with
    MaxListed,      \* bound: rounds the session's directory may hold
    Embargo         \* days the session was created to leave between its parts

VARIABLES
    conversation,   \* conversation.json: exchanges; <<>> stands for no file
    session,        \* session.json
    round_files,    \* rounds/*.json
    searched,       \* trial_count of checkpoint.json
    errand,         \* per request: a promotion or a patch on its way
    segment,        \* a continue and the copy of the session it works on
    measured        \* history: what users chose for the measurement

deskVars == <<turn, conversation, session, round_files, searched, errand, segment, measured>>

(* What a user chose to measure with: no patch of an agent may touch it.     *)
Measurement(config) == [k \in Protected |-> config[k]]

(* Labels reach over no boundary of the session, which has its embargo for   *)
(* good.                                                                     *)
EmbargoCovers(config) == LabelSpan(config.horizon, config.execution) <= Embargo

ASSUME DeskAssumption ==
    /\ DOMAIN StartConfig = Settings /\ LegalConfig(StartConfig)
    /\ EmbargoCovers(StartConfig)
    /\ MaxListed \in Nat \ {0} /\ Embargo \in Nat

NoRound == [origin |-> "none", trials |-> 0, cost |-> 0, parent |-> 0]
FirstRound == [NoRound EXCEPT !.origin = "search", !.trials = 1]
NoErrand == [step |-> "idle", kind |-> "factor", id |-> <<>>, thread |-> <<>>,
             parent |-> 0, index |-> 0, doc |-> <<>>]
NoSegment == [step |-> "idle", config |-> <<>>, copy |-> <<>>, index |-> 0]

(* A session whose first segment has committed.                              *)
DeskInit ==
    /\ TurnInit
    /\ conversation = <<>>
    /\ session = [config |-> StartConfig, trials |-> 1, rounds |-> <<0>>]
    /\ round_files = [i \in 0 .. MaxListed - 1 |-> IF i = 0 THEN FirstRound ELSE NoRound]
    /\ searched = 1
    /\ errand = [d \in Desks |-> NoErrand]
    /\ segment = NoSegment
    /\ measured = {Measurement(StartConfig)}

Idle(d) == turn[d].step = "idle" /\ errand[d].step = "idle"

-----------------------------------------------------------------------------
(* Conversation: the whole thread is read, and written, at once.             *)

Proposals(thread) == UNION {Range(thread[i].proposals) : i \in DOMAIN thread}

(* _find_proposal.                                                           *)
Open(thread, id, kind) ==
    \E p \in Proposals(thread) : p.id = id /\ ~p.applied /\ p.kind = kind

Staging(thread, id) ==
    CHOOSE i \in DOMAIN thread : \E p \in Range(thread[i].proposals) : p.id = id

ProposalOf(thread, id) == CHOOSE p \in Proposals(thread) : p.id = id

(* total_trials.                                                             *)
TotalTrials(thread) ==
    LET UpTo[n \in 0 .. Len(thread)] ==
            IF n = 0 THEN 0 ELSE UpTo[n - 1] + Counted(thread[n].log)
    IN  UpTo[Len(thread)]

Applied(thread, id) ==
    [i \in DOMAIN thread |-> [thread[i] EXCEPT !.proposals =
        [k \in DOMAIN @ |-> [@[k] EXCEPT !.applied = @ \/ thread[i].proposals[k].id = id]]]]

-----------------------------------------------------------------------------
(* POST .../messages.                                                        *)

AskMessage(d) ==
    /\ Idle(d)
    /\ BeginTurn(d, session.config)
    /\ UNCHANGED <<conversation, session, round_files, searched, errand, segment, measured>>

StartMessage(d) ==
    /\ StartTurn(d)
    /\ errand' = [errand EXCEPT ![d].thread = conversation]
    /\ UNCHANGED <<conversation, session, round_files, searched, segment, measured>>

MessageStep(d) ==
    /\ ModelFails(d) \/ ModelReplies(d) \/ ToolStep(d)
    /\ UNCHANGED <<conversation, session, round_files, searched, errand, segment, measured>>

(* Both sides of the exchange are added to the thread read when it began.    *)
SaveMessage(d) ==
    /\ turn[d].step = "closing"
    /\ \E late \in {turn[d].late, TRUE} :
          conversation' = Append(errand[d].thread, Ended([turn[d] EXCEPT !.late = late]))
    /\ Becomes(d, [Resting EXCEPT !.step = "done"])
    /\ errand' = [errand EXCEPT ![d] = NoErrand]
    /\ UNCHANGED <<session, round_files, searched, segment, measured>>

ClearConversation ==
    /\ conversation # <<>>
    /\ conversation' = <<>>
    /\ UNCHANGED <<turn, session, round_files, searched, errand, segment, measured>>

-----------------------------------------------------------------------------
(* POST .../promote: planned in the request, done by a job.                  *)

PlanPromotion(d, id) ==
    /\ Idle(d)
    /\ Open(conversation, id, "factor")
    /\ errand' = [errand EXCEPT ![d] = [NoErrand EXCEPT !.step = "planned", !.id = id]]
    /\ UNCHANGED <<turn, conversation, session, round_files, searched, segment, measured>>

(* The last round the agent did not write.                                   *)
ParentRound ==
    LET own == {i \in DOMAIN session.rounds : round_files[session.rounds[i]].origin # "agent"}
    IN  IF own = {} THEN 0 ELSE session.rounds[Max(own)]

Ends(d) == errand' = [errand EXCEPT ![d] = [NoErrand EXCEPT !.step = "done"]]

StartPromotion(d) ==
    /\ errand[d].step = "planned"
    /\ IF Open(conversation, errand[d].id, "factor")
       THEN errand' = [errand EXCEPT ![d].step = "validating", ![d].thread = conversation,
                                     ![d].parent = ParentRound]
       ELSE Ends(d)
    /\ UNCHANGED <<turn, conversation, session, round_files, searched, segment, measured>>

(* The staged tree is malformed, or its validation raises.                   *)
ValidationFails(d) ==
    /\ errand[d].step = "validating"
    /\ Ends(d)
    /\ UNCHANGED <<turn, conversation, session, round_files, searched, segment, measured>>

(* After the validation the session is read again, the trials of the thread  *)
(* are added, and the round's file is written under the next index.          *)
FoldTrials(d) ==
    /\ errand[d].step = "validating"
    /\ LET e == errand[d]
           trials == TotalTrials(e.thread)
           index == IF session.rounds = <<>> THEN 0 ELSE Max(Range(session.rounds)) + 1
       IN  /\ index < MaxListed
           /\ round_files' = [round_files EXCEPT ![index] =
                 [origin |-> "agent", trials |-> trials, parent |-> e.parent,
                  cost |-> e.thread[Staging(e.thread, e.id)].shown]]
           /\ errand' = [errand EXCEPT
                 ![d].step = "written", ![d].index = index,
                 ![d].doc = [session EXCEPT !.trials = @ + trials, !.rounds = Append(@, index)]]
    /\ UNCHANGED <<turn, conversation, session, searched, segment, measured>>

SaveDocument(d) ==
    /\ errand[d].step = "written"
    /\ session' = errand[d].doc
    /\ errand' = [errand EXCEPT ![d].step = "saved"]
    /\ UNCHANGED <<turn, conversation, round_files, searched, segment, measured>>

-----------------------------------------------------------------------------
(* POST .../apply-config.                                                    *)

AskPatch(d, id) ==
    /\ Idle(d)
    /\ Open(conversation, id, "config")
    /\ errand' = [errand EXCEPT ![d] = [NoErrand EXCEPT !.step = "found", !.kind = "config",
                                            !.id = id, !.thread = conversation]]
    /\ UNCHANGED <<turn, conversation, session, round_files, searched, segment, measured>>

(* A faulty variant: what was legal in the exchange is taken to be legal.    *)
CheckPatch_Trusted(d) ==
    /\ errand[d].step = "found"
    /\ LET patch == ProposalOf(errand[d].thread, errand[d].id).of
       IN  errand' = [errand EXCEPT ![d].step = "written",
                          ![d].doc = [session EXCEPT !.config = Merged(patch, @)]]
    /\ UNCHANGED <<turn, conversation, session, round_files, searched, segment, measured>>

(* The patch is validated again, on the settings of now.                     *)
CheckPatch(d) ==
    /\ errand[d].step = "found"
    /\ LET patch == ProposalOf(errand[d].thread, errand[d].id).of
       IN  IF PatchAccepted(patch, session.config)
           THEN errand' = [errand EXCEPT ![d].step = "written",
                              ![d].doc = [session EXCEPT !.config = Merged(patch, @)]]
           ELSE Ends(d)
    /\ UNCHANGED <<turn, conversation, session, round_files, searched, segment, measured>>

(* Promoted or applied: the thread read at the start is saved with the mark. *)
MarkApplied(d) ==
    /\ errand[d].step = "saved"
    /\ conversation' = Applied(errand[d].thread, errand[d].id)
    /\ Ends(d)
    /\ UNCHANGED <<turn, session, round_files, searched, segment, measured>>

ErrandStep(d) ==
    \/ StartPromotion(d) \/ ValidationFails(d) \/ FoldTrials(d) \/ SaveDocument(d)
    \/ CheckPatch(d) \/ MarkApplied(d)

-----------------------------------------------------------------------------
(* POST .../continue: the settings are what the session's were when the      *)
(* request came, changed by what it brings; refused where the execution is   *)
(* another or labels would reach too far.  Bound: one continue at a time.    *)
AskContinue(change) ==
    /\ segment.step = "idle"
    /\ LET config == Merged(change, session.config)
       IN  /\ LegalConfig(config) /\ EmbargoCovers(config)
           /\ config.execution = session.config.execution
           /\ segment' = [NoSegment EXCEPT !.step = "asked", !.config = config]
           /\ measured' = measured \cup {Measurement(config)}
    /\ UNCHANGED <<turn, conversation, session, round_files, searched, errand>>

(* The session is reserved, read again, and saved with these settings.       *)
ClaimSession ==
    /\ segment.step = "asked"
    /\ segment' = [segment EXCEPT !.step = "claimed",
                                  !.copy = [session EXCEPT !.config = segment.config]]
    /\ UNCHANGED <<turn, conversation, session, round_files, searched, errand, measured>>

SaveSettings ==
    /\ segment.step = "claimed"
    /\ session' = segment.copy
    /\ segment' = [segment EXCEPT !.step = "queued", !.copy = <<>>]
    /\ UNCHANGED <<turn, conversation, round_files, searched, errand, measured>>

(* run_segment, from the load of the session to its last save.               *)
BeginSegment ==
    /\ segment.step = "queued"
    /\ segment' = [segment EXCEPT !.step = "training", !.copy = session]
    /\ UNCHANGED <<turn, conversation, session, round_files, searched, errand, measured>>

WriteSegment ==
    /\ segment.step = "training"
    /\ LET free == {i \in DOMAIN round_files :
                       i >= Len(segment.copy.rounds) /\ round_files[i] = NoRound}
       IN  /\ free # {}
           /\ segment' = [segment EXCEPT !.step = "written", !.index = Min(free)]
           /\ round_files' = [round_files EXCEPT ![Min(free)] = FirstRound]
    /\ searched' = searched + 1
    /\ UNCHANGED <<turn, conversation, session, errand, measured>>

(* The session's count becomes the search's own.                             *)
SaveSegment ==
    /\ segment.step = "written"
    /\ session' = [segment.copy EXCEPT !.trials = searched,
                                       !.rounds = Append(@, segment.index)]
    /\ segment' = NoSegment
    /\ UNCHANGED <<turn, conversation, round_files, searched, errand, measured>>

(* The process exits: what was on its way is gone, the files stay.           *)
ExitDesk ==
    /\ turn' = [d \in Desks |-> IF turn[d].step = "idle" THEN turn[d]
                                ELSE [Resting EXCEPT !.step = "done"]]
    /\ errand' = [d \in Desks |-> IF Idle(d) THEN NoErrand
                                  ELSE [NoErrand EXCEPT !.step = "done"]]
    /\ segment' = NoSegment
    /\ UNCHANGED <<conversation, session, round_files, searched, measured>>

-----------------------------------------------------------------------------
DeskTypeOK ==
    /\ TurnsTypeOK
    /\ DOMAIN session.config = Settings
    /\ session.trials \in Nat /\ searched \in Nat
    /\ Range(session.rounds) \subseteq DOMAIN round_files
    /\ \A d \in Desks : errand[d].step \in {"idle", "planned", "validating", "written",
                                            "saved", "found", "done"}
    /\ segment.step \in {"idle", "asked", "claimed", "queued", "training", "written"}

(* "a patch that was legal then may not be legal now" (service.py 237), and  *)
(* what defines the measurement is out of an agent's reach (guards.py        *)
(* 275-297): in whatever order patches are staged, applied, interrupted, and *)
(* overwritten by the settings of a continue or a segment's copy, the        *)
(* session's settings are ones a search accepts and its embargo covers, with *)
(* the execution it was created with, and measure as a user chose to, at the *)
(* start or with a continue.                                                 *)
PatchesStayLegal ==
    /\ LegalConfig(session.config) /\ EmbargoCovers(session.config)
    /\ session.config.execution = StartConfig.execution
    /\ Measurement(session.config) \in measured

(* A round the agent wrote carries at least the evaluations whose scores the *)
(* model saw in the exchange that staged it, however that exchange ended and *)
(* whatever was saved over the conversation since (promote.py 16-21).        *)
RoundsCarryTheirSearch ==
    \A i \in DOMAIN round_files :
        round_files[i].origin = "agent" => round_files[i].trials >= round_files[i].cost

(* "Approving a proposal folds the run's spend into the session's cumulative *)
(* trial count, so later deflated statistics stay honest about the search    *)
(* that produced the factor" (README.md 280-282): the session counts the     *)
(* trials of every round it lists.                                           *)
FoldedTrialsStay ==
    session.trials >= FoldSeq(LAMBDA i, n : n + round_files[i].trials, 0, session.rounds)
=============================================================================
