------------------------------ MODULE AgentTurn ------------------------------
(***************************************************************************)
(* One exchange with the agent: a budgeted loop of a model node and a      *)
(* tools node.  The model is the environment: it asks for any of Replies,  *)
(* answers in prose, or fails.  Every call of a known tool is charged;     *)
(* evaluations are charged and counted as trials besides.                  *)
(***************************************************************************)
EXTENDS SearchConfig, Sequences

CONSTANTS
    Desks,           \* requests to the agent, each with a job of its own
    MaxToolCalls,    \* Budget
    MaxScores,       \* Budget: evaluations of one exchange
    MaxTokens,       \* Budget
    MaxSteps,        \* MAX_STEPS of an exchange
    Replies,         \* bound: lists of calls the model may ask for at once
    ReplyTokens,     \* bound: tokens a reply may cost
    Expressions,     \* expressions the model may write
    NamesIn,         \* per expression: the formulas it names
    Typed            \* expressions that type-check and give a series

VARIABLE turn        \* per request: the exchange its job runs

ASSUME TurnAssumption ==
    /\ MaxToolCalls \in Nat \ {0} /\ MaxScores \in Nat \ {0} /\ MaxTokens \in Nat \ {0}
    /\ MaxSteps \in Nat \ {0}
    /\ NamesIn \in [Expressions -> SUBSET FormulaNames] /\ Typed \subseteq Expressions

(* A superstep per node, and a run may have so many of them.                 *)
RecursionLimit == IF 2 * MaxSteps < 4 THEN 4 ELSE 2 * MaxSteps

(* asked: calls not answered yet; log: calls recorded; shown: scores in the  *)
(* messages, which only the model sees; trials: TrialLedger.                 *)
Resting ==
    [step |-> "idle", config |-> <<>>, asked |-> <<>>, calls |-> 0, scores |-> 0,
     tokens |-> 0, late |-> FALSE, visits |-> 0, trials |-> 0, log |-> <<>>,
     staged |-> <<>>, shown |-> 0, stopped |-> FALSE, finalizing |-> FALSE,
     reason |-> "completed"]

TurnInit == turn = [d \in Desks |-> Resting]

Unlimited(names, config) ==
    config.enabled_formula_names = {} \/ names \subseteq config.enabled_formula_names

(* parse_expression: the names the session's search space offers, and types. *)
Parses(e, config) == e \in Typed /\ Unlimited(NamesIn[e], config)

Exhausted(t) ==
    t.calls >= MaxToolCalls \/ t.scores >= MaxScores \/ t.late \/ t.tokens >= MaxTokens

(* What a conversation counts as trials.                                     *)
Counted(log) ==
    Cardinality({i \in 1 .. Len(log) : log[i] = [tool |-> "evaluate", ok |-> TRUE]})

(* The graph enters a node, or has used its supersteps up.                   *)
Entering(t, node) ==
    IF t.visits < RecursionLimit
    THEN [t EXCEPT !.step = node, !.visits = @ + 1]
    ELSE [t EXCEPT !.step = "closing", !.reason = "loop_limit"]

Becomes(d, t) == turn' = [turn EXCEPT ![d] = t]

-----------------------------------------------------------------------------
BeginTurn(d, config) ==
    /\ turn[d].step = "idle"
    /\ Becomes(d, [Resting EXCEPT !.step = "queued", !.config = config])

(* Without a key, or a model that can call tools, the job fails.             *)
StartTurn(d) ==
    /\ turn[d].step = "queued"
    /\ \/ Becomes(d, Entering(turn[d], "model"))
       \/ Becomes(d, [turn[d] EXCEPT !.step = "failed"])

ModelFails(d) ==
    /\ turn[d].step = "model"
    /\ Becomes(d, [turn[d] EXCEPT !.step = "closing", !.reason = "failed"])

(* route: prose ends the exchange, and so does any reply after a failed tool *)
(* or after the model was told to wrap up.                                   *)
GoesOn(t, calls) == calls # <<>> /\ t.reason # "failed" /\ ~t.finalizing

ModelReplies(d) ==
    /\ turn[d].step = "model"
    /\ \E calls \in Replies \cup {<<>>}, cost \in ReplyTokens :
          LET t == [turn[d] EXCEPT !.tokens = @ + cost, !.asked = calls]
          IN  Becomes(d, IF GoesOn(t, calls) THEN Entering(t, "tools")
                         ELSE [t EXCEPT !.step = "closing"])

-----------------------------------------------------------------------------
(* tools_node: the calls of one reply, in their order.                       *)
NextCall(d) == Head(turn[d].asked)

Asks(d, tool) ==
    turn[d].step = "tools" /\ ~turn[d].stopped /\ turn[d].asked # <<>> /\ NextCall(d).tool = tool

Charged(d, tool) == Asks(d, tool) /\ turn[d].calls < MaxToolCalls

(* The call is recorded with its result, and the model shown it.             *)
Answers(d, t, ok) ==
    Becomes(d, [t EXCEPT !.asked = Tail(@), !.calls = @ + 1,
                         !.log = Append(@, [tool |-> NextCall(d).tool, ok |-> ok])])

(* A name the registry does not know costs nothing.                          *)
UnknownTool(d) ==
    /\ Asks(d, "unknown")
    /\ Becomes(d, [turn[d] EXCEPT !.asked = Tail(@),
                       !.log = Append(@, [tool |-> "unknown", ok |-> FALSE])])

(* A spent allowance stops the node, and the rest of the reply is left out.  *)
OutOfCalls(d) ==
    /\ \E tool \in {"compile", "look", "evaluate", "factor", "patch", "annotate"} :
          Asks(d, tool)
    /\ turn[d].calls >= MaxToolCalls
    /\ Becomes(d, [turn[d] EXCEPT !.stopped = TRUE])

(* validate_expression and measure_expression.                               *)
Compile(d) ==
    /\ Charged(d, "compile")
    /\ Answers(d, turn[d], Parses(NextCall(d).of, turn[d].config))

(* The other reading tools: what they look for is there or not.              *)
Look(d) ==
    /\ Charged(d, "look")
    /\ \E found \in BOOLEAN : Answers(d, turn[d], found)

OutOfScores(d) ==
    /\ Charged(d, "evaluate")
    /\ turn[d].scores >= MaxScores
    /\ Becomes(d, [turn[d] EXCEPT !.calls = @ + 1, !.stopped = TRUE])

Mistyped(d) ==
    /\ Charged(d, "evaluate")
    /\ turn[d].scores < MaxScores
    /\ ~Parses(NextCall(d).of, turn[d].config)
    /\ Answers(d, [turn[d] EXCEPT !.scores = @ + 1], FALSE)

(* A trial is on the ledger before the score is; scoring may refuse.         *)
Evaluate(d) ==
    /\ Charged(d, "evaluate")
    /\ turn[d].scores < MaxScores
    /\ Parses(NextCall(d).of, turn[d].config)
    /\ LET t == [turn[d] EXCEPT !.scores = @ + 1, !.trials = @ + 1]
       IN  Answers(d, t, FALSE) \/ Answers(d, [t EXCEPT !.shown = @ + 1], TRUE)

(* An error no handler answers for fails the exchange: the call stays out of *)
(* the record, but the model is asked once more before the graph ends.       *)
ToolRaises(d) ==
    /\ Charged(d, "evaluate")
    /\ turn[d].scores < MaxScores
    /\ Parses(NextCall(d).of, turn[d].config)
    /\ LET t == [turn[d] EXCEPT !.scores = @ + 1, !.trials = @ + 1, !.calls = @ + 1,
                                !.asked = <<>>, !.reason = "failed"]
       IN  Becomes(d, Entering(t, "model"))

(* stage: the nth proposal of a request.                                     *)
Staged(d, kind, of) ==
    [turn[d] EXCEPT !.staged =
        Append(@, [id |-> <<d, Len(@) + 1>>, kind |-> kind, of |-> of, applied |-> FALSE])]

ProposeFactor(d) ==
    /\ Charged(d, "factor")
    /\ IF Parses(NextCall(d).of, turn[d].config)
       THEN Answers(d, Staged(d, "factor", NextCall(d).of), TRUE)
       ELSE Answers(d, turn[d], FALSE)

(* Checked against the settings the exchange began with.                     *)
ProposePatch(d) ==
    /\ Charged(d, "patch")
    /\ IF PatchAccepted(NextCall(d).of, turn[d].config)
       THEN Answers(d, Staged(d, "config", NextCall(d).of), TRUE)
       ELSE Answers(d, turn[d], FALSE)

(* Labels are the model's own words, and change nothing else.                *)
Annotate(d) ==
    /\ Charged(d, "annotate")
    /\ \E usable \in BOOLEAN : Answers(d, turn[d], usable)

(* All calls answered, or the node stopped: the wrap-up, once for all, if    *)
(* anything is used up, time included.                                       *)
EndTools(d) ==
    /\ turn[d].step = "tools"
    /\ turn[d].asked = <<>> \/ turn[d].stopped
    /\ \E late \in {turn[d].late, TRUE} :
          LET t == [turn[d] EXCEPT !.late = late, !.asked = <<>>]
          IN  Becomes(d, Entering([t EXCEPT !.finalizing = @ \/ t.stopped \/ Exhausted(t),
                                            !.stopped = FALSE], "model"))

ToolStep(d) ==
    \/ UnknownTool(d) \/ OutOfCalls(d) \/ Compile(d) \/ Look(d) \/ OutOfScores(d)
    \/ Mistyped(d) \/ Evaluate(d) \/ ToolRaises(d) \/ ProposeFactor(d) \/ ProposePatch(d)
    \/ Annotate(d) \/ EndTools(d)

TurnStep(d) == StartTurn(d) \/ ModelFails(d) \/ ModelReplies(d) \/ ToolStep(d)

-----------------------------------------------------------------------------
(* A faulty variant: an exchange that failed is saved without its calls.     *)
Ended_Blank(t) ==
    [log |-> IF t.reason = "failed" THEN <<>> ELSE t.log, proposals |-> t.staged,
     shown |-> t.shown, reason |-> t.reason]

(* run_turn and _finish: what the exchange leaves in the conversation, on    *)
(* whatever path it ended.                                                   *)
Ended(t) ==
    [log |-> t.log, proposals |-> t.staged, shown |-> t.shown,
     reason |-> IF t.reason = "completed" /\ Exhausted(t) THEN "budget_exhausted"
                ELSE t.reason]

TurnsTypeOK ==
    \A d \in Desks :
        LET t == turn[d]
        IN  /\ t.step \in {"idle", "queued", "model", "tools", "closing", "done", "failed"}
            /\ t.calls \in 0 .. MaxToolCalls /\ t.scores \in 0 .. MaxScores
            /\ t.visits \in 0 .. RecursionLimit
            /\ t.shown <= t.trials /\ t.trials <= t.scores /\ t.scores <= t.calls
            /\ Len(t.staged) + t.shown <= Len(t.log)
=============================================================================
