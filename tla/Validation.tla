------------------------------ MODULE Validation ------------------------------
(***************************************************************************)
(* The evidence of a session: boundaries frozen when it is created, a      *)
(* winner chosen on the validation folds at the end of a segment, and the  *)
(* report of a finalization, which combines the returns of every trial     *)
(* under every strategy, keeps their summaries for the next report, and    *)
(* may be stopped on its way.  Statistics are functions of what they read: *)
(* a summary is the record of it, and a ratio is compared, not computed.   *)
(***************************************************************************)
EXTENDS Splits, Integers, SequencesExt

CONSTANTS
    FoldCount,      \* validation_folds
    MinFoldDates, MinCoverage,
    Pools,          \* sequences of candidates a search may hand over
    DailyIC(_, _, _), \* revision, expansion, date: the IC, or NoIC
    Varies(_, _, _), \* whether the factor tells the names apart that date
    Names,          \* of the universe
    Weights(_, _, _, _), \* revision, expansion, strategy, date: what a signal
                    \* holds of each name, in whole numbers of a fraction
    Primary,        \* the strategy candidates are selected under
    NoIC,
    Deduction(_),   \* of a number of nodes
    Unit,           \* ICs and deductions are whole numbers of 1/Unit
    Palette,        \* deflation for the operators added, as a factor
    Plans,          \* non-empty sequences of strategies, the primary first
    Blocks,         \* CSCV blocks
    Sharpe(_, _),   \* of a summary over a set of blocks
    Genuine(_, _, _), \* the deflated Sharpe in percent
    MaxDays, MaxRounds, Revisions

VARIABLES
    market,         \* [days, revision]: the cached prices a job loads
    frozen,         \* boundaries of the session
    judged_rounds,  \* rounds/*.json
    report,         \* the finalization's report under way
    report_stats,   \* report_stats.json
    verdict,        \* the last report
    comparison      \* the last comparison of strategies

evidence == <<report, report_stats, verdict, comparison>>
validationVars == <<market, frozen, judged_rounds, evidence>>

ASSUME ValidationAssumption ==
    /\ FoldCount \in Nat \ {0} /\ MinFoldDates \in Nat \ {0} /\ MinCoverage \in 1 .. 100
    /\ MaxDays \in Nat /\ 1 \in Revisions /\ \A pool \in Pools : pool \in Seq(Range(pool))
    /\ \A plan \in Plans : plan \in Seq(Range(plan)) /\ Len(plan) > 0 /\ IsInjective(plan)

(* What is known of the candidates on any date, under any revision.          *)
ASSUME CandidatesAssumption ==
    /\ Unit \in Nat
    /\ \A pool \in Pools : \A i \in DOMAIN pool :
          /\ pool[i].fitness \in Int /\ pool[i].nodes \in Int
          /\ Deduction(pool[i].nodes) \in Int
          /\ \A revision \in Revisions, t \in 1 .. MaxDays :
                /\ DailyIC(revision, pool[i].key, t) \in Int \cup {NoIC}
                /\ Weights(revision, pool[i].key, Primary, t) \in [Names -> Int]

NoReport == [step |-> "idle"]
Nothing == <<>>

ValidationInit ==
    /\ market \in [days : 10 .. MaxDays, revision : {1}]
    /\ frozen = Nothing
    /\ judged_rounds = <<>>
    /\ report = NoReport
    /\ report_stats = Nothing
    /\ verdict = Nothing
    /\ comparison = Nothing

-----------------------------------------------------------------------------
(* derive_boundaries: the embargo must cover the label.                      *)
CreateSession(choice, run) ==
    /\ frozen = Nothing
    /\ choice.embargo >= LabelSpan(run.horizon, run.execution)
    /\ LET s == TimeSplit(market.days, choice.train, choice.valid, choice.embargo)
       IN  /\ s # <<>>
           /\ frozen' = [train_end |-> Max(s.train), valid_start |-> Min(s.valid),
                         valid_end |-> Max(s.valid), test_start |-> Min(s.test),
                         embargo |-> choice.embargo, run |-> run]
    /\ UNCHANGED <<market, judged_rounds, evidence>>

(* split_from_boundaries; the calendar only grows at its end.                *)
SessionSplit ==
    [train |-> 1 .. frozen.train_end, valid |-> frozen.valid_start .. frozen.valid_end,
     test |-> frozen.test_start .. market.days]

(* The prices are synchronised: a later day, or other prices for old ones.   *)
SyncPrices ==
    /\ market' \in {m \in [days : market.days .. Smaller(MaxDays, market.days + 1),
                            revision : Revisions] :
                       m # market /\ m.revision >= market.revision}
    /\ UNCHANGED <<frozen, judged_rounds, evidence>>

-----------------------------------------------------------------------------
(* select_validation_candidate.                                              *)
SessionFolds ==
    Folds(frozen.valid_start, frozen.valid_end, FoldCount, frozen.embargo)

Sum(values) == FoldFunction(LAMBDA a, b : a + b, 0, values)

(* Fixed in training, never by validation.                                   *)
Polarity(candidate) == IF candidate.signed < 0 THEN -1 ELSE 1

Usable(candidate, dates) == {t \in dates : DailyIC(market.revision, candidate.key, t) # NoIC}

MeanIC(candidate, dates) ==
    LET usable == Usable(candidate, dates)
    IN  IF usable = {} THEN 0
        ELSE Polarity(candidate) * ((Unit * Sum([t \in usable |->
                 DailyIC(market.revision, candidate.key, t)])) \div Cardinality(usable))

Covers(some, all) == 100 * Cardinality(some) >= MinCoverage * Cardinality(all)

(* The floors of a formula: enough dates with an IC, and enough on which it  *)
(* tells the names apart.                                                    *)
Measurable(candidate, dates) ==
    LET usable == Usable(candidate, dates)
    IN  /\ Cardinality(usable) >= MinFoldDates
        /\ Covers(usable, dates)
        /\ Covers({t \in dates : Varies(market.revision, candidate.key, t)}, dates)

(* Something is held long, and something short.                              *)
TwoSided(weights) ==
    (\E n \in Names : weights[n] > 0) /\ (\E n \in Names : weights[n] < 0)

Adequate(candidate, dates) ==
    /\ Measurable(candidate, dates)
    /\ Covers({t \in dates :
                  TwoSided(Weights(market.revision, candidate.key, Primary, t))}, dates)

(* The k-th of the folds' means in ascending order.                          *)
Nth(means, k) ==
    Min({v \in Range(means) : Cardinality({j \in DOMAIN means : means[j] <= v}) >= k})

(* The middle one; of the two middle ones, half their sum.                   *)
Median(means) ==
    LET n == Len(means)
    IN  IF n % 2 = 1 THEN Nth(means, (n + 1) \div 2)
        ELSE (Nth(means, n \div 2) + Nth(means, n \div 2 + 1)) \div 2

(* First seen per expansion.                                                 *)
Unique(pool) ==
    {i \in DOMAIN pool : \A j \in 1 .. i - 1 : pool[j].key # pool[i].key}

(* Better in the first key that tells the two apart.                         *)
Precedes(a, b) ==
    \E k \in DOMAIN a : a[k] > b[k] /\ \A j \in 1 .. k - 1 : a[j] = b[j]

Judgement(pool, i) ==
    LET folds == SessionFolds
        means == [k \in DOMAIN folds |-> MeanIC(pool[i], folds[k])]
        objective == Median(means) - Deduction(pool[i].nodes)
        positive == {k \in DOMAIN folds : means[k] > 0 /\ Adequate(pool[i], folds[k])}
    IN  [qualified |-> /\ \A k \in DOMAIN folds : Adequate(pool[i], folds[k])
                       /\ Cardinality(positive) >= FoldCount \div 2 + 1
                       /\ objective > 0,
         training |-> <<pool[i].fitness, -pool[i].nodes, -i>>,
         validation |-> <<objective, Min(Range(means)), pool[i].fitness,
                          -pool[i].nodes, -i>>]

(* The best of the qualified, or the best in training, marked unvalidated.   *)
Selection(pool) ==
    LET judged == [i \in Unique(pool) |-> Judgement(pool, i)]
        qualified == {i \in DOMAIN judged : judged[i].qualified}
        Best(of, key) ==
            CHOOSE i \in of : \A j \in of \ {i} : Precedes(judged[i][key], judged[j][key])
        winner == IF qualified # {} THEN Best(qualified, "validation")
                  ELSE Best(DOMAIN judged, "training")
    IN  [best |-> pool[winner].key, polarity |-> Polarity(pool[winner]),
         validated |-> qualified # {}]

(* orient_training_candidates: the trials of a report, each once.            *)
ReportTrials(pool) ==
    [k \in 1 .. Cardinality(Unique(pool)) |->
        pool[CHOOSE i \in Unique(pool) :
                Cardinality({j \in Unique(pool) : j < i}) = k - 1].key]

(* The end of a segment; its settings were checked by continue_session.      *)
SelectRound(pool, run) ==
    /\ frozen # Nothing /\ Len(judged_rounds) < MaxRounds
    /\ run.execution = frozen.run.execution
    /\ LabelSpan(run.horizon, run.execution) <= frozen.embargo
    /\ \E s \in {Selection(pool)} :
          judged_rounds' = Append(judged_rounds,
              [best |-> s.best, polarity |-> s.polarity, validated |-> s.validated,
               run |-> run, market |-> market, trials |-> ReportTrials(pool),
               searched |-> Len(pool)])
    /\ UNCHANGED <<market, frozen, evidence>>

-----------------------------------------------------------------------------
(* Portfolios of a round's formula, on the prices m.  A position is entered  *)
(* after the execution delay and held for the horizon: the book of a date is *)
(* what the last signals add up to, name by name.                            *)
Cohorts(entry, t) == Larger(1, (t + 1) - entry.run.horizon) .. t

Book(entry, strategy, t, m) ==
    [n \in Names |->
        Sum([c \in Cohorts(entry, t) |-> Weights(m.revision, entry.best, strategy, c)[n]])]

Realized(entry, dates, m) ==
    {t \in dates : t + 1 + Delay(entry.run.execution) <= m.days}

(* portfolio_health.                                                         *)
Healthy(entry, strategy, dates, m) ==
    LET realized == Realized(entry, dates, m)
        held == {t \in realized : TwoSided(Book(entry, strategy, t, m))}
    IN  held # {} /\ Covers(held, realized)

Holdout(m) == frozen.test_start .. m.days

(* A faulty variant: a fold is measured against the whole window.            *)
Eligible_OfWindow(entry, strategy) ==
    LET window == frozen.valid_start .. frozen.valid_end
    IN  \A dates \in Range(SessionFolds) :
            /\ Measurable([key |-> entry.best], dates)
            /\ Covers(Realized(entry, dates, market), window)
            /\ Healthy(entry, strategy, dates, market)

(* compare_validation_strategies: which of the strategies have the floors of *)
(* the selection in every fold, with the portfolio as it would be held.      *)
Eligible(entry, strategy) ==
    \A dates \in Range(SessionFolds) :
        /\ Measurable([key |-> entry.best], dates)
        /\ Covers(Realized(entry, dates, market), dates)
        /\ Healthy(entry, strategy, dates, market)

(* The job of a comparison, in one step: it keeps nothing if it is stopped.  *)
CompareStrategies(r, plan) ==
    /\ r \in DOMAIN judged_rounds
    /\ comparison' = [round |-> r, market |-> market, strategies |-> Range(plan),
                      eligible |-> {strategy \in Range(plan) :
                                       Eligible(judged_rounds[r], strategy)}]
    /\ UNCHANGED <<market, frozen, judged_rounds, report, report_stats, verdict>>

-----------------------------------------------------------------------------
(* The report of a finalization: judge, with the summaries of report_stats.  *)

(* What _report_cache_context and the strategies of the plan tell apart.     *)
Context(r, plan) ==
    [market |-> market, run |-> judged_rounds[r].run, plan |-> plan]

(* A faulty variant: summaries are reused whatever they were taken from.     *)
LoadSummaries_Always(context) ==
    IF report_stats = Nothing THEN Nothing ELSE report_stats.entries

LoadSummaries(context) ==
    IF report_stats # Nothing /\ report_stats.context = context THEN report_stats.entries
    ELSE Nothing

(* One job at a time finalizes (module SessionEvidence).                     *)
StartReport(r, plan) ==
    /\ report.step = "idle" /\ r \in DOMAIN judged_rounds
    /\ LET context == Context(r, plan)
       IN  report' = [step |-> "combining", round |-> r, context |-> context,
                      entries |-> LoadSummaries(context), taken |-> <<>>, stop |-> FALSE]
    /\ UNCHANGED <<market, frozen, judged_rounds, report_stats, verdict, comparison>>

StopReport ==
    /\ report.step # "idle" /\ ~report.stop
    /\ report' = [report EXCEPT !.stop = TRUE]
    /\ UNCHANGED <<market, frozen, judged_rounds, report_stats, verdict, comparison>>

(* Every trial under every strategy, in order.                               *)
Pairs(r, plan) ==
    LET trials == judged_rounds[r].trials
    IN  [k \in 1 .. Len(trials) * Len(plan) |->
            <<trials[(k - 1) \div Len(plan) + 1], plan[((k - 1) % Len(plan)) + 1]>>]

ReportPairs == Pairs(report.round, report.context.plan)

(* What the returns of one of them over the research dates depend on.        *)
Summary(pair, context) ==
    [of |-> pair, market |-> context.market, run |-> context.run]

Damaged == [of |-> Nothing]

(* summary_cache[key] = summary.                                             *)
Filed(entries, pair, summary) ==
    [p \in {pair} \cup DOMAIN entries |-> IF p = pair THEN summary ELSE entries[p]]

TakeSummary ==
    /\ report.step = "combining" /\ ~report.stop
    /\ Len(report.taken) < Len(ReportPairs)
    /\ LET pair == ReportPairs[Len(report.taken) + 1]
           summary == IF pair \in DOMAIN report.entries THEN report.entries[pair]
                      ELSE Summary(pair, report.context)
       IN  report' = [report EXCEPT !.taken = Append(@, summary),
                          !.entries = Filed(@, pair, summary)]
    /\ UNCHANGED <<market, frozen, judged_rounds, report_stats, verdict, comparison>>

(* A summary that cannot be read, found out when it is met or in the end:    *)
(* all are taken again, and none of those is stored.                         *)
CombineSummaries ==
    /\ report.step = "combining"
    /\ Len(report.taken) = Len(ReportPairs) \/ Damaged \in Range(report.taken)
    /\ report' = IF Damaged \in Range(report.taken)
                 THEN [report EXCEPT !.step = "streaming", !.taken = <<>>]
                 ELSE [report EXCEPT !.step = "combined"]
    /\ UNCHANGED <<market, frozen, judged_rounds, report_stats, verdict, comparison>>

StreamReturns ==
    /\ report.step = "streaming" /\ ~report.stop
    /\ LET n == Len(report.taken)
       IN  report' = IF n = Len(ReportPairs) THEN [report EXCEPT !.step = "combined"]
                     ELSE [report EXCEPT !.taken =
                              Append(@, Summary(ReportPairs[n + 1], report.context))]
    /\ UNCHANGED <<market, frozen, judged_rounds, report_stats, verdict, comparison>>

(* _pbo_from_statistics: of the ways to choose half of the blocks, those in  *)
(* which the winner of the chosen half ranks in the lower half of the rest.  *)
(* No number where there are fewer than two strategies.                      *)
Overfitting(taken) ==
    LET halves == {chosen \in SUBSET Blocks : 2 * Cardinality(chosen) = Cardinality(Blocks)}
        Winner(chosen) ==
            CHOOSE i \in DOMAIN taken : \A j \in DOMAIN taken :
                \/ Sharpe(taken[i], chosen) > Sharpe(taken[j], chosen)
                \/ Sharpe(taken[i], chosen) = Sharpe(taken[j], chosen) /\ i <= j
        Rank2(i, rest) ==
            2 * Cardinality({j \in DOMAIN taken : Sharpe(taken[j], rest) < Sharpe(taken[i], rest)})
              + Cardinality({j \in DOMAIN taken : Sharpe(taken[j], rest) = Sharpe(taken[i], rest)})
              + 1
        low == {chosen \in halves :
                   Rank2(Winner(chosen), Blocks \ chosen) <= Len(taken) + 1}
    IN  IF Len(taken) < 2 THEN Nothing
        ELSE <<Cardinality(low), Cardinality(halves)>>

(* What the judge and build_report make of the summaries; a round is not     *)
(* significant if it is unvalidated or its primary portfolio was rarely held *)
(* on the holdout.                                                           *)
Judged(r, context, taken) ==
    LET entry == judged_rounds[r]
        plan == context.plan
        best == IndexFirstSubSeq(<<<<entry.best, plan[1]>>>>, Pairs(r, plan))
        trials == entry.searched * Palette * Len(plan)
        pbo == Overfitting(taken)
    IN  [trials |-> trials, pbo |-> pbo,
         significant |-> /\ entry.validated /\ pbo # Nothing
                         /\ 2 * pbo[1] < pbo[2]
                         /\ Healthy(entry, plan[1], Holdout(context.market), context.market)
                         /\ Genuine(taken[best], trials, taken) > 95]

(* The summaries are written whatever the end of the report was.             *)
Leaves == report' = NoReport
          /\ report_stats' = [context |-> report.context, entries |-> report.entries]

(* Past the last poll the test split is unlocked, and the report made.       *)
FinishReport ==
    /\ report.step = "combined" /\ ~report.stop
    /\ verdict' = [round |-> report.round, context |-> report.context,
                   result |-> Judged(report.round, report.context, report.taken)]
    /\ Leaves
    /\ UNCHANGED <<market, frozen, judged_rounds, comparison>>

(* A poll meets the stop, or an evaluation raises.                           *)
CancelReport ==
    /\ report.step # "idle" /\ report.stop
    /\ Leaves
    /\ UNCHANGED <<market, frozen, judged_rounds, verdict, comparison>>

ReportFails ==
    /\ report.step \in {"combining", "streaming"}
    /\ Leaves
    /\ UNCHANGED <<market, frozen, judged_rounds, verdict, comparison>>

ExitReport ==
    /\ report.step # "idle"
    /\ report' = NoReport
    /\ UNCHANGED <<market, frozen, judged_rounds, report_stats, verdict, comparison>>

(* External: a stored summary is no longer what was written.                 *)
DamageSummary ==
    /\ report_stats # Nothing
    /\ \E pair \in DOMAIN report_stats.entries :
          report_stats' = [report_stats EXCEPT !.entries[pair] = Damaged]
    /\ UNCHANGED <<market, frozen, judged_rounds, report, verdict, comparison>>

ReportStep ==
    \/ TakeSummary \/ CombineSummaries \/ StreamReturns \/ FinishReport
    \/ CancelReport \/ ReportFails

-----------------------------------------------------------------------------
ValidationTypeOK ==
    /\ market.days \in 10 .. MaxDays /\ market.revision \in Revisions
    /\ report.step \in {"idle", "combining", "streaming", "combined"}
    /\ report.step # "idle" => /\ Len(report.taken) <= Len(ReportPairs)
                               /\ DOMAIN report.entries \subseteq
                                      UNION {Range(Pairs(r, report.context.plan)) :
                                                r \in DOMAIN judged_rounds}

(* "Embargoes and purges must be at least this long, or a label near a split *)
(* boundary would read prices from the next segment" (fitness.py 117-118):   *)
(* however the split was asked for, whatever horizon a later segment takes   *)
(* and however the calendar grew, no label of a training date, a fold, the   *)
(* agent's inner window, a rolling window or a purged fold reads a session   *)
(* of what is judged after it.                                               *)
NoLabelCrosses ==
    frozen # Nothing =>
        LET s == SessionSplit
            parts == <<s.train>> \o SessionFolds \o <<s.test>>
        IN  \A r \in DOMAIN judged_rounds :
              LET h == judged_rounds[r].run.horizon
                  e == judged_rounds[r].run.execution
                  span == LabelSpan(h, e)
                  inner == InnerSplit(frozen.train_end, span, frozen.embargo)
              IN  /\ \A i, j \in DOMAIN parts : i < j => Apart(parts[i], parts[j], h, e)
                  /\ inner # <<>> => Apart(inner.train, inner.holdout, h, e)
                  /\ \A w \in Range(WalkForward(market.days, FoldCount, 4, 2, frozen.embargo)) :
                        Apart(w[1], w[2], h, e)
                  /\ \A f \in Range(PurgedFolds(market.days, FoldCount, 0, span)) :
                        Apart(f[1], f[2], h, e)

(* Kept summaries only save work: "reused by report/session caches" (pbo.py  *)
(* 29): what a report says of its round is what one would say that had no    *)
(* summaries to reuse, whatever was stopped, stored, damaged or synchronised *)
(* before, and under whichever plan.                                         *)
ReportMatchesReference ==
    verdict # Nothing =>
        LET plan == verdict.context.plan
            fresh == [k \in DOMAIN Pairs(verdict.round, plan) |->
                         Summary(Pairs(verdict.round, plan)[k], verdict.context)]
        IN  verdict.result = Judged(verdict.round, verdict.context, fresh)

(* A name is held on opposite sides by two signals of one book.              *)
Opposite(v, w) ==
    \E n \in Names : (v[n] > 0 /\ w[n] < 0) \/ (v[n] < 0 /\ w[n] > 0)

HeldBothWays(entry) ==
    LET At(t) == Weights(entry.market.revision, entry.best, Primary, t)
    IN  \E t \in 1 .. entry.market.days : \E c \in Cohorts(entry, t) : Opposite(At(c), At(t))

(* A comparison "applies the same fold-level exposure floor used during      *)
(* candidate selection" (selection.py 557-558), though to the book as it is  *)
(* held, and later, under settings and prices of that time: on the prices of *)
(* the selection it rejects the strategy the winner was selected under only  *)
(* if signals of less than a horizon apart hold a name on opposite sides, so *)
(* that what they add up to may cancel out.                                  *)
ComparisonAgreesWithSelection ==
    comparison # Nothing =>
        LET entry == judged_rounds[comparison.round]
        IN  /\ entry.validated /\ comparison.market = entry.market
            /\ Primary \in comparison.strategies
            /\ ~HeldBothWays(entry)
            => Primary \in comparison.eligible
=============================================================================
