------------------------------ MODULE SignalDesk ------------------------------
(***************************************************************************)
(* Ranking a universe by a formula today: a request is prepared from what  *)
(* the cache holds, joins a job that does the same or gets one of its own, *)
(* and the job fetches what is missing (module PriceSync), prepares again, *)
(* reads the prices, ranks the members at the expected session and writes  *)
(* one snapshot.  The only lock is the one around joining.                 *)
(*                                                                          *)
(* A formula is its lookback: it has a value for a symbol where that many   *)
(* bars in a row have prices.                                               *)
(***************************************************************************)
EXTENDS PriceSync

CONSTANTS
    Asks,           \* bound: POST /signals/snapshot requests
    Lookback,       \* bars of prices a value needs
    Window,         \* days that are prepared and read
    MinNames,       \* of the formula
    MinCoverage,    \* minimum_coverage, in percent
    NoSnapshot

VARIABLES
    signal,         \* each request, and the job it got
    snapshots       \* signals/<snapshot_id>.json, by request

signalVars == <<signal, snapshots>>

ASSUME SignalAssumption ==
    /\ Asks \subseteq Nat /\ Lookback \in Nat \ {0} /\ Window \in Nat \ {0}
    /\ MinNames \in Nat /\ MinCoverage \in 0 .. 100

(* asked: what was prepared, and tells one job from another; plan: what the  *)
(* job goes by; with: the request whose job this one joined.                 *)
NoSignal ==
    [step |-> "idle", mode |-> "cached", as_of |-> 0, asked |-> <<>>, plan |-> <<>>,
     panel |-> <<>>, stop |-> FALSE, job |-> 0, with |-> 0]

SignalsInit ==
    /\ signal = [q \in Asks |-> NoSignal]
    /\ snapshots = [q \in Asks |-> NoSnapshot]

SignalSteps == {"queued", "syncing", "synced", "rechecked", "read"}
Working(q) == signal[q].step \in SignalSteps

-----------------------------------------------------------------------------
(* completed_session; the end of the calendar that is asked for is "as of".  *)
Expected(as_of) == IF as_of = 0 THEN today ELSE Min({as_of, today})

MemberOn(def, s, day) ==
    \E m \in Members[def] : m.symbol = s /\ m.entry <= day /\ (m.exit = 0 \/ day < m.exit)

(* preparation: symbols without a file, active ones whose file ends early    *)
(* and any whose file begins late are worth fetching; one that cannot be     *)
(* read is not.                                                              *)
Preparation(def, as_of) ==
    LET end == Expected(as_of)
        start == IF end > Window THEN end - Window + 1 ELSE 1
        symbols == Overlapping(def, start, end)
        active == {s \in symbols : MemberOn(def, s, end)}
        Empty(s) == cache[s] = Absent \/ (Readable(s) /\ Held(cache[s]) = {})
        Series(s) == Readable(s) /\ ~Empty(s)
    IN  [def |-> def, expected |-> end, start |-> start, symbols |-> symbols,
         active |-> active,
         fetch |-> {s \in symbols :
                      \/ Empty(s)
                      \/ Series(s) /\ LastOf(cache[s]) < end /\ s \in active
                      \/ Series(s) /\ FirstOf(cache[s]) > start}]

AskSignal(q, def, mode, as_of) ==
    /\ signal[q].step = "idle"
    /\ \A r \in Asks : r < q => signal[r].step # "idle"
    /\ LET plan == Preparation(def, as_of)
       IN  /\ plan.symbols # {}
           /\ signal' = [signal EXCEPT ![q] = [@ EXCEPT
                  !.step = "prepared", !.mode = mode, !.as_of = as_of,
                  !.asked = plan, !.plan = plan]]
    /\ UNCHANGED <<priceVars, snapshots>>

Identity(q) == <<signal[q].mode, signal[q].as_of, signal[q].asked>>
Twins(q) == {r \in Asks : Working(r) /\ Identity(r) = Identity(q)}

(* A faulty variant: a job is submitted without a look at the others.        *)
SubmitSignal_Unlocked(q) ==
    /\ signal[q].step = "prepared"
    /\ signal' = [signal EXCEPT ![q].step = "queued"]
    /\ UNCHANGED <<priceVars, snapshots>>

(* submit, under SUBMIT_LOCK.                                                *)
SubmitSignal(q) ==
    /\ signal[q].step = "prepared"
    /\ IF Twins(q) = {}
       THEN signal' = [signal EXCEPT ![q].step = "queued"]
       ELSE signal' = [signal EXCEPT ![q].step = "joined", ![q].with = Min(Twins(q))]
    /\ UNCHANGED <<priceVars, snapshots>>

(* The batch of a job that refreshes; other jobs go on without one.          *)
RunSignal(q) ==
    /\ signal[q].step = "queued"
    /\ LET plan == signal[q].plan
       IN  IF signal[q].mode = "refresh" /\ plan.fetch # {}
           THEN \E j \in Jobs :
                   /\ Unused(j)
                   /\ job' = [job EXCEPT ![j] = [NoJob EXCEPT
                        !.status = "running", !.kind = "signal", !.from = plan.start,
                        !.to = plan.expected, !.left = SetToSeq(plan.fetch),
                        !.stop = signal[q].stop]]
                   /\ signal' = [signal EXCEPT ![q].step = "syncing", ![q].job = j]
           ELSE signal' = [signal EXCEPT ![q].step = "synced"] /\ UNCHANGED job
    /\ UNCHANGED <<today, files, snapshots>>

Leaves(q, how) == signal' = [signal EXCEPT ![q].step = how, ![q].panel = <<>>]

SyncSignal(q) ==
    /\ signal[q].step = "syncing" /\ job[signal[q].job].status = "over"
    /\ signal' = [signal EXCEPT ![q].step = "synced"]
    /\ UNCHANGED <<priceVars, snapshots>>

(* Once the batch is over a stop is seen; if there is none, what is expected *)
(* and what is there are looked up again.                                    *)
RecheckSignal(q) ==
    /\ signal[q].step = "synced"
    /\ IF signal[q].stop THEN Leaves(q, "stopped")
       ELSE signal' = [signal EXCEPT
                ![q].step = "rechecked",
                ![q].plan = Preparation(signal[q].plan.def, signal[q].as_of)]
    /\ UNCHANGED <<priceVars, snapshots>>

(* _panel: one bar for each day some file has and for the expected session;  *)
(* the prices of members on them.  No file that can be read is an error.     *)
Cached(plan) == {s \in plan.symbols : Readable(s)}

Panel(plan) ==
    LET read == [s \in plan.symbols |->
                    IF s \notin Cached(plan) THEN {}
                    ELSE {d \in Held(cache[s]) : plan.start <= d /\ d <= plan.expected}]
    IN  [bars |-> (UNION Range(read)) \cup {plan.expected},
         prices |-> [s \in plan.symbols |-> {d \in read[s] : MemberOn(plan.def, s, d)}]]

ReadPanel(q) ==
    /\ signal[q].step = "rechecked"
    /\ IF Cached(signal[q].plan) = {} THEN Leaves(q, "failed")
       ELSE signal' = [signal EXCEPT ![q].step = "read",
                                     ![q].panel = Panel(signal[q].plan)]
    /\ UNCHANGED <<priceVars, snapshots>>

(* A formula has a value where the bars it looks back on all have prices.    *)
Valued(panel, s, day) ==
    LET back == {d \in panel.bars :
                    d <= day /\ Cardinality({e \in panel.bars : d <= e /\ e <= day}) <= Lookback}
    IN  Cardinality(back) = Lookback /\ back \subseteq panel.prices[s]

Reason(prices, day) ==
    IF prices = {} THEN "no_prices" ELSE IF day \in prices THEN "warming_up" ELSE "stale_prices"

Floor(active) ==
    Max({MinNames, (Cardinality(active) * MinCoverage + 99) \div 100})

(* A faulty variant: the day that most symbols have prices of is ranked.     *)
Ranking_Densest(plan, panel) ==
    LET Ranked(d) == {s \in plan.active : Valued(panel, s, d)}
        most == Max({Cardinality(Ranked(d)) : d \in panel.bars})
        day == Max({d \in panel.bars : Cardinality(Ranked(d)) = most})
    IN  [as_of |-> day, ranked |-> Ranked(day),
         excluded |-> [s \in plan.active \ Ranked(day) |-> Reason(panel.prices[s], day)],
         actionable |-> Cardinality(Ranked(day)) >= Floor(plan.active)]

(* snapshot: at the expected session and no other, members with a value are  *)
(* ranked and the others left out for a reason.                              *)
Ranking(plan, panel) ==
    LET day == plan.expected
        ranked == {s \in plan.active : Valued(panel, s, day)}
    IN  [as_of |-> day, ranked |-> ranked,
         excluded |-> [s \in plan.active \ ranked |-> Reason(panel.prices[s], day)],
         actionable |-> Cardinality(ranked) >= Floor(plan.active)]

SaveSnapshot(q) ==
    /\ signal[q].step = "read"
    /\ IF signal[q].stop THEN Leaves(q, "stopped") /\ UNCHANGED snapshots
       ELSE /\ snapshots' = [snapshots EXCEPT ![q] = Ranking(signal[q].plan, signal[q].panel)]
            /\ signal' = [signal EXCEPT ![q].step = "done"]
    /\ UNCHANGED priceVars

(* POST /signals/jobs/{id}/stop: the batch polls the same event.             *)
StopSignal(q) ==
    /\ Working(q) /\ ~signal[q].stop
    /\ signal' = [signal EXCEPT ![q].stop = TRUE]
    /\ job' = IF signal[q].step = "syncing" /\ job[signal[q].job].status = "running"
              THEN [job EXCEPT ![signal[q].job].stop = TRUE] ELSE job
    /\ UNCHANGED <<today, files, snapshots>>

(* The process exits: requests and jobs are gone, snapshots stay.            *)
SignalsLive == \E q \in Asks : signal[q].step \in {"prepared"} \cup SignalSteps

RestartSignals ==
    /\ UNCHANGED snapshots
    /\ signal' = [q \in Asks |->
            IF signal[q].step \in {"prepared"} \cup SignalSteps
            THEN [signal[q] EXCEPT !.step = "lost", !.panel = <<>>] ELSE signal[q]]

SignalStep(q) ==
    SubmitSignal(q) \/ RunSignal(q) \/ SyncSignal(q) \/ RecheckSignal(q) \/ ReadPanel(q)
        \/ SaveSnapshot(q)

-----------------------------------------------------------------------------
SignalsTypeOK ==
    \A q \in Asks :
        /\ signal[q].step \in {"idle", "prepared", "joined", "done", "stopped", "failed",
                               "lost"} \cup SignalSteps
        /\ signal[q].job \in Jobs \cup {0} /\ signal[q].with \in Asks \cup {0}
        /\ snapshots[q] # NoSnapshot => signal[q].step = "done"

(* "A wholly stale cache cannot silently select an older, better-covered     *)
(* date" (docs/NOVELTY_SIGNALS.md 63), "missing is reported, not filled"     *)
(* (signals.py 16), and equal requests share a job: whatever syncs, clears,  *)
(* stops, days and restarts come between preparation and ranking, no two     *)
(* jobs at work were submitted for the same, and a snapshot is of the        *)
(* session that was expected or a later one, accounts once for each member   *)
(* of that session, and has ranked only symbols whose prices, as read, went  *)
(* up to it.                                                                 *)
SnapshotsAreOfTheirDay ==
    /\ \A q, r \in Asks : Working(q) /\ Working(r) /\ q # r => Identity(q) # Identity(r)
    /\ \A q \in {x \in Asks : snapshots[x] # NoSnapshot} :
          LET kept == snapshots[q]
              read == signal[q].panel.prices
          IN  /\ kept.as_of >= signal[q].asked.expected
              /\ kept.ranked \cup DOMAIN kept.excluded
                    = {s \in Symbols : MemberOn(signal[q].plan.def, s, kept.as_of)}
              /\ kept.ranked \cap DOMAIN kept.excluded = {}
              /\ \A s \in kept.ranked : Max(read[s]) = kept.as_of
              /\ \A s \in DOMAIN kept.excluded :
                    kept.excluded[s] = "no_prices" <=> read[s] = {}

(* A request that joins a job gets the snapshot of one that is not being     *)
(* stopped; POST /data/sync sees to that (app.py 4658) and this one does not.*)
JoinedJobsGoOn ==
    [][\A q \in Asks : (signal[q].step = "prepared" /\ signal'[q].step = "joined") =>
          ~signal[signal'[q].with].stop]_signal
=============================================================================
