------------------------------ MODULE MCResearch ------------------------------
(* A few requests to each part; a stream of draws, trees and returns that    *)
(* are small arithmetic, so that every branch of the breeding is taken.      *)
EXTENDS Research

CONSTANTS plain, macro, mistyped

(* The agent's desk.                                                         *)
Small == [k \in Counts |-> IF k = "validation_folds" THEN 10 ELSE 8]
Start ==
    [population_size |-> 4, generations |-> 2, tournament_size |-> 3, elitism |-> 1,
     min_depth |-> 2, max_depth |-> 4, max_nodes |-> 8, validation_folds |-> 3,
     crossover_rate |-> 80, subtree_mutation_rate |-> 10, enabled_formula_names |-> {},
     horizon |-> 1, execution |-> "close", ic_method |-> "spearman", min_names |-> 2,
     seed |-> 0]
Named == [e \in {plain, macro, mistyped} |-> IF e = macro THEN {"band"} ELSE {}]
Asked(tool, of) == [tool |-> tool, of |-> of]
FactorReply == <<Asked("evaluate", plain), Asked("factor", macro)>>
PatchReply == <<Asked("patch", [min_depth |-> 4]), Asked("patch", [max_depth |-> 3])>>
OddReplies ==
    {<<Asked("unknown", plain), Asked("compile", macro), Asked("look", plain)>>,
     <<Asked("evaluate", mistyped), Asked("evaluate", plain), Asked("evaluate", plain)>>,
     <<Asked("annotate", plain), Asked("evaluate", plain), Asked("factor", mistyped)>>,
     <<Asked("patch", [seed |-> 1]), Asked("evaluate", plain)>>}
AllReplies == {FactorReply, PatchReply} \cup OddReplies

(* What a continue may bring: nothing, a setting patches bound, others that  *)
(* define the measurement, and one that is frozen.                           *)
NoChange == [k \in {} |-> 0]
AllChanges ==
    {NoChange, [max_depth |-> 3], [horizon |-> 2], [seed |-> 1], [execution |-> "next_open"]}

(* The search.                                                               *)
Balanced ==
    [name |-> "balanced", stones |-> 25, guided |-> 50, two_edit |-> 40, composition |-> 30,
     insertion |-> 30, ttl |-> 4, cap |-> 2, width |-> 2]
AllTrees == 0 .. 10
Stream(n) == (n * 37 + (n \div 3) * 11) % 97
Either(n, a, b) == IF n % 3 = 0 THEN a ELSE b % 11
Cross(a, b, n) == Either(n, a, a + 2 * b + n)
Compose(a, b, n) == Either(n, a, 3 * a + b)
Sub(a, n) == Either(n, a, a + 3 * n)
Point(a, n) == Either(n, a, a + 1)
Insert(a, n) == Either(n, a, 2 * a + n)
Grow(n) == (5 * n) % 11
OneAxis(t) == IF t = 7 THEN <<6>> ELSE IF t = 6 THEN <<7>> ELSE <<>>
EveryMove(t) == IF t = 7 THEN <<6, 10>> ELSE IF t = 6 THEN <<7, 10>> ELSE <<>>
ByThree == [t \in AllTrees |-> t % 3]
Calls == [t \in AllTrees |-> IF t \in {6, 7, 10} THEN 1 ELSE 0]
Parameters == [t \in AllTrees |-> t]
PublishedDefaults == <<7, 6, 3>>
(* The two evaluators put some trees in another order.                       *)
Fitnesses ==
    [m \in {"first", "second"} |-> [kernel \in {"native", "python"} |->
        [t \in AllTrees |->
            (IF m = "first" THEN (t * 3 + 2) % 11 ELSE (t * 5 + 1) % 11)
                + (IF kernel = "python" /\ t % 3 = 1 THEN 2 ELSE 0)]]]
Own(kernel, measure) == kernel

(* The evidence: a good trial, one that is good when turned around, and one  *)
(* that the second revision of the prices leaves without an IC.              *)
Candidate(key, fitness, signed, nodes) ==
    [key |-> key, fitness |-> fitness, signed |-> signed, nodes |-> nodes]
TwoPools ==
    {<<Candidate("a", 3, 1, 2), Candidate("b", 5, -1, 3), Candidate("a", 3, 1, 2)>>,
     <<Candidate("b", 5, -1, 3), Candidate("c", 4, 1, 9)>>}
AllRuns == [horizon : 1 .. 3, execution : {"close", "next_open"}]
OneRun == [horizon |-> 1, execution |-> "close"]
OneChoice == [train |-> 50, valid |-> 30, embargo |-> 1]
AllChoices ==
    {[OneChoice EXCEPT !.embargo = e] : e \in 1 .. 3}
        \cup {[train |-> 40, valid |-> 40, embargo |-> 1], [train |-> 30, valid |-> 40, embargo |-> 3]}
IC(revision, key, t) ==
    CASE key = "a" -> (t % 3) + revision + 1
      [] key = "b" -> IF t % 4 = 0 THEN 9 ELSE (0 - 2) - (t % 2)
      [] OTHER -> IF revision = 2 THEN 99 ELSE 1 - (t % 2)
Telling(revision, key, t) == ~(key = "a" /\ t > 16)
(* One trial keeps to a side, one turns around on the second revision, and   *)
(* one goes round: over three dates it holds nothing, though no two of them  *)
(* are opposite.                                                             *)
ThreeNames == {"x", "y", "z"}
LongShort(long, short) ==
    [n \in ThreeNames |-> CASE n = long -> 1 [] n = short -> 0 - 1 [] OTHER -> 0]
Holding(revision, key, strategy, t) ==
    CASE ~Telling(revision, key, t) \/ (strategy = "rank" /\ t % 4 = 0) ->
             [n \in ThreeNames |-> 0]
      [] key = "a" /\ revision = 2 /\ t % 2 = 0 -> LongShort("y", "x")
      [] key = "b" /\ t % 3 = 0 -> LongShort("y", "z")
      [] key = "b" /\ t % 3 = 1 -> LongShort("z", "x")
      [] OTHER -> LongShort("x", "y")
PerNode(n) == n
TwoPlans == {<<"quantile">>, <<"rank", "quantile">>}
Number(s) ==
    (CASE s.of[1] = "a" -> 3 [] s.of[1] = "b" -> 5 [] OTHER -> 8)
        * (IF s.of[2] = "quantile" THEN 2 ELSE 7)
      + s.market.revision * 4 + s.market.days + s.run.horizon
Ratio(s, blocks) == FoldSet(LAMBDA b, n : n + ((Number(s) * (b * b + 3)) % 13), 0, blocks)
Deflated(s, n, all) == 90 + ((Number(s) + n) % 10)

(* Each part with requests of its own, and an agent's patch before a search. *)
NoRequests ==
    [messages |-> 0, errands |-> 0, replies |-> {}, segments |-> 0, upsets |-> 0,
     settings |-> {NoChange},
     apart |-> FALSE,
     asks |-> 0, changes |-> 0, stops |-> 0, exits |-> 0, tunings |-> 0, batches |-> 0,
     days |-> {12}, kernels |-> {"native"}, choices |-> {}, runs |-> {},
     rounds |-> 0, reports |-> 0, report_stops |-> 0, comparisons |-> 0, syncs |-> 0, damages |-> 0]

Spread ==
    {[NoRequests EXCEPT !.messages = 1, !.replies = AllReplies],
     [NoRequests EXCEPT !.messages = 1, !.replies = {FactorReply, PatchReply},
                        !.errands = 2, !.segments = 1],
     [NoRequests EXCEPT !.messages = 2, !.replies = {FactorReply}, !.errands = 1],
     [NoRequests EXCEPT !.messages = 1, !.replies = {FactorReply, PatchReply},
                        !.errands = 1, !.segments = 1, !.upsets = 1],
     [NoRequests EXCEPT !.messages = 1, !.replies = {PatchReply}, !.errands = 1,
                        !.segments = 2, !.settings = AllChanges],
     [NoRequests EXCEPT !.messages = 1, !.replies = {PatchReply}, !.errands = 1,
                        !.asks = 2],
     [NoRequests EXCEPT !.asks = 3, !.stops = 1, !.exits = 1],
     [NoRequests EXCEPT !.asks = 2, !.changes = 1, !.stops = 1, !.exits = 1],
     [NoRequests EXCEPT !.tunings = 2, !.batches = 9],
     [NoRequests EXCEPT !.choices = AllChoices, !.runs = AllRuns, !.rounds = 2, !.syncs = 1,
                        !.days = {16, 19}],
     [NoRequests EXCEPT !.choices = AllChoices, !.runs = AllRuns, !.rounds = 1,
                        !.comparisons = 1, !.syncs = 1, !.days = {16, 19}],
     [NoRequests EXCEPT !.choices = {OneChoice}, !.runs = {OneRun}, !.rounds = 2,
                        !.reports = 2, !.report_stops = 1, !.syncs = 1],
     [NoRequests EXCEPT !.choices = {OneChoice}, !.runs = {OneRun}, !.rounds = 1,
                        !.reports = 3, !.syncs = 1, !.damages = 1]}

(* One message, one promotion and one segment, one after the other.          *)
OneAfterTheOther ==
    {[NoRequests EXCEPT !.messages = 1, !.replies = {FactorReply}, !.errands = 1,
                        !.segments = 1, !.apart = TRUE]}
=============================================================================
