------------------------------ MODULE SearchRun ------------------------------
(***************************************************************************)
(* A session's genetic search over its segments: an initial population, a  *)
(* generation at a time, scored in chunks that commit together or not at   *)
(* all, a checkpoint at the end of a segment, and what the next process    *)
(* makes of it.  A score is a fixed function of the tree, of the measure   *)
(* (the settings that scores depend on) and of the evaluator: two of them  *)
(* need not give a tree the same number.  Only the search itself writes    *)
(* here; module SessionSegments has the files around it.                   *)
(***************************************************************************)
EXTENDS SearchVariation

CONSTANTS
    Measures, FirstMeasure,
    Kernels,        \* evaluators a process may come up with
    Score,          \* per measure, evaluator and tree
    KernelFor(_, _),\* the one a process uses for a measure
    MaxGenerations, \* bound: generations of a session
    ChunkSize,      \* _scoring_chunk_size
    NoCheckpoint

VARIABLES
    gp,             \* the search in memory: its state and where it is
    checkpoint,     \* checkpoint.json
    settings,       \* the measure in session.json
    process,        \* the evaluator this process has
    ask,            \* the continue under way
    altered         \* history: whether measure, seeds or evaluator ever changed

searchVars == <<gp, checkpoint, settings, process, ask, altered>>

ASSUME SearchAssumption ==
    /\ FirstMeasure \in Measures /\ Score \in [Measures -> [Kernels -> [Trees -> Nat]]]
    /\ \A p \in Kernels, m \in Measures : KernelFor(p, m) \in Kernels
    /\ ChunkSize \in Nat \ {0} /\ MaxGenerations \in Nat

NoAsk ==
    [step |-> "idle", target |-> 0, measure |-> FirstMeasure, rescore |-> FALSE,
     seeds |-> <<>>, stop |-> "no"]

(* kernel: scorer_backend; before: what a cancelled generation gives back.   *)
NoGP == [step |-> "none"]
Held(s, measure, kernel) ==
    [step |-> "ready", s |-> s, measure |-> measure, kernel |-> kernel, stale |-> {},
     before |-> <<>>, bred |-> <<>>, todo |-> <<>>, staged |-> {}]

SearchInit ==
    /\ gp = NoGP
    /\ checkpoint = NoCheckpoint
    /\ settings = FirstMeasure
    /\ process \in Kernels
    /\ ask = NoAsk
    /\ altered = FALSE

Trials(s) == s.prior + Cardinality(DOMAIN s.cache)

(* score: the numbers of one measure and one evaluator.                      *)
Scored(s, trees, score) ==
    [s EXCEPT !.cache = [t \in DOMAIN @ \cup trees |->
                            IF t \in DOMAIN s.cache THEN @[t] ELSE score[t]]]

(* _record: the best score ever, and for how long there was none better.     *)
Recorded(s, first) ==
    LET top == Max({FitnessAt(s, i) : i \in DOMAIN s.population})
    IN  IF top > s.best THEN [s EXCEPT !.best = top, !.stale = 0]
        ELSE IF first THEN s ELSE [s EXCEPT !.stale = @ + 1]

-----------------------------------------------------------------------------
(* initialize: seeds, defaults for up to half of the population, grown       *)
(* trees, and immigrants where copies are used up.                           *)
InitialTrees(s, seeds) ==
    LET capacity == Least(PopulationSize \div 2, PopulationSize - Len(seeds))
        defaults == SubSeq(Defaults, 1, Least(capacity, Len(Defaults)))
        missing == PopulationSize - Len(seeds) - Len(defaults)
        wanted == seeds \o defaults \o [k \in 1 .. missing |-> Grown(s.rng + k - 1)]
        kept == Picked(wanted, UnderLimit(wanted, <<>>))
        More[k \in 0 .. PopulationSize - Len(kept)] ==
            IF k = 0
            THEN [found |-> TRUE, s |-> [s EXCEPT !.rng = @ + missing], trees |-> kept]
            ELSE LET last == More[k - 1]
                     new == Immigrant(last.s, CountsOf(last.trees))
                 IN  IF ~last.found THEN last
                     ELSE IF ~new.found THEN [last EXCEPT !.found = FALSE]
                     ELSE [last EXCEPT !.s = new.s, !.trees = Append(@, new.tree)]
    IN  More[PopulationSize - Len(kept)]

Peopled(s, trees, score) ==
    LET scored == Scored(s, Range(trees), score)
    IN  [scored EXCEPT !.population =
            [i \in DOMAIN trees |-> [tree |-> trees[i], fitness |-> scored.cache[trees[i]],
                                     birth |-> 0, stones |-> {}]]]

Initialized(score) ==
    LET first == InitialTrees(NewSearch, <<>>)
        peopled == Peopled(first.s, first.trees, score)
    IN  Recorded([peopled EXCEPT
            !.pending = Unseen(Defaults, peopled.cache)], TRUE)

-----------------------------------------------------------------------------
(* _step, once the offspring are scored.  A survivor picked as a stepping    *)
(* stone, and every child, remembers the stones it descends from.            *)
NextPopulation(old, g, s) ==
    LET carried == [k \in DOMAIN g.stones |->
            LET i == g.stones[k]
            IN  [old[i] EXCEPT !.stones = @ \cup {old[i].tree}]]
        Line(i) == old[i].stones \cup (IF i \in Range(g.stones) THEN {old[i].tree} ELSE {})
        children == [k \in DOMAIN g.offspring |->
            LET child == g.offspring[k]
            IN  [tree |-> child.tree, fitness |-> s.cache[child.tree],
                 birth |-> s.generation + 1,
                 stones |-> UNION {Line(i) : i \in Range(child.parents)}]]
    IN  [k \in DOMAIN g.elite |-> old[g.elite[k]]] \o carried \o children

Committed(old, g, score) ==
    LET scored == Scored(g.s, {g.offspring[k].tree : k \in DOMAIN g.offspring}, score)
    IN  Recorded([scored EXCEPT !.generation = @ + 1,
                                !.population = NextPopulation(old, g, scored)], FALSE)

-----------------------------------------------------------------------------
(* POST .../continue: whether to score again is told from the settings of    *)
(* the session, which are saved before the segment begins.                   *)
Continue(measure, more, seeds) ==
    /\ ask.step = "idle"
    /\ more > 0
    /\ LET done == IF checkpoint = NoCheckpoint THEN 0 ELSE checkpoint.generation
       IN  /\ done + more <= MaxGenerations
           /\ ask' = [step |-> "waiting", target |-> done + more, measure |-> measure,
                      rescore |-> measure # settings, seeds |-> seeds, stop |-> "no"]
    /\ settings' = measure
    /\ altered' = (altered \/ measure # settings)
    /\ UNCHANGED <<gp, checkpoint, process>>

(* apply_config_patch: some of what an agent may change, scores depend on.   *)
PatchMeasure(measure) ==
    /\ measure # settings
    /\ settings' = measure
    /\ altered' = TRUE
    /\ UNCHANGED <<gp, checkpoint, process, ask>>

(* By the user at any time, or by the time the evolution is allowed.         *)
StopSearch(why) ==
    /\ ask.step # "idle" /\ ask.stop = "no"
    /\ why = "time" => ask.step = "running" /\ gp.step \in {"ready", "scoring"}
    /\ ask' = [ask EXCEPT !.stop = why]
    /\ UNCHANGED <<gp, checkpoint, settings, process, altered>>

Gone == gp' = NoGP /\ ask' = NoAsk

(* Stopped while it waited for its lease.                                    *)
LeaveQueue ==
    /\ ask.step = "waiting" /\ ask.stop = "user"
    /\ Gone
    /\ UNCHANGED <<checkpoint, settings, process, altered>>

(* A faulty variant: the scores of another evaluator are taken for its own.  *)
Restored_Unchecked(c, kernel) ==
    LET s == [generation |-> c.generation, rng |-> c.rng, population |-> c.population,
              cache |-> c.cache, prior |-> Max({0, c.trials - Cardinality(DOMAIN c.cache)}),
              pending |-> c.pending, beam |-> c.beam, frontier |-> c.frontier,
              lane |-> c.lane, guide |-> c.guide, best |-> c.best, stale |-> c.stale]
    IN  Held(s, c.measure, kernel)

(* from_checkpoint: other evaluators than the checkpoint's take every score  *)
(* again, and keep the count.                                                *)
Restored(c, kernel) ==
    LET s == [generation |-> c.generation, rng |-> c.rng, population |-> c.population,
              cache |-> IF c.kernel = kernel THEN c.cache ELSE <<>>,
              prior |-> IF c.kernel = kernel
                        THEN Max({0, c.trials - Cardinality(DOMAIN c.cache)}) ELSE c.trials,
              pending |-> c.pending, beam |-> c.beam, frontier |-> c.frontier,
              lane |-> c.lane, guide |-> c.guide, best |-> c.best, stale |-> c.stale]
    IN  [Held(s, c.measure, kernel) EXCEPT
            !.stale = IF c.kernel = kernel THEN {} ELSE DOMAIN c.cache,
            !.step = IF c.kernel = kernel THEN "ready" ELSE "outdated"]

(* With a checkpoint, its own settings come first and then the session's.    *)
LoadSearch ==
    /\ ask.step = "waiting"
    /\ gp' = IF checkpoint = NoCheckpoint
             THEN [Held(NewSearch, ask.measure, KernelFor(process, ask.measure)) EXCEPT
                      !.step = "empty"]
             ELSE [Restored(checkpoint, KernelFor(process, checkpoint.measure)) EXCEPT
                      !.measure = ask.measure]
    /\ ask' = [ask EXCEPT !.step = "loaded"]
    /\ UNCHANGED <<checkpoint, settings, process, altered>>

(* _ensure_scorer_backend.                                                   *)
SameKernel == gp.kernel = KernelFor(process, gp.measure)

GPScore == Score[gp.measure][gp.kernel]

(* Scoring, or the growing of a tree, raises: nothing of the segment stays.  *)
SearchFails ==
    /\ ask.step \in {"loaded", "seeding", "running"} /\ gp.step # "none"
    /\ Gone
    /\ UNCHANGED <<checkpoint, settings, process, altered>>

Rescored(s, score) ==
    LET trees == [i \in DOMAIN s.population |-> TreeAt(s, i)]
        scored == Scored(s, Range(trees), score)
    IN  [scored EXCEPT !.population = [i \in DOMAIN trees |->
            [@[i] EXCEPT !.fitness = scored.cache[trees[i]]]]]

(* A faulty variant: the trials of the scores that are dropped are not kept. *)
RescorePopulation_Forgets ==
    /\ ask.step = "loaded" /\ gp.step \in {"ready", "outdated"} /\ ask.rescore
    /\ SameKernel
    /\ gp' = [gp EXCEPT !.s = Rescored([@ EXCEPT !.cache = <<>>], GPScore)]
    /\ ask' = [ask EXCEPT !.step = "seeding"]
    /\ UNCHANGED <<checkpoint, settings, process, altered>>

(* rescore_population: dropped scores stay counted.                          *)
RescorePopulation ==
    /\ ask.step = "loaded" /\ gp.step \in {"ready", "outdated"} /\ ask.rescore
    /\ SameKernel
    /\ gp' = [gp EXCEPT !.s = Rescored([@ EXCEPT !.prior = Trials(gp.s), !.cache = <<>>],
                                       GPScore)]
    /\ ask' = [ask EXCEPT !.step = "seeding"]
    /\ UNCHANGED <<checkpoint, settings, process, altered>>

KeepScores ==
    /\ ask.step = "loaded" /\ (gp.step = "empty" \/ ~ask.rescore)
    /\ ask' = [ask EXCEPT !.step = "seeding"]
    /\ UNCHANGED <<gp, checkpoint, settings, process, altered>>

(* _inject_seeds: new seeds take the places of the least fit.                *)
InjectSeeds ==
    /\ ask.step = "seeding"
    /\ SameKernel \/ Range(ask.seeds) \subseteq DOMAIN gp.s.cache
    /\ ask' = [ask EXCEPT !.step = "running"]
    /\ IF ask.seeds = <<>> \/ gp.step = "empty" THEN UNCHANGED gp
       ELSE LET all == DOMAIN gp.s.population
                Below(i, j) == \/ FitnessAt(gp.s, i) < FitnessAt(gp.s, j)
                               \/ FitnessAt(gp.s, i) = FitnessAt(gp.s, j) /\ i < j
                last == InOrder(all, {p \in all \X all : Below(p[1], p[2])})
                scored == Scored(gp.s, Range(ask.seeds), GPScore)
                Seed(k) == [tree |-> ask.seeds[k], fitness |-> scored.cache[ask.seeds[k]],
                            birth |-> scored.generation, stones |-> {}]
                Taking(i) == {k \in 1 .. Least(Len(ask.seeds), Len(last)) : last[k] = i}
            IN  gp' = [gp EXCEPT !.s = [scored EXCEPT !.population = [i \in DOMAIN @ |->
                          IF Taking(i) = {} THEN @[i] ELSE Seed(CHOOSE k \in Taking(i) : TRUE)]]]
    /\ altered' = (altered \/ ask.seeds # <<>>)
    /\ UNCHANGED <<checkpoint, settings, process>>

(* _rescore_after_scorer_upgrade: everything searched is scored again, by    *)
(* other numbers; the count stays what it was unless the cache has more, and *)
(* the best score ever stays the one of the evaluator before.                *)
RescoreUpgraded ==
    /\ ask.step = "running" /\ gp.step = "outdated"
    /\ SameKernel
    /\ LET before == Trials(gp.s)
           again == Rescored(Scored([gp.s EXCEPT !.cache = <<>>, !.prior = 0],
                                    gp.stale, GPScore), GPScore)
       IN  gp' = [gp EXCEPT !.step = "ready", !.stale = {},
                      !.s = [again EXCEPT !.prior =
                                Max({0, before - Cardinality(DOMAIN again.cache)})]]
    /\ altered' = TRUE
    /\ UNCHANGED <<checkpoint, settings, process, ask>>

(* Stopped while everything is scored again, or before a first population is *)
(* complete: the segment ends with nothing.                                  *)
AbandonScoring ==
    /\ ask.step = "running" /\ ask.stop = "user" /\ gp.step \in {"outdated", "empty"}
    /\ Gone
    /\ UNCHANGED <<checkpoint, settings, process, altered>>

Initialize ==
    /\ ask.step = "running" /\ gp.step = "empty"
    /\ InitialTrees(NewSearch, <<>>).found
    /\ gp' = [gp EXCEPT !.step = "ready", !.s = Initialized(GPScore)]
    /\ UNCHANGED <<checkpoint, settings, process, ask, altered>>

-----------------------------------------------------------------------------
(* A generation: bred with the one random generator, then scored.            *)
BreedGeneration ==
    /\ ask.step = "running" /\ gp.step = "ready"
    /\ gp.s.generation < ask.target /\ ask.stop = "no"
    /\ \E g \in {Variation(gp.s)} :
          LET trees == {g.offspring[k].tree : k \in DOMAIN g.offspring}
          IN  /\ ~g.stuck
              /\ gp' = [gp EXCEPT !.step = "scoring", !.s = g.s, !.before = gp.s, !.bred = g,
                            !.todo = SetToSeq(trees \ DOMAIN gp.s.cache), !.staged = {}]
    /\ UNCHANGED <<checkpoint, settings, process, ask, altered>>

ScoreChunk ==
    /\ gp.step = "scoring" /\ gp.todo # <<>> /\ ask.stop = "no"
    /\ SameKernel
    /\ LET n == Least(ChunkSize, Len(gp.todo))
       IN  gp' = [gp EXCEPT !.staged = @ \cup Range(SubSeq(gp.todo, 1, n)),
                            !.todo = SubSeq(@, n + 1, Len(@))]
    /\ UNCHANGED <<checkpoint, settings, process, ask, altered>>

CommitGeneration ==
    /\ gp.step = "scoring" /\ gp.todo = <<>>
    /\ gp' = [gp EXCEPT !.step = "ready", !.before = <<>>, !.bred = <<>>, !.staged = {},
                  !.s = Committed(gp.s.population, gp.bred, GPScore)]
    /\ UNCHANGED <<checkpoint, settings, process, ask, altered>>

(* A faulty variant: the stream is not put back where it was.                *)
CancelGeneration_KeepsDraws ==
    /\ gp.step = "scoring" /\ ask.stop # "no" /\ (gp.todo # <<>> \/ gp.staged # {})
    /\ gp' = [gp EXCEPT !.step = "ready", !.before = <<>>, !.bred = <<>>, !.todo = <<>>,
                  !.staged = {}, !.s = [gp.before EXCEPT !.rng = gp.s.rng]]
    /\ UNCHANGED <<checkpoint, settings, process, ask, altered>>

(* Noticed before a chunk or after one: what the breeding moved goes back.   *)
CancelGeneration ==
    /\ gp.step = "scoring" /\ ask.stop # "no" /\ (gp.todo # <<>> \/ gp.staged # {})
    /\ gp' = [gp EXCEPT !.step = "ready", !.before = <<>>, !.bred = <<>>, !.todo = <<>>,
                  !.staged = {},
                  !.s = [@ EXCEPT !.rng = gp.before.rng, !.pending = gp.before.pending,
                                  !.beam = gp.before.beam, !.frontier = gp.before.frontier,
                                  !.lane = gp.before.lane, !.guide = gp.before.guide]]
    /\ UNCHANGED <<checkpoint, settings, process, ask, altered>>

(* The end of run: the target or a stop; then save_checkpoint.               *)
SaveCheckpoint ==
    /\ ask.step = "running" /\ gp.step = "ready"
    /\ gp.s.generation >= ask.target \/ ask.stop # "no"
    /\ LET s == gp.s
       IN  checkpoint' =
             [generation |-> s.generation, rng |-> s.rng, population |-> s.population,
              cache |-> s.cache, trials |-> Trials(s), pending |-> s.pending,
              beam |-> s.beam, frontier |-> s.frontier, lane |-> s.lane,
              guide |-> s.guide, best |-> s.best, stale |-> s.stale,
              measure |-> gp.measure, kernel |-> gp.kernel]
    /\ Gone
    /\ UNCHANGED <<settings, process, altered>>

(* The process exits, and the next may have another evaluator.               *)
ExitSearch ==
    /\ Gone
    /\ process' \in Kernels
    /\ UNCHANGED <<checkpoint, settings, altered>>

SearchStep ==
    \/ LeaveQueue \/ LoadSearch \/ SearchFails \/ RescorePopulation \/ KeepScores
    \/ InjectSeeds \/ RescoreUpgraded \/ AbandonScoring \/ Initialize
    \/ BreedGeneration \/ ScoreChunk \/ CommitGeneration \/ CancelGeneration
    \/ SaveCheckpoint

-----------------------------------------------------------------------------
(* What a search nobody interrupts reaches, generation by generation, with   *)
(* each of the evaluators.                                                   *)
Straight[n \in 0 .. MaxGenerations] ==
    IF n = 0 THEN [kernel \in Kernels |-> Initialized(Score[FirstMeasure][kernel])]
    ELSE [kernel \in Kernels |->
            Committed(Straight[n - 1][kernel].population, Variation(Straight[n - 1][kernel]),
                      Score[FirstMeasure][kernel])]

SearchTypeOK ==
    /\ ask.step \in {"idle", "waiting", "loaded", "seeding", "running"}
    /\ gp.step \in {"none", "empty", "outdated", "ready", "scoring"}
    /\ settings \in Measures /\ process \in Kernels
    /\ checkpoint # NoCheckpoint =>
          /\ Len(checkpoint.population) = PopulationSize
          /\ ~altered => \A t \in Trees :
                Copies([i \in 1 .. PopulationSize |-> TreeAt(checkpoint, i)], t) <= CopyLimit
          /\ checkpoint.generation \in 0 .. MaxGenerations

(* "Thus cancellation cannot leave a half-generation counted as searched"    *)
(* (gp.py 921-922), and a checkpoint is an exact resume (sessions.py 9):     *)
(* wherever a search was stopped, failed, saved and resumed, in one process  *)
(* or in several, the checkpoint of generation n is that of a search nobody  *)
(* interrupted, draws, cursors, scores and trial count included, as long as  *)
(* neither measure nor seeds changed and no scores were taken again by       *)
(* another evaluator, which gives other numbers.                             *)
ResumeReproducesRun ==
    (checkpoint # NoCheckpoint /\ ~altered) =>
        LET straight == Straight[checkpoint.generation][checkpoint.kernel]
        IN  /\ \A f \in (DOMAIN straight) \ {"prior"} : checkpoint[f] = straight[f]
            /\ checkpoint.trials = Trials(straight)

(* "so one run cannot mix score kernels" (gp.py 73): wherever processes with *)
(* other evaluators took over, a checkpoint's scores, those of its formulas  *)
(* and those it would give back to the next segment, are all of the one      *)
(* evaluator it names.                                                       *)
KernelsDoNotMix ==
    checkpoint # NoCheckpoint =>
        /\ \A t \in DOMAIN checkpoint.cache :
              \E m \in Measures : checkpoint.cache[t] = Score[m][checkpoint.kernel][t]
        /\ \A i \in DOMAIN checkpoint.population :
              FitnessAt(checkpoint, i) = checkpoint.cache[TreeAt(checkpoint, i)]

(* "The count never shrinks" (gp.py 2485): no checkpoint counts fewer trials *)
(* than the one it replaces, whatever was scored again.                      *)
TrialsNeverShrink ==
    [][checkpoint # NoCheckpoint => checkpoint'.trials >= checkpoint.trials]_checkpoint

(* "Stale cached scores are invalidated" when a continued session changes "a *)
(* scoring-relevant setting" (gp.py 2483-2484): a checkpoint's scores are    *)
(* all taken under the settings it names.                                    *)
ScoresShareOneMeasure ==
    checkpoint # NoCheckpoint =>
        \A i \in DOMAIN checkpoint.population :
            FitnessAt(checkpoint, i) =
                Score[checkpoint.measure][checkpoint.kernel][TreeAt(checkpoint, i)]
=============================================================================
