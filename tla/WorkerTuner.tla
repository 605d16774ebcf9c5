----------------------------- MODULE WorkerTuner -----------------------------
(***************************************************************************)
(* How many workers score a batch: a tuner of the segment's own walks a    *)
(* ladder of counts, settles on the smallest that costs nearly as little   *)
(* as the best, watches for drift, and leaves its timings to the next      *)
(* segment in the checkpoint.  The search chooses and observes in turn;    *)
(* other threads only read a snapshot.                                     *)
(***************************************************************************)
EXTENDS Naturals, Sequences, FiniteSets, FiniteSetsExt, Functions

CONSTANTS
    Ceilings,       \* bound: the workers a lease grants
    BatchSizes,     \* bound: trees in a batch
    Costs,          \* bound: cost of a unit of work, even; 0 where the clock did not move
    MinBatch,       \* MIN_BATCH_FOR_PROBE
    SamplesPerRung, \* SAMPLES_PER_RUNG
    DriftPatience,  \* DRIFT_PATIENCE
    NoTuner, NoTimings

VARIABLES
    tuner,          \* the WorkerTuner of the segment under way
    worker_tuning,  \* in checkpoint.json
    calibration     \* history: what the calibrations of the segment took

tunerVars == <<tuner, worker_tuning, calibration>>

ASSUME TunerAssumption ==
    /\ Ceilings \subseteq Nat \ {0} /\ BatchSizes \subseteq Nat \ {0}
    /\ \A c \in Costs : c \in Nat /\ c % 2 = 0
    /\ SamplesPerRung \in 1 .. 2 /\ DriftPatience \in Nat \ {0} /\ MinBatch \in Nat

NoBatch == [size |-> 0, workers |-> 0]
NoCalibration == [taken |-> 0, due |-> 0, slow |-> 0]

TunerInit ==
    /\ tuner = NoTuner
    /\ worker_tuning = NoTimings
    /\ calibration = NoCalibration

Ladder(ceiling) == {n \in 1 .. ceiling : n = ceiling \/ \E k \in 0 .. ceiling : n = 2 ^ k}

(* _budget: the serial rung is the slowest to sample, so one sample does.    *)
Wanted(ceiling, rung) == IF rung = 1 /\ ceiling > 1 THEN 1 ELSE SamplesPerRung

(* settled: 0 while calibrating; probing: 0 for a batch too small to measure. *)
NewTuner(ceiling) ==
    [ceiling |-> ceiling, costs |-> [r \in Ladder(ceiling) |-> <<>>], cursor |-> 0,
     settled |-> 0, drifting |-> 0, probing |-> ceiling, batch |-> NoBatch]

(* Of one sample or two.                                                     *)
MedianCost(samples) == (samples[1] + samples[Len(samples)]) \div 2

Knee(costs) ==
    LET price == [r \in DOMAIN costs |-> MedianCost(costs[r])]
    IN  Min({r \in DOMAIN price : 10 * price[r] <= 11 * Min(Range(price))})

Short(t) == {r \in DOMAIN t.costs : Len(t.costs[r]) < Wanted(t.ceiling, r)}

(* From the ceiling down, and over rungs that have enough.                   *)
NextRung(t) ==
    LET rungs == DOMAIN t.costs
        n == Cardinality(rungs)
        Position(r) == Cardinality({q \in rungs : q > r})
        After(r) == (Position(r) + (n - (t.cursor % n))) % n
    IN  IF Short(t) = {} THEN t.ceiling
        ELSE CHOOSE r \in Short(t) : \A q \in Short(t) : After(r) <= After(q)

-----------------------------------------------------------------------------
(* restore: only timings of the same ceiling and of the whole ladder.        *)
Adopted(t) ==
    LET costs == [r \in DOMAIN t.costs |->
                     [i \in 1 .. Wanted(t.ceiling, r) |-> worker_tuning.costs[r]]]
    IN  IF worker_tuning = NoTimings THEN t
        ELSE IF worker_tuning.ceiling # t.ceiling \/ DOMAIN worker_tuning.costs # DOMAIN t.costs
             THEN t
        ELSE [t EXCEPT !.costs = costs, !.settled = Knee(costs)]

(* All the samples a calibration takes.                                      *)
WholeLadder(ceiling) ==
    Cardinality({s \in Ladder(ceiling) \X (1 .. SamplesPerRung) : s[2] <= Wanted(ceiling, s[1])})

BeginTuning(ceiling) ==
    /\ tuner = NoTuner
    /\ tuner' = Adopted(NewTuner(ceiling))
    /\ calibration' =
          [NoCalibration EXCEPT !.due = IF tuner'.settled = 0 THEN WholeLadder(ceiling) ELSE 0]
    /\ UNCHANGED worker_tuning

(* choose; a count that is settled is not probed.                            *)
ChooseWorkers(size) ==
    /\ tuner # NoTuner /\ tuner.batch = NoBatch
    /\ LET small == size < MinBatch
           chosen == IF tuner.settled # 0 THEN tuner.settled
                     ELSE IF small THEN tuner.ceiling ELSE NextRung(tuner)
           probed == IF tuner.settled # 0 THEN tuner.probing ELSE IF small THEN 0 ELSE chosen
       IN  tuner' = [tuner EXCEPT !.probing = probed,
                        !.batch = [size |-> size, workers |-> Min({chosen, size})]]
    /\ UNCHANGED <<worker_tuning, calibration>>

Measured(t, cost) == t.batch.size >= MinBatch /\ cost > 0

Sampled(t, cost) ==
    LET sampled == [t EXCEPT !.costs[t.probing] = Append(@, cost), !.cursor = @ + 1]
    IN  IF t.probing = 0 THEN t
        ELSE IF t.batch.workers # Min({t.probing, t.batch.size, t.ceiling}) THEN t
        ELSE IF Short(sampled) # {} THEN sampled
        ELSE [sampled EXCEPT !.settled = Knee(sampled.costs), !.drifting = 0]

(* More than one and a half times what it cost when it was calibrated.       *)
Slow(t, cost) ==
    t.batch.workers = t.settled /\ 2 * cost > 3 * MedianCost(t.costs[t.settled])
Usual(t, cost) ==
    t.batch.workers = t.settled /\ ~Slow(t, cost)

(* A faulty variant: a batch as fast as usual does not end the slow ones.    *)
Watched_KeepsCount(t, cost) ==
    IF Slow(t, cost)
    THEN IF t.drifting + 1 >= DriftPatience
         THEN [NewTuner(t.ceiling) EXCEPT !.probing = t.probing, !.batch = t.batch]
         ELSE [t EXCEPT !.drifting = @ + 1]
    ELSE t

(* _observe_settled.                                                         *)
Watched(t, cost) ==
    IF Slow(t, cost)
    THEN IF t.drifting + 1 >= DriftPatience
         THEN [NewTuner(t.ceiling) EXCEPT !.probing = t.probing, !.batch = t.batch]
         ELSE [t EXCEPT !.drifting = @ + 1]
    ELSE IF Usual(t, cost) THEN [t EXCEPT !.drifting = 0] ELSE t

(* A batch counts as taken by a calibration, or towards a run of slow ones   *)
(* after which another calibration is due.                                   *)
Accounted(c, t, cost) ==
    IF ~Measured(t, cost) THEN c
    ELSE IF t.settled = 0 THEN [c EXCEPT !.taken = @ + 1]
    ELSE IF Slow(t, cost)
         THEN IF c.slow + 1 = DriftPatience
              THEN [c EXCEPT !.slow = 0, !.due = @ + WholeLadder(t.ceiling)]
              ELSE [c EXCEPT !.slow = @ + 1]
    ELSE IF Usual(t, cost) THEN [c EXCEPT !.slow = 0]
    ELSE c

ObserveBatch(cost) ==
    /\ tuner # NoTuner /\ tuner.batch # NoBatch
    /\ LET seen == IF ~Measured(tuner, cost) THEN tuner
                   ELSE IF tuner.settled # 0 THEN Watched(tuner, cost)
                   ELSE Sampled(tuner, cost)
       IN  tuner' = [seen EXCEPT !.batch = NoBatch]
    /\ calibration' = Accounted(calibration, tuner, cost)
    /\ UNCHANGED worker_tuning

(* save_checkpoint keeps the snapshot: the medians of the sampled rungs.     *)
SaveTuning ==
    /\ tuner # NoTuner /\ tuner.batch = NoBatch
    /\ LET sampled == {r \in DOMAIN tuner.costs : tuner.costs[r] # <<>>}
       IN  worker_tuning' =
              [ceiling |-> tuner.ceiling, settled |-> tuner.settled,
               costs |-> [r \in sampled |-> MedianCost(tuner.costs[r])]]
    /\ tuner' = NoTuner
    /\ calibration' = NoCalibration

(* The segment fails, or the process exits.                                  *)
DropTuning ==
    /\ tuner # NoTuner
    /\ tuner' = NoTuner
    /\ calibration' = NoCalibration
    /\ UNCHANGED worker_tuning

-----------------------------------------------------------------------------
TunerTypeOK ==
    tuner # NoTuner =>
        /\ tuner.ceiling \in Ceilings /\ DOMAIN tuner.costs = Ladder(tuner.ceiling)
        /\ tuner.settled \in {0} \cup Ladder(tuner.ceiling)
        /\ tuner.probing \in {0} \cup Ladder(tuner.ceiling)
        /\ tuner.batch.workers \in 0 .. tuner.ceiling
        /\ tuner.drifting \in 0 .. DriftPatience - 1

(* "Once every rung has enough samples it settles" (tuning.py 11), and "if   *)
(* the settled rung's cost drifts ... for several batches running" walks     *)
(* again (36-38): a tuner is settled exactly when each calibration that was  *)
(* due has had its samples, so that none takes more batches than the ladder  *)
(* has samples, whatever sizes, clocks and restarts come in between, and     *)
(* none begins without that many slow batches in a row.                      *)
CalibrationsArePaid ==
    tuner # NoTuner =>
        /\ calibration.taken <= calibration.due
        /\ tuner.settled # 0 <=> calibration.taken = calibration.due
        /\ (worker_tuning # NoTimings /\ tuner.ceiling = worker_tuning.ceiling
               /\ worker_tuning.settled # 0 /\ calibration.due = 0) =>
              tuner.settled = worker_tuning.settled

(* "The batch did not run at the count we asked for ... so it says nothing   *)
(* about that rung" (tuning.py 151-152): a sample of a rung was scored by    *)
(* that many workers.                                                        *)
SamplesMeanTheirRung ==
    [][(tuner # NoTuner /\ tuner' # NoTuner) =>
          \A r \in DOMAIN tuner.costs :
              Len(tuner'.costs[r]) > Len(tuner.costs[r]) => tuner.batch.workers = r]_tuner

(* "A rung must collect this many samples before the ladder is considered    *)
(* walked" (tuning.py 30): timings that are adopted come from a tuner that   *)
(* had settled.                                                              *)
AdoptsWhatSettled ==
    [][(tuner = NoTuner /\ tuner' # NoTuner) =>
          (tuner'.settled # 0 => worker_tuning.settled # 0)]_tuner
=============================================================================
