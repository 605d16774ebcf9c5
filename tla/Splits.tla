-------------------------------- MODULE Splits --------------------------------
(***************************************************************************)
(* How dates are divided so that no forward return is known on two sides   *)
(* of a boundary.  A date is its position in the panel's calendar, a       *)
(* segment an interval of positions, and fractions are percentages.        *)
(***************************************************************************)
EXTENDS Naturals, Sequences, FiniteSets

CONSTANTS
    MinInnerDates,  \* MIN_INNER_DATES
    HoldoutPercent  \* INNER_HOLDOUT_FRACTION

ASSUME SplitsAssumption == MinInnerDates \in Nat /\ HoldoutPercent \in Nat

Smaller(a, b) == IF a < b THEN a ELSE b
Larger(a, b) == IF a < b THEN b ELSE a
Part(n, percent) == (n * percent) \div 100

(* Sessions between the signal and the price the trade is entered at.        *)
Delay(execution) == IF execution = "close" THEN 0 ELSE 1

(* A faulty variant: the delay of the execution is forgotten.                *)
LabelSpan_Close(horizon, execution) == horizon

LabelSpan(horizon, execution) == horizon + Delay(execution)

(* forward_returns: the later sessions whose price the label of t reads.     *)
Label(t, horizon, execution) ==
    (t + 1) .. (t + Delay(execution) + horizon)

(* time_split; <<>> where a segment would be empty.                          *)
TimeSplit(n, train, valid, embargo) ==
    LET last == Part(n, train)
        first == last + embargo
        test == first + Part(n, valid) + embargo
        s == [train |-> 1 .. last, valid |-> (first + 1) .. Smaller(n, first + Part(n, valid)),
              test |-> (test + 1) .. n]
    IN  IF n < 10 \/ \E part \in DOMAIN s : s[part] = {} THEN <<>> ELSE s

(* _chronological_folds of first .. last.                                    *)
Folds(first, last, count, embargo) ==
    LET all == (last + 1) - first
        usable == IF all > embargo * (count - 1) THEN all - embargo * (count - 1) ELSE 0
        Size(i) == usable \div count + (IF i <= usable % count THEN 1 ELSE 0)
        From[i \in 1 .. count] ==
            IF i = 1 THEN first ELSE From[i - 1] + Size(i - 1) + embargo
    IN  [i \in 1 .. count |-> From[i] .. (From[i] + Size(i)) - 1]

(* walk_forward: windows that roll by the length of a test.                  *)
WalkForward(n, splits, train, test, embargo) ==
    LET Start(k) == (k - 1) * test
        fit == {k \in 1 .. splits : Start(k) + train + embargo + test <= n}
    IN  [k \in 1 .. Cardinality(fit) |->
            <<(Start(k) + 1) .. (Start(k) + train),
              (Start(k) + train + embargo + 1) .. (Start(k) + train + embargo + test)>>]

(* purged_kfold: out of the training dates go the fold, the dates whose      *)
(* label reaches into it, and the embargo after it.                          *)
PurgedFolds(n, splits, embargo, horizon) ==
    LET Bound(i) == (i * n) \div splits
        Dropped(i) ==
            ((Bound(i - 1) + 1) - Smaller(horizon, Bound(i - 1)))
                .. Smaller(n, Bound(i) + embargo)
    IN  [i \in 1 .. splits |-> <<(1 .. n) \ Dropped(i), (Bound(i - 1) + 1) .. Bound(i)>>]

(* inner_split: the agent's own holdout, carved out of the training dates;   *)
(* <<>> when either part would be too short.                                 *)
InnerSplit(n, span, embargo) ==
    LET gap == Larger(embargo, span)
        holdout == Part(n, HoldoutPercent)
    IN  IF holdout < MinInnerDates \/ n < holdout + gap + MinInnerDates THEN <<>>
        ELSE [train |-> 1 .. (n - (holdout + gap)), holdout |-> ((n - holdout) + 1) .. n]

(* No label of a date in a is the return over a session of b.                *)
Apart(a, b, horizon, execution) == \A t \in a : Label(t, horizon, execution) \cap b = {}
=============================================================================
