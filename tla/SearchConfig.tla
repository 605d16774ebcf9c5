----------------------------- MODULE SearchConfig -----------------------------
(***************************************************************************)
(* The settings of a genetic search (GPConfig) as the settings that bound  *)
(* one another, and the patches an agent may propose to them.  Rates are   *)
(* in percent.                                                             *)
(***************************************************************************)
EXTENDS Naturals, FiniteSets

CONSTANTS
    Upper,          \* the largest value of every setting that is a count
    MaxEvaluations, \* MAX_SEARCH_EVALUATIONS
    FormulaNames    \* logical names of formulas a search may be limited to

(* What a search may be told, and an agent may propose, to change.           *)
Tunable ==
    {"population_size", "generations", "tournament_size", "elitism", "min_depth",
     "max_depth", "max_nodes", "validation_folds", "crossover_rate",
     "subtree_mutation_rate", "enabled_formula_names"}

(* What defines the measurement.                                             *)
Protected == {"horizon", "execution", "ic_method", "min_names", "seed"}

Counts ==
    {"population_size", "generations", "tournament_size", "max_depth", "max_nodes",
     "min_names", "horizon", "min_depth", "validation_folds"}

Rates == {"crossover_rate", "subtree_mutation_rate"}

Settings == Tunable \cup Protected

ASSUME ConfigAssumption ==
    /\ Upper \in [Counts -> Nat \ {0}]
    /\ MaxEvaluations \in Nat

(* GPConfig.__post_init__; an empty set of names stands for no limit.        *)
LegalConfig(c) ==
    /\ \A k \in Counts : c[k] \in 1 .. Upper[k]
    /\ c.population_size * c.generations <= MaxEvaluations
    /\ c.elitism \in 0 .. c.population_size - 1
    /\ c.tournament_size <= c.population_size
    /\ c.min_depth <= c.max_depth
    /\ c.max_nodes >= c.min_depth
    /\ c.validation_folds >= 2
    /\ \A k \in Rates : c[k] \in 0 .. 100
    /\ c.execution \in {"close", "next_open", "next_close"}
    /\ c.ic_method \in {"pearson", "spearman"}
    /\ c.seed \in Nat
    /\ c.enabled_formula_names \subseteq FormulaNames

Merged(patch, base) ==
    [k \in DOMAIN base |-> IF k \in DOMAIN patch THEN patch[k] ELSE base[k]]

(* validate_config_patch: what is wrong with a patch is told to the model.   *)
PatchAccepted(patch, base) ==
    /\ DOMAIN patch # {}
    /\ DOMAIN patch \cap Protected = {}
    /\ DOMAIN patch \subseteq Tunable
    /\ LegalConfig(Merged(patch, base))
    /\ \E k \in DOMAIN patch : patch[k] # base[k]
=============================================================================
