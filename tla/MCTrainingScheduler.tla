------------------------ MODULE MCTrainingScheduler ------------------------
(* Three runs of different weight on a machine with three workers and five  *)
(* units of memory.  "wide" asks for every worker, "light" for a quarter,   *)
(* "fallback" runs without the native evaluator and was resolved while more *)
(* memory was free than the scheduler has, so its lease is capped.          *)
EXTENDS TrainingScheduler, TLC
CONSTANTS wide, light, fallback
MCPercent == (wide :> 100) @@ (light :> 25) @@ (fallback :> 50)
MCAccelerated == (wide :> TRUE) @@ (light :> TRUE) @@ (fallback :> FALSE)
MCBudget == (wide :> 5) @@ (light :> 4) @@ (fallback :> 30)
=============================================================================
