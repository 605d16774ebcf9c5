-------------------------- MODULE TrainingScheduler --------------------------
(***************************************************************************)
(* The process-wide CPU and memory reservations of api/resources.py: the   *)
(* policy that turns a profile into a weighted request, the lease one run  *)
(* enters before it trains, and the scheduler all runs share.  A run is    *)
(* one job thread; it takes one lease, may push fallback work through the  *)
(* shared executor while it holds it, and leaves it once.                  *)
(***************************************************************************)
EXTENDS Naturals, FiniteSets

CONSTANTS
    Runs,           \* the job threads that ask for a lease
    MaxWorkers,     \* worker_capacity(): the scheduler's CPU budget
    MaxMemory,      \* memory_budget_bytes() when the scheduler was built
    MinMemory,      \* MIN_MEMORY_BUDGET
    Percent,        \* per run: ResourcePolicy.percent
    Accelerated,    \* per run: is the native evaluator available
    Budget,         \* per run: memory_budget_bytes() when it was resolved
    MaxTasks        \* bound: futures one run submits

ASSUME SchedulerAssumption ==
    /\ IsFiniteSet(Runs)
    /\ MaxWorkers \in Nat \ {0}
    /\ MaxMemory \in Nat \ {0}
    /\ MinMemory \in Nat \ {0}
    /\ Percent \in [Runs -> 1..100]
    /\ Accelerated \in [Runs -> BOOLEAN]
    /\ Budget \in [Runs -> Nat \ {0}]
    /\ MaxTasks \in Nat

-----------------------------------------------------------------------------
(* resolve_resources: the percentage is a ceiling, never below one worker;  *)
(* the memory request never exceeds the budget seen at resolution.          *)
AtMost(a, b)  == IF a <= b THEN a ELSE b
AtLeast(a, b) == IF a >= b THEN a ELSE b

Workers(r) ==
    IF Accelerated[r]
    THEN AtLeast(1, AtMost(MaxWorkers, (MaxWorkers * Percent[r] + 99) \div 100))
    ELSE 1

RequestedMemory(r) ==
    AtMost(Budget[r],
           AtLeast(MinMemory,
                   AtLeast(1, Budget[r] \div MaxWorkers) * Workers(r)))

(* A faulty variant: the request is taken as it was resolved. *)
LeaseMemory_Uncapped(r) == RequestedMemory(r)

(* TrainingLease.__init__ caps a request resolved when more memory was free. *)
LeaseMemory(r) == AtMost(RequestedMemory(r), MaxMemory)

-----------------------------------------------------------------------------
VARIABLES
    pc,                 \* where each run stands
    cancelled,          \* the runs whose cancel predicate is true
    available_workers,
    available_memory,
    pending,            \* per run: futures queued in the shared executor
    running             \* per run: futures an executor thread is executing

vars == <<pc, cancelled, available_workers, available_memory, pending, running>>

Stages == {"new", "rejected", "waiting", "held", "gave_up", "released"}

(* The slots of a lease's BoundedSemaphore that are taken. *)
InFlight(r) == pending[r] + running[r]

Held == {r \in Runs : pc[r] = "held"}

(* The executor has MaxWorkers threads: one is free when the futures being   *)
(* executed are fewer.                                                       *)
Executing == UNION {{r} \X (1..running[r]) : r \in Runs}

(* A faulty variant: only the CPU reservation is waited for. *)
Fits_WorkersOnly(r) == Workers(r) <= available_workers

(* The condition _reserve() waits for. *)
Fits(r) ==
    /\ Workers(r) <= available_workers
    /\ LeaseMemory(r) <= available_memory

Init ==
    /\ pc = [r \in Runs |-> "new"]
    /\ cancelled = {}
    /\ available_workers = MaxWorkers
    /\ available_memory = MaxMemory
    /\ pending = [r \in Runs |-> 0]
    /\ running = [r \in Runs |-> 0]

(* acquire(): a request wider than the scheduler is refused before it waits. *)
Acquire(r) ==
    /\ pc[r] = "new"
    /\ pc' = [pc EXCEPT ![r] = IF Workers(r) > MaxWorkers
                               THEN "rejected" ELSE "waiting"]
    /\ UNCHANGED <<cancelled, available_workers, available_memory, pending, running>>

(* The user, or application shutdown, asks the run to stop. *)
Cancel(r) ==
    /\ pc[r] \in {"new", "waiting", "held"}
    /\ cancelled' = cancelled \cup {r}
    /\ UNCHANGED <<pc, available_workers, available_memory, pending, running>>

(* _reserve(), the pass of its loop that finds the capacity: the condition's *)
(* lock is held from the test to the subtraction.                            *)
Reserve(r) ==
    /\ pc[r] = "waiting"
    /\ Fits(r)
    /\ r \notin cancelled
    /\ pc' = [pc EXCEPT ![r] = "held"]
    /\ available_workers' = available_workers - Workers(r)
    /\ available_memory' = available_memory - LeaseMemory(r)
    /\ UNCHANGED <<cancelled, pending, running>>

(* _reserve() sees the cancel, in the loop or in the re-check after it. *)
GiveUp(r) ==
    /\ pc[r] = "waiting"
    /\ r \in cancelled
    /\ pc' = [pc EXCEPT ![r] = "gave_up"]
    /\ UNCHANGED <<cancelled, available_workers, available_memory, pending, running>>

(* A faulty variant: __exit__ leaves _acquired set, so it can release again. *)
Release_Again(r) ==
    /\ pc[r] = "held"
    /\ available_workers' = AtMost(MaxWorkers, available_workers + Workers(r))
    /\ available_memory' = AtMost(MaxMemory, available_memory + LeaseMemory(r))
    /\ UNCHANGED <<pc, cancelled, pending, running>>

(* __exit__: the body returned or raised, whatever it left in flight. *)
Release(r) ==
    /\ pc[r] = "held"
    /\ pc' = [pc EXCEPT ![r] = "released"]
    /\ available_workers' = AtMost(MaxWorkers, available_workers + Workers(r))
    /\ available_memory' = AtMost(MaxMemory, available_memory + LeaseMemory(r))
    /\ UNCHANGED <<cancelled, pending, running>>

(* A faulty variant: the lease does not count its slots. *)
Submit_Unbounded(r) ==
    /\ pc[r] = "held"
    /\ InFlight(r) < MaxTasks
    /\ pending' = [pending EXCEPT ![r] = @ + 1]
    /\ UNCHANGED <<pc, cancelled, available_workers, available_memory, running>>

(* TrainingLease.submit with a free slot: the future goes to the executor.   *)
(* A run that is cancelled while it waits for a slot raises out of its       *)
(* lease: that is Release.                                                   *)
Submit(r) ==
    /\ pc[r] = "held"
    /\ InFlight(r) < Workers(r)
    /\ InFlight(r) < MaxTasks
    /\ pending' = [pending EXCEPT ![r] = @ + 1]
    /\ UNCHANGED <<pc, cancelled, available_workers, available_memory, running>>

Execute(r) ==
    /\ pending[r] > 0
    /\ Cardinality(Executing) < MaxWorkers
    /\ pending' = [pending EXCEPT ![r] = @ - 1]
    /\ running' = [running EXCEPT ![r] = @ + 1]
    /\ UNCHANGED <<pc, cancelled, available_workers, available_memory>>

(* The done callback gives the lease its slot back. *)
Complete(r) ==
    /\ running[r] > 0
    /\ running' = [running EXCEPT ![r] = @ - 1]
    /\ UNCHANGED <<pc, cancelled, available_workers, available_memory, pending>>

Next == \E r \in Runs :
    \/ Acquire(r) \/ Cancel(r) \/ Reserve(r) \/ GiveUp(r) \/ Release(r)
    \/ Submit(r) \/ Execute(r) \/ Complete(r)

(* A job thread keeps running, its wait polls every 0.1 s, its body ends,    *)
(* and an executor thread takes and finishes what it is given.  Nobody has   *)
(* to cancel, and nobody has to submit.                                      *)
Fairness == \A r \in Runs :
    /\ WF_vars(Acquire(r))
    /\ WF_vars(Reserve(r) \/ GiveUp(r))
    /\ WF_vars(Release(r))
    /\ WF_vars(Execute(r))
    /\ WF_vars(Complete(r))

Spec == Init /\ [][Next]_vars /\ Fairness

-----------------------------------------------------------------------------
TypeOK ==
    /\ pc \in [Runs -> Stages]
    /\ cancelled \subseteq Runs
    /\ available_workers \in 0..MaxWorkers
    /\ available_memory \in 0..MaxMemory
    /\ pending \in [Runs -> Nat]
    /\ running \in [Runs -> Nat]

(* What the runs inside their lease have taken, one element per unit, so     *)
(* that two runs never share one.                                            *)
WorkersTaken == UNION {{r} \X (1..Workers(r)) : r \in Held}
MemoryTaken  == UNION {{r} \X (1..LeaseMemory(r)) : r \in Held}

(* Simultaneous runs never exceed either machine budget in aggregate, and    *)
(* not a unit is lost or returned twice: what is available and what is held  *)
(* add up to the budget, so the min() clamps of _release never hide a        *)
(* mismatched release (resources.py 283-369).                                *)
ExactAccounting ==
    /\ available_workers + Cardinality(WorkersTaken) = MaxWorkers
    /\ available_memory + Cardinality(MemoryTaken) = MaxMemory

(* A policy resolved on this machine always fits the scheduler alone: no run *)
(* is refused at acquire(), and no lone run waits on an idle scheduler for   *)
(* capacity that can never exist (resources.py 172-210, 236-243, 329-341).   *)
EveryRunIsRunnable ==
    /\ \A r \in Runs : pc[r] # "rejected"
    /\ \A r \in Runs : Held = {} => Fits(r)

(* Work pushed through the shared executor stays within the slots its lease  *)
(* reserved, even after the lease was left with futures still in flight      *)
(* (resources.py 267-280); ReservedWorkNeverQueues rests on it.              *)
SlotsBounded == \A r \in Runs : InFlight(r) <= Workers(r)

(* While every future in flight belongs to a lease still held, the executor  *)
(* has a thread for each: a run waits for its own work only, never for a     *)
(* thread another run is using.                                              *)
ReservedWorkNeverQueues ==
    (\A r \in Runs : InFlight(r) > 0 => r \in Held)
        => \A r \in Runs : pending[r] > 0 => Cardinality(Executing) < MaxWorkers

(* Every run that waits eventually trains or gives up: _release's            *)
(* notify_all and the polling wait lose no wake-up, and no set of runs can   *)
(* block each other for ever.                                                *)
WaitingEnds == \A r \in Runs : pc[r] = "waiting" ~> pc[r] \in {"held", "gave_up"}
=============================================================================
