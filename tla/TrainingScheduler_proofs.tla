----------------------- MODULE TrainingScheduler_proofs -----------------------
(***************************************************************************)
(* The safety of the training scheduler for any number of runs, any budget *)
(* of the machine and any resource policy.                                  *)
(***************************************************************************)
EXTENDS TrainingScheduler, FiniteSetTheorems, TLAPS

-----------------------------------------------------------------------------
(* What resolve_resources and TrainingLease.__init__ guarantee of a request. *)

(* A request asks for at least one worker and fits the machine. *)
LEMMA WorkersBound == \A r \in Runs : Workers(r) \in 1..MaxWorkers
<1> SUFFICES ASSUME NEW r \in Runs PROVE Workers(r) \in 1..MaxWorkers
  OBVIOUS
<1>1. MaxWorkers \in Nat \ {0} /\ Percent[r] \in Nat
  BY SchedulerAssumption
<1> DEFINE scaled == MaxWorkers * Percent[r]
<1>2. scaled \in Nat
  BY <1>1
<1> HIDE DEF scaled
<1>3. (scaled + 99) \div 100 \in Int
  BY <1>2
<1> QED
  BY <1>1, <1>3 DEF Workers, AtMost, AtLeast, scaled

(* The memory a lease reserves is positive and within the scheduler's. *)
LEMMA LeaseMemoryBound == \A r \in Runs : LeaseMemory(r) \in 1..MaxMemory
<1> SUFFICES ASSUME NEW r \in Runs PROVE LeaseMemory(r) \in 1..MaxMemory
  OBVIOUS
<1>1. /\ MaxWorkers \in Nat \ {0} /\ MaxMemory \in Nat \ {0}
      /\ MinMemory \in Nat \ {0} /\ Budget[r] \in Nat \ {0}
  BY SchedulerAssumption
<1>2. Workers(r) \in Nat
  BY <1>1, WorkersBound
<1> DEFINE share == AtLeast(1, Budget[r] \div MaxWorkers)
<1>3. Budget[r] \div MaxWorkers \in Int
  BY <1>1
<1>4. share \in Nat
  BY <1>3 DEF AtLeast
<1> HIDE DEF share
<1>5. share * Workers(r) \in Nat
  BY <1>2, <1>4
<1>6. RequestedMemory(r) = AtMost(Budget[r], AtLeast(MinMemory, share * Workers(r)))
  BY DEF RequestedMemory, share
<1>7. RequestedMemory(r) \in Nat \ {0}
  BY <1>1, <1>5, <1>6 DEF AtMost, AtLeast
<1> QED
  BY <1>1, <1>7 DEF LeaseMemory, AtMost

-----------------------------------------------------------------------------
(* Units held by a set H of runs, f[r] of them by run r. *)
Units(f, H) == UNION {{r} \X (1..f[r]) : r \in H}

WorkersOf == [r \in Runs |-> Workers(r)]
MemoryOf == [r \in Runs |-> LeaseMemory(r)]

LEMMA TakenAreUnits ==
    /\ WorkersTaken = Units(WorkersOf, Held)
    /\ MemoryTaken = Units(MemoryOf, Held)
    /\ WorkersTaken' = Units(WorkersOf, Held')
    /\ MemoryTaken' = Units(MemoryOf, Held')
<1>1. \A r \in Runs : WorkersOf[r] = Workers(r) /\ MemoryOf[r] = LeaseMemory(r)
  BY DEF WorkersOf, MemoryOf
<1>2. Held \subseteq Runs /\ Held' \subseteq Runs
  BY DEF Held
<1> QED
  BY <1>1, <1>2 DEF WorkersTaken, MemoryTaken, Units

LEMMA WeightsAreNaturals ==
    WorkersOf \in [Runs -> Nat] /\ MemoryOf \in [Runs -> Nat]
  BY WorkersBound, LeaseMemoryBound, SchedulerAssumption DEF WorkersOf, MemoryOf

(* The units of one run. *)
LEMMA OneRun ==
  ASSUME NEW r, NEW n \in Nat
  PROVE  IsFiniteSet({r} \X (1..n)) /\ Cardinality({r} \X (1..n)) = n
<1>1. IsFiniteSet(1..n) /\ Cardinality(1..n) = n
  BY FS_Interval, 1 \in Int, n \in Int
<1>2. IsFiniteSet({r}) /\ Cardinality({r}) = 1
  BY FS_Singleton
<1>3. /\ IsFiniteSet({r} \X (1..n))
      /\ Cardinality({r} \X (1..n)) = Cardinality({r}) * Cardinality(1..n)
  BY <1>1, <1>2, FS_Product
<1> QED
  BY <1>1, <1>2, <1>3

(* A run that enters adds exactly its own units. *)
LEMMA AddUnits ==
  ASSUME NEW f \in [Runs -> Nat], NEW H \in SUBSET Runs, NEW r \in Runs,
         r \notin H, IsFiniteSet(Units(f, H))
  PROVE  /\ IsFiniteSet(Units(f, H \cup {r}))
         /\ Cardinality(Units(f, H \cup {r})) = Cardinality(Units(f, H)) + f[r]
<1> DEFINE own == {r} \X (1..f[r])
<1>1. Units(f, H \cup {r}) = Units(f, H) \cup own
  BY DEF Units
<1>2. Units(f, H) \cap own = {}
  BY DEF Units
<1>3. f[r] \in Nat
  OBVIOUS
<1>4. IsFiniteSet(own) /\ Cardinality(own) = f[r]
  BY <1>3, OneRun
<1> HIDE DEF own
<1>5. /\ IsFiniteSet(Units(f, H) \cup own)
      /\ Cardinality(Units(f, H) \cup own) =
            Cardinality(Units(f, H)) + Cardinality(own) - Cardinality(Units(f, H) \cap own)
  BY <1>4, FS_Union
<1>6. Cardinality(Units(f, H) \cap own) = 0
  BY <1>2, FS_EmptySet
<1>7. Cardinality(Units(f, H)) \in Nat
  BY FS_CardinalityType
<1>8. Cardinality(Units(f, H) \cup own) = Cardinality(Units(f, H)) + f[r]
  BY <1>3, <1>4, <1>5, <1>6, <1>7
<1> QED
  BY <1>1, <1>5, <1>8

-----------------------------------------------------------------------------
(* The inductive invariant: types, the accounting with the finiteness it     *)
(* needs, the slots of each lease, and that no run was refused.              *)
NoneRejected == \A r \in Runs : pc[r] # "rejected"

IInv ==
    /\ TypeOK
    /\ IsFiniteSet(WorkersTaken) /\ IsFiniteSet(MemoryTaken)
    /\ ExactAccounting
    /\ SlotsBounded
    /\ NoneRejected

LEMMA InitIInv == Init => IInv
<1> SUFFICES ASSUME Init PROVE IInv
  OBVIOUS
<1>1. TypeOK
  BY SchedulerAssumption DEF Init, TypeOK, Stages
<1>2. WorkersTaken = {} /\ MemoryTaken = {}
  BY DEF Init, WorkersTaken, MemoryTaken, Held
<1>3. IsFiniteSet({}) /\ Cardinality({}) = 0
  BY FS_EmptySet
<1>4. ExactAccounting
  BY <1>2, <1>3, SchedulerAssumption DEF Init, ExactAccounting
<1>5. SlotsBounded
  BY WorkersBound, SchedulerAssumption DEF Init, SlotsBounded, InFlight
<1>6. NoneRejected
  BY DEF Init, NoneRejected
<1> QED
  BY <1>1, <1>2, <1>3, <1>4, <1>5, <1>6 DEF IInv

(* Steps that take and return nothing keep the accounting. *)
LEMMA AccountingUnchanged ==
  ASSUME IInv, Held' = Held,
         UNCHANGED <<available_workers, available_memory>>
  PROVE  /\ IsFiniteSet(WorkersTaken)' /\ IsFiniteSet(MemoryTaken)'
         /\ ExactAccounting'
<1>1. WorkersTaken' = WorkersTaken /\ MemoryTaken' = MemoryTaken
  BY TakenAreUnits
<1> QED
  BY <1>1 DEF IInv, ExactAccounting

LEMMA NextIInv == IInv /\ [Next]_vars => IInv'
<1> SUFFICES ASSUME IInv, [Next]_vars PROVE IInv'
  OBVIOUS
<1> USE SchedulerAssumption
<1>0. /\ \A r \in Runs : Workers(r) \in 1..MaxWorkers
      /\ \A r \in Runs : LeaseMemory(r) \in 1..MaxMemory
  BY WorkersBound, LeaseMemoryBound
<1>1. ASSUME NEW r \in Runs, Acquire(r) PROVE IInv'
  <2>1. ~(Workers(r) > MaxWorkers)
    BY <1>0
  <2>2. pc' = [pc EXCEPT ![r] = "waiting"] /\ pc[r] = "new"
    BY <1>1, <2>1 DEF Acquire
  <2>3. Held' = Held
    BY <2>2 DEF Held, IInv, TypeOK
  <2>4. TypeOK'
    BY <1>1, <2>2 DEF Acquire, IInv, TypeOK, Stages
  <2>5. SlotsBounded' /\ NoneRejected'
    BY <1>1, <2>2 DEF Acquire, IInv, TypeOK, SlotsBounded, InFlight, NoneRejected
  <2> QED
    BY <1>1, <2>3, <2>4, <2>5, AccountingUnchanged DEF Acquire, IInv
<1>2. ASSUME NEW r \in Runs, Cancel(r) PROVE IInv'
  <2>1. Held' = Held
    BY <1>2 DEF Cancel, Held
  <2>2. TypeOK' /\ SlotsBounded' /\ NoneRejected'
    BY <1>2 DEF Cancel, IInv, TypeOK, SlotsBounded, InFlight, NoneRejected
  <2> QED
    BY <1>2, <2>1, <2>2, AccountingUnchanged DEF Cancel, IInv
<1>3. ASSUME NEW r \in Runs, Reserve(r) PROVE IInv'
  <2>1. r \notin Held /\ Held' = Held \cup {r}
    BY <1>3 DEF Reserve, Held, IInv, TypeOK
  <2>2. TypeOK'
    BY <1>0, <1>3 DEF Reserve, Fits, IInv, TypeOK, Stages
  <2>3. /\ IsFiniteSet(WorkersTaken)'
        /\ Cardinality(WorkersTaken)' = Cardinality(WorkersTaken) + Workers(r)
    BY <2>1, AddUnits, TakenAreUnits, WeightsAreNaturals DEF Held, IInv, WorkersOf
  <2>4. /\ IsFiniteSet(MemoryTaken)'
        /\ Cardinality(MemoryTaken)' = Cardinality(MemoryTaken) + LeaseMemory(r)
    BY <2>1, AddUnits, TakenAreUnits, WeightsAreNaturals DEF Held, IInv, MemoryOf
  <2>5. Cardinality(WorkersTaken) \in Nat /\ Cardinality(MemoryTaken) \in Nat
    BY FS_CardinalityType DEF IInv
  <2>6. ExactAccounting'
    BY <1>0, <1>3, <2>3, <2>4, <2>5 DEF Reserve, IInv, TypeOK, ExactAccounting
  <2>7. SlotsBounded' /\ NoneRejected'
    BY <1>3 DEF Reserve, IInv, TypeOK, SlotsBounded, InFlight, NoneRejected
  <2> QED
    BY <2>2, <2>3, <2>4, <2>6, <2>7 DEF IInv
<1>4. ASSUME NEW r \in Runs, GiveUp(r) PROVE IInv'
  <2>1. Held' = Held
    BY <1>4 DEF GiveUp, Held, IInv, TypeOK
  <2>2. TypeOK' /\ SlotsBounded' /\ NoneRejected'
    BY <1>4 DEF GiveUp, IInv, TypeOK, Stages, SlotsBounded, InFlight, NoneRejected
  <2> QED
    BY <1>4, <2>1, <2>2, AccountingUnchanged DEF GiveUp, IInv
<1>5. ASSUME NEW r \in Runs, Release(r) PROVE IInv'
  <2>1. r \notin Held' /\ Held = Held' \cup {r} /\ Held' \in SUBSET Runs
    BY <1>5 DEF Release, Held, IInv, TypeOK
  <2>2. /\ Units(WorkersOf, Held') \subseteq Units(WorkersOf, Held)
        /\ Units(MemoryOf, Held') \subseteq Units(MemoryOf, Held)
    BY <2>1 DEF Units
  <2>3. IsFiniteSet(WorkersTaken)' /\ IsFiniteSet(MemoryTaken)'
    BY <2>2, FS_Subset, TakenAreUnits DEF IInv
  <2>4. Cardinality(WorkersTaken) = Cardinality(WorkersTaken)' + Workers(r)
    BY <2>1, <2>3, AddUnits, TakenAreUnits, WeightsAreNaturals DEF WorkersOf
  <2>5. Cardinality(MemoryTaken) = Cardinality(MemoryTaken)' + LeaseMemory(r)
    BY <2>1, <2>3, AddUnits, TakenAreUnits, WeightsAreNaturals DEF MemoryOf
  <2>6. Cardinality(WorkersTaken)' \in Nat /\ Cardinality(MemoryTaken)' \in Nat
    BY <2>3, FS_CardinalityType
  <2>7. /\ available_workers' = available_workers + Workers(r)
        /\ available_memory' = available_memory + LeaseMemory(r)
    BY <1>0, <1>5, <2>4, <2>5, <2>6
    DEF Release, IInv, TypeOK, ExactAccounting, AtMost
  <2>8. ExactAccounting'
    BY <1>0, <2>4, <2>5, <2>6, <2>7 DEF IInv, TypeOK, ExactAccounting
  <2>9. TypeOK'
    BY <1>0, <1>5, <2>4, <2>5, <2>6, <2>7
    DEF Release, IInv, TypeOK, Stages, ExactAccounting
  <2>10. SlotsBounded' /\ NoneRejected'
    BY <1>5 DEF Release, IInv, TypeOK, SlotsBounded, InFlight, NoneRejected
  <2> QED
    BY <2>3, <2>8, <2>9, <2>10 DEF IInv
<1>6. ASSUME NEW r \in Runs, Submit(r) PROVE IInv'
  <2>1. Held' = Held
    BY <1>6 DEF Submit, Held
  <2>2. TypeOK' /\ NoneRejected'
    BY <1>6 DEF Submit, IInv, TypeOK, NoneRejected
  <2>3. SlotsBounded'
    BY <1>0, <1>6 DEF Submit, IInv, TypeOK, SlotsBounded, InFlight
  <2> QED
    BY <1>6, <2>1, <2>2, <2>3, AccountingUnchanged DEF Submit, IInv
<1>7. ASSUME NEW r \in Runs, Execute(r) PROVE IInv'
  <2>1. Held' = Held
    BY <1>7 DEF Execute, Held
  <2>2. TypeOK' /\ NoneRejected'
    BY <1>7 DEF Execute, IInv, TypeOK, NoneRejected
  <2>3. SlotsBounded'
    BY <1>0, <1>7 DEF Execute, IInv, TypeOK, SlotsBounded, InFlight
  <2> QED
    BY <1>7, <2>1, <2>2, <2>3, AccountingUnchanged DEF Execute, IInv
<1>8. ASSUME NEW r \in Runs, Complete(r) PROVE IInv'
  <2>1. Held' = Held
    BY <1>8 DEF Complete, Held
  <2>2. TypeOK' /\ NoneRejected'
    BY <1>8 DEF Complete, IInv, TypeOK, NoneRejected
  <2>3. SlotsBounded'
    BY <1>0, <1>8 DEF Complete, IInv, TypeOK, SlotsBounded, InFlight
  <2> QED
    BY <1>8, <2>1, <2>2, <2>3, AccountingUnchanged DEF Complete, IInv
<1>9. CASE UNCHANGED vars
  <2>1. Held' = Held
    BY <1>9 DEF vars, Held
  <2>2. TypeOK' /\ SlotsBounded' /\ NoneRejected'
    BY <1>9 DEF vars, IInv, TypeOK, SlotsBounded, InFlight, NoneRejected
  <2> QED
    BY <1>9, <2>1, <2>2, AccountingUnchanged DEF vars, IInv
<1> QED
  BY <1>1, <1>2, <1>3, <1>4, <1>5, <1>6, <1>7, <1>8, <1>9 DEF Next

(* The scheduler's state is well formed at every moment; in particular       *)
(* neither budget is ever overdrawn.                                         *)
THEOREM TypeCorrect == Spec => []TypeOK
<1>1. IInv => TypeOK
  BY DEF IInv
<1> QED
  BY <1>1, InitIInv, NextIInv, PTL DEF Spec

(* Simultaneous runs never exceed either budget, and no unit is lost or      *)
(* returned twice, for any set of runs on any machine.                       *)
THEOREM Accounting == Spec => []ExactAccounting
<1>1. IInv => ExactAccounting
  BY DEF IInv
<1> QED
  BY <1>1, InitIInv, NextIInv, PTL DEF Spec

(* No policy resolves to a run the scheduler refuses, and an idle scheduler  *)
(* has room for any run alone.                                               *)
THEOREM Runnable == Spec => []EveryRunIsRunnable
<1>1. IInv => EveryRunIsRunnable
  <2> SUFFICES ASSUME IInv, NEW r \in Runs, Held = {} PROVE Fits(r)
    BY DEF IInv, NoneRejected, EveryRunIsRunnable
  <2>1. WorkersTaken = {} /\ MemoryTaken = {}
    BY DEF WorkersTaken, MemoryTaken
  <2>2. available_workers = MaxWorkers /\ available_memory = MaxMemory
    BY <2>1, FS_EmptySet DEF IInv, TypeOK, ExactAccounting
  <2> QED
    BY <2>2, WorkersBound, LeaseMemoryBound, SchedulerAssumption DEF Fits
<1> QED
  BY <1>1, InitIInv, NextIInv, PTL DEF Spec

(* While all futures belong to leases still held, a queued future finds a    *)
(* free executor thread: those in execution are fewer than the workers       *)
(* reserved, by at least the slot of the queued one.                         *)
THEOREM NeverQueues == Spec => []ReservedWorkNeverQueues
<1>1. IInv => ReservedWorkNeverQueues
  <2> SUFFICES ASSUME IInv,
                      \A r \in Runs : InFlight(r) > 0 => r \in Held,
                      NEW q \in Runs, pending[q] > 0
               PROVE  Cardinality(Executing) < MaxWorkers
    BY DEF ReservedWorkNeverQueues
  <2>1. \A r \in Runs : pending[r] \in Nat /\ running[r] \in Nat /\ Workers(r) \in 1..MaxWorkers
    BY WorkersBound DEF IInv, TypeOK
  <2>2. \A r \in Runs : running[r] > 0 => r \in Held /\ running[r] <= Workers(r)
    BY <2>1 DEF IInv, SlotsBounded, InFlight
  <2>3. q \in Held /\ running[q] < Workers(q)
    BY <2>1 DEF IInv, SlotsBounded, InFlight
  <2>4. Executing \subseteq WorkersTaken
    <3> SUFFICES ASSUME NEW r \in Runs, NEW i \in 1..running[r]
                 PROVE  <<r, i>> \in WorkersTaken
      BY DEF Executing
    <3>1. r \in Held /\ i \in 1..Workers(r)
      BY <2>1, <2>2, SchedulerAssumption
    <3> QED
      BY <3>1 DEF WorkersTaken
  <2>5. <<q, Workers(q)>> \in WorkersTaken
    <3>1. Workers(q) \in 1..Workers(q)
      BY <2>1, SchedulerAssumption
    <3> QED
      BY <2>3, <3>1 DEF WorkersTaken
  <2>6. <<q, Workers(q)>> \notin Executing
    BY <2>1, <2>3, SchedulerAssumption DEF Executing
  <2>7. Executing # WorkersTaken
    BY <2>5, <2>6
  <2>8. /\ IsFiniteSet(Executing)
        /\ Cardinality(Executing) <= Cardinality(WorkersTaken)
        /\ Cardinality(Executing) # Cardinality(WorkersTaken)
    BY <2>4, <2>7, FS_Subset DEF IInv
  <2>9. Cardinality(Executing) \in Nat /\ Cardinality(WorkersTaken) \in Nat
    BY <2>8, FS_CardinalityType DEF IInv
  <2> QED
    BY <2>8, <2>9, SchedulerAssumption DEF IInv, TypeOK, ExactAccounting
<1> QED
  BY <1>1, InitIInv, NextIInv, PTL DEF Spec
=============================================================================
