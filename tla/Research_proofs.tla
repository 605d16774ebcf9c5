---------------------------- MODULE Research_proofs ----------------------------
(***************************************************************************)
(* Theorems about the research of one session.  Each part has an inductive *)
(* invariant of its own, because a step of one part leaves the variables   *)
(* of the others alone:                                                    *)
(*   the desk:     every copy of the session's document on its way holds   *)
(*                 settings a search accepts, with the protected ones of   *)
(*                 the start, and every exchange of every thread on its    *)
(*                 way counts at least the scores it showed;               *)
(*   the evidence: every summary, kept or just taken, is the summary of    *)
(*                 its pair under the context it is filed under, or is     *)
(*                 known to be damaged;                                    *)
(*   the splits:   the parts a budget allows are an embargo apart, and a   *)
(*                 round that is judged has labels no longer than that;    *)
(*   the tuner:    the samples a calibration has taken and those it lacks  *)
(*                 are together what all that were due cost, and timings   *)
(*                 kept for the next segment stand at their knee.          *)
(***************************************************************************)
EXTENDS Research, FiniteSetTheorems, WellFoundedInduction, TLAPS

(* A finite sequence, whatever its elements are.                             *)
IsList(s) == s \in Seq(Range(s))

Tools == {"unknown", "compile", "look", "evaluate", "factor", "patch", "annotate"}
Call == [tool : Tools, ok : BOOLEAN]
Shown == [tool |-> "evaluate", ok |-> TRUE]

TurnFields ==
    {"step", "config", "asked", "calls", "scores", "tokens", "late", "visits", "trials",
     "log", "staged", "shown", "stopped", "finalizing", "reason"}
TurnSteps == {"idle", "queued", "model", "tools", "closing", "done", "failed"}

(* An exchange: what it may spend, and that each score it showed the model,  *)
(* and each proposal it staged, has a call of its own in the log.            *)
TurnOK(t) ==
    /\ DOMAIN t = TurnFields
    /\ t.step \in TurnSteps
    /\ t.calls \in 0 .. MaxToolCalls /\ t.scores \in 0 .. MaxScores
    /\ t.visits \in 0 .. RecursionLimit
    /\ t.trials \in Nat /\ t.shown \in Nat
    /\ t.log \in Seq(Call) /\ IsList(t.staged)
    /\ t.shown <= t.trials /\ t.trials <= t.scores /\ t.scores <= t.calls
    /\ t.shown <= Counted(t.log)
    /\ Len(t.staged) + t.shown <= Len(t.log)

ExchangeOK(x) ==
    /\ DOMAIN x = {"log", "proposals", "shown", "reason"}
    /\ x.log \in Seq(Call) /\ IsList(x.proposals)
    /\ x.shown \in Nat /\ x.shown <= Counted(x.log)

ThreadOK(thread) == IsList(thread) /\ \A i \in DOMAIN thread : ExchangeOK(thread[i])

ConfigOK(c) ==
    /\ DOMAIN c = Settings /\ LegalConfig(c) /\ EmbargoCovers(c)
    /\ c.execution = StartConfig.execution

Listed == 0 .. MaxListed - 1

DocumentOK(s) ==
    /\ DOMAIN s = {"config", "trials", "rounds"}
    /\ ConfigOK(s.config)
    /\ s.trials \in Nat /\ s.rounds \in Seq(Listed)

ErrandFields == {"step", "kind", "id", "thread", "parent", "index", "doc"}
ErrandSteps == {"idle", "planned", "validating", "written", "saved", "found", "done"}

ErrandOK(e) ==
    /\ DOMAIN e = ErrandFields
    /\ e.step \in ErrandSteps
    /\ ThreadOK(e.thread)
    /\ e.step = "validating" => Open(e.thread, e.id, "factor")
    /\ e.step = "written" => DocumentOK(e.doc)

RoundOK(r) ==
    /\ DOMAIN r = {"origin", "trials", "cost", "parent"}
    /\ r.trials \in Nat /\ r.cost \in Nat
    /\ r.origin = "agent" => r.trials >= r.cost

SegmentOK(g) ==
    /\ DOMAIN g = {"step", "config", "copy", "index"}
    /\ g.step \in {"idle", "asked", "claimed", "queued", "training", "written"}
    /\ g.step = "asked" => ConfigOK(g.config)
    /\ g.step \in {"claimed", "training", "written"} => DocumentOK(g.copy)
    /\ g.step = "written" => g.index \in Listed

Talking(t) == t.step \in {"queued", "model", "tools", "closing"}

DeskInv ==
    /\ DOMAIN turn = Desks /\ DOMAIN errand = Desks
    /\ \A d \in Desks : TurnOK(turn[d]) /\ ErrandOK(errand[d])
    /\ \A d \in Desks : Talking(turn[d]) => errand[d].step = "idle"
    /\ ThreadOK(conversation)
    /\ DocumentOK(session)
    /\ SegmentOK(segment)
    /\ DOMAIN round_files = Listed /\ \A i \in Listed : RoundOK(round_files[i])
    /\ searched \in Nat

-----------------------------------------------------------------------------
(* Numbers and sequences.                                                    *)

(* A set of numbers that is not empty has a least element.                   *)
LEMMA LeastExists ==
    ASSUME NEW S \in SUBSET Nat, S # {}
    PROVE  \E x \in S : \A y \in S : x <= y
<1> DEFINE R == OpToRel(<, Nat)
<1>1. IsWellFoundedOn(R, Nat)
  BY NatLessThanWellFounded
<1>2. \A i, j \in Nat : i < j => <<i, j>> \in R
  BY DEF OpToRel
<1> HIDE DEF R
<1>3. PICK x \in S : \A y \in S : <<y, x>> \notin R
  BY <1>1, WFMin
<1>4. ASSUME NEW y \in S PROVE x <= y
  <2>1. x \in Nat /\ y \in Nat /\ ~(y < x)
    BY <1>2, <1>3
  <2> QED BY <2>1
<1> QED BY <1>4

LEMMA MinIsLeast ==
    ASSUME NEW S \in SUBSET Nat, S # {}
    PROVE  Min(S) \in S /\ \A y \in S : Min(S) <= y
  BY LeastExists DEF Min

LEMMA MaxIsGreatest ==
    ASSUME NEW S \in SUBSET Nat, NEW n \in Nat, S # {}, \A x \in S : x <= n
    PROVE  Max(S) \in S /\ \A y \in S : y <= Max(S)
<1> DEFINE T == {n - x : x \in S}
<1>0. \A x \in S : n - x \in Nat
  OBVIOUS
<1>1. T \in SUBSET Nat /\ T # {}
  BY <1>0
<1>2. PICK t \in T : \A u \in T : t <= u
  BY <1>1, LeastExists
<1>3. PICK x \in S : t = n - x
  OBVIOUS
<1>4. ASSUME NEW y \in S PROVE x >= y
  <2>1. n - x <= n - y
    BY <1>2, <1>3
  <2> QED BY <2>1
<1>5. \E g \in S : \A y \in S : g >= y
  BY <1>4
<1>6. Max(S) \in S /\ \A y \in S : Max(S) >= y
  BY <1>5 DEF Max
<1> QED BY <1>6

(* What holds of the first, and of each next one, holds up to n.             *)
LEMMA UpToN ==
    ASSUME NEW n \in Nat, NEW S, 0 \in S,
           \A k \in 1 .. n : k - 1 \in S => k \in S
    PROVE  0 .. n \subseteq S
<1> SUFFICES ASSUME NEW m \in 0 .. n, m \notin S PROVE FALSE
  OBVIOUS
<1> DEFINE T == {k \in 0 .. n : k \notin S}
<1>1. T \in SUBSET Nat /\ T # {}
  OBVIOUS
<1>2. PICK x \in T : \A y \in T : x <= y
  BY <1>1, LeastExists
<1>3. x # 0 /\ x \in 1 .. n /\ x - 1 \in 0 .. n
  OBVIOUS
<1>4. x - 1 \in S
  BY <1>2, <1>3
<1> QED BY <1>3, <1>4

LEMMA Appended ==
    ASSUME NEW s, IsList(s), NEW e
    PROVE  /\ IsList(Append(s, e)) /\ Len(Append(s, e)) = Len(s) + 1
           /\ DOMAIN Append(s, e) = 1 .. Len(s) + 1
           /\ Append(s, e)[Len(s) + 1] = e
           /\ \A i \in 1 .. Len(s) : Append(s, e)[i] = s[i]
<1> DEFINE S == Range(s) \cup {e}
           a == Append(s, e)
<1>1. s \in Seq(S) /\ e \in S
  <2>1. s \in Seq(Range(s))
    BY DEF IsList
  <2> QED BY <2>1
<1>2. /\ a \in Seq(S) /\ Len(a) = Len(s) + 1 /\ DOMAIN a = 1 .. Len(s) + 1
      /\ a[Len(s) + 1] = e /\ \A i \in 1 .. Len(s) : a[i] = s[i]
  BY <1>1
<1>3. a \in Seq(Range(a))
  BY <1>2 DEF Range
<1> QED BY <1>2, <1>3 DEF IsList

LEMMA EmptyList == IsList(<<>>) /\ ThreadOK(<<>>)
  BY DEF IsList, ThreadOK, Range

(* One call more is one trial more if it is a score that was shown.          *)
LEMMA CountedFacts ==
    ASSUME NEW log \in Seq(Call)
    PROVE  /\ Counted(log) \in Nat
           /\ \A c \in Call :
                Counted(Append(log, c)) = Counted(log) + (IF c = Shown THEN 1 ELSE 0)
<1> DEFINE At(l) == {i \in 1 .. Len(l) : l[i] = Shown}
<1>1. \A l : Counted(l) = Cardinality(At(l))
  BY DEF Counted, Shown
<1>2. IsFiniteSet(At(log)) /\ Cardinality(At(log)) \in Nat
  <2>1. IsFiniteSet(1 .. Len(log))
    BY FS_Interval
  <2>2. At(log) \subseteq 1 .. Len(log)
    OBVIOUS
  <2> QED BY <2>1, <2>2, FS_Subset, FS_CardinalityType
<1>3. ASSUME NEW c \in Call
      PROVE  Counted(Append(log, c)) = Counted(log) + (IF c = Shown THEN 1 ELSE 0)
  <2> DEFINE more == Append(log, c)
  <2>1. /\ Len(more) = Len(log) + 1 /\ more[Len(log) + 1] = c
        /\ \A i \in 1 .. Len(log) : more[i] = log[i]
    OBVIOUS
  <2> HIDE DEF more
  <2>2. CASE c = Shown
    <3>1. At(more) = At(log) \cup {Len(log) + 1}
      BY <2>1, <2>2
    <3>2. Len(log) + 1 \notin At(log)
      OBVIOUS
    <3> HIDE DEF At
    <3>3. Cardinality(At(more)) = Cardinality(At(log)) + 1
      BY <1>2, <3>1, <3>2, FS_AddElement
    <3> QED BY <1>1, <2>2, <3>3 DEF more
  <2>3. CASE c # Shown
    <3>1. At(more) = At(log)
      BY <2>1, <2>3
    <3> HIDE DEF At
    <3> QED BY <1>1, <1>2, <2>3, <3>1 DEF more
  <2> QED BY <2>2, <2>3
<1> QED BY <1>1, <1>2, <1>3

(* The trials of a conversation are a number, and no less than those of any  *)
(* of its exchanges.  The running sum exists for every length of a thread.   *)
LEMMA TotalTrialsFacts ==
    ASSUME NEW thread, ThreadOK(thread)
    PROVE  /\ TotalTrials(thread) \in Nat
           /\ \A i \in DOMAIN thread : Counted(thread[i].log) <= TotalTrials(thread)
<1> DEFINE n == Len(thread)
           v == [i \in 1 .. n |-> Counted(thread[i].log)]
           Sums(f, m) == f = [k \in 0 .. m |-> IF k = 0 THEN 0 ELSE f[k - 1] + v[k]]
           Can == {m \in 0 .. n : \E f : Sums(f, m)}
<1>1. n \in Nat /\ DOMAIN thread = 1 .. n
  BY DEF ThreadOK, IsList
<1>2. v \in [1 .. n -> Nat] /\ \A i \in 1 .. n : v[i] = Counted(thread[i].log)
  <2>1. \A i \in 1 .. n : Counted(thread[i].log) \in Nat
    BY <1>1, CountedFacts DEF ThreadOK, ExchangeOK
  <2> QED BY <2>1
<1> HIDE DEF n, v
<1>3. 0 \in Can
  <2>0. 0 .. 0 = {0}
    OBVIOUS
  <2>1. Sums([k \in {0} |-> 0], 0)
    BY <2>0
  <2>2. \E f : Sums(f, 0)
    BY <2>1
  <2> HIDE DEF Sums
  <2> QED BY <1>1, <2>2
<1>4. ASSUME NEW m \in 1 .. n, m - 1 \in Can PROVE m \in Can
  <2>1. PICK f : Sums(f, m - 1)
    BY <1>4
  <2> DEFINE g == [k \in 0 .. m |-> IF k = m THEN f[m - 1] + v[m] ELSE f[k]]
  <2>0. m \in Nat /\ m # 0 /\ m - 1 \in 0 .. m /\ m \in 0 .. m /\ m - 1 # m
    BY <1>1
  <2>2. ASSUME NEW k \in 0 .. m PROVE g[k] = IF k = 0 THEN 0 ELSE g[k - 1] + v[k]
    <3>1. CASE k = m
      BY <2>0, <3>1
    <3>2. CASE k # m
      <4>1. k \in 0 .. m - 1 /\ g[k] = f[k]
        BY <2>0, <3>2
      <4>2. k # 0 => g[k - 1] = f[k - 1]
        BY <2>0, <3>2
      <4>3. f[k] = IF k = 0 THEN 0 ELSE f[k - 1] + v[k]
        BY <2>1, <4>1
      <4> QED BY <4>1, <4>2, <4>3
    <3> QED BY <3>1, <3>2
  <2>3. DOMAIN g = 0 .. m /\ g = [k \in 0 .. m |-> g[k]]
    OBVIOUS
  <2> HIDE DEF g
  <2>4. Sums(g, m)
    BY <2>2, <2>3
  <2> QED BY <1>1, <2>4
<1>5. n \in Can
  <2> HIDE DEF Can
  <2>1. 0 .. n \subseteq Can
    BY <1>1, <1>3, <1>4, UpToN
  <2> QED BY <1>1, <2>1
<1> DEFINE sum == CHOOSE f : f = [k \in 0 .. Len(thread) |->
                        IF k = 0 THEN 0 ELSE f[k - 1] + Counted(thread[k].log)]
<1>6. /\ TotalTrials(thread) = sum[n]
      /\ sum = [k \in 0 .. n |-> IF k = 0 THEN 0 ELSE sum[k - 1] + v[k]]
  <2>1. \E f : f = [k \in 0 .. Len(thread) |->
                        IF k = 0 THEN 0 ELSE f[k - 1] + Counted(thread[k].log)]
    <3>1. PICK f : Sums(f, n)
      BY <1>5
    <3>2. f = [k \in 0 .. n |-> IF k = 0 THEN 0 ELSE f[k - 1] + Counted(thread[k].log)]
      BY <1>1, <1>2, <3>1
    <3> QED BY <3>2 DEF n
  <2>2. sum = [k \in 0 .. Len(thread) |->
                        IF k = 0 THEN 0 ELSE sum[k - 1] + Counted(thread[k].log)]
    BY <2>1
  <2>3. TotalTrials(thread) = sum[n]
    BY DEF TotalTrials, n
  <2> HIDE DEF sum
  <2> QED BY <1>1, <1>2, <2>2, <2>3 DEF n
<1> HIDE DEF sum
<1> DEFINE Fine == {m \in 0 .. n : /\ sum[m] \in Nat
                                   /\ \A i \in 1 .. m : v[i] <= sum[m]}
<1>7. 0 \in Fine
  BY <1>1, <1>6
<1>8. ASSUME NEW m \in 1 .. n, m - 1 \in Fine PROVE m \in Fine
  <2>1. m \in 0 .. n /\ sum[m] = sum[m - 1] + v[m]
    BY <1>1, <1>6
  <2>2. sum[m - 1] \in Nat /\ v[m] \in Nat /\ \A i \in 1 .. m - 1 : v[i] <= sum[m - 1]
    BY <1>2, <1>8
  <2>3. sum[m] \in Nat /\ v[m] <= sum[m] /\ sum[m - 1] <= sum[m]
    BY <2>1, <2>2
  <2>4. ASSUME NEW i \in 1 .. m PROVE v[i] <= sum[m]
    <3>1. CASE i = m
      BY <2>3, <3>1
    <3>2. CASE i # m
      <4>1. i \in 1 .. m - 1 /\ i \in 1 .. n
        BY <1>1, <3>2
      <4>2. v[i] \in Nat /\ v[i] <= sum[m - 1]
        BY <1>2, <2>2, <4>1
      <4> QED BY <2>2, <2>3, <4>2
    <3> QED BY <3>1, <3>2
  <2> QED BY <2>1, <2>3, <2>4
<1>9. n \in Fine
  <2> HIDE DEF Fine
  <2>1. 0 .. n \subseteq Fine
    BY <1>1, <1>7, <1>8, UpToN
  <2> QED BY <1>1, <2>1
<1> QED BY <1>1, <1>2, <1>6, <1>9
-----------------------------------------------------------------------------
(* The exchange.                                                             *)

LEMMA LimitIsNumber == RecursionLimit \in Nat /\ MaxToolCalls \in Nat /\ MaxScores \in Nat
  BY TurnAssumption DEF RecursionLimit

LEMMA RestingOK == TurnOK(Resting)
<1>0. <<>> \in Seq(Call) /\ Len(<<>>) = 0
  OBVIOUS
<1>1. Counted(<<>>) \in Nat
  BY <1>0, CountedFacts
<1>2. /\ DOMAIN Resting = TurnFields
      /\ \A f \in {"calls", "scores", "visits", "trials", "shown"} : Resting[f] = 0
      /\ Resting.step = "idle" /\ Resting.log = <<>> /\ Resting.staged = <<>>
  BY DEF Resting, TurnFields
<1> QED BY <1>0, <1>1, <1>2, EmptyList, LimitIsNumber DEF TurnOK, TurnSteps

LEMMA EnteringOK ==
    ASSUME NEW t, TurnOK(t), NEW node \in {"model", "tools"}
    PROVE  TurnOK(Entering(t, node))
<1>1. CASE t.visits < RecursionLimit
  <2> DEFINE u == [t EXCEPT !.step = node, !.visits = @ + 1]
  <2>1. /\ DOMAIN u = TurnFields /\ u.step = node /\ u.visits = t.visits + 1
        /\ \A f \in TurnFields \ {"step", "visits"} : u[f] = t[f]
    BY DEF TurnOK, TurnFields
  <2>2. Entering(t, node) = u
    BY <1>1 DEF Entering
  <2>3. u.visits \in 0 .. RecursionLimit
    BY <1>1, <2>1, LimitIsNumber DEF TurnOK
  <2> HIDE DEF u
  <2> QED BY <2>1, <2>2, <2>3 DEF TurnOK, TurnFields, TurnSteps
<1>2. CASE ~(t.visits < RecursionLimit)
  <2> DEFINE u == [t EXCEPT !.step = "closing", !.reason = "loop_limit"]
  <2>1. /\ DOMAIN u = TurnFields /\ u.step = "closing"
        /\ \A f \in TurnFields \ {"step", "reason"} : u[f] = t[f]
    BY DEF TurnOK, TurnFields
  <2>2. Entering(t, node) = u
    BY <1>2 DEF Entering
  <2> HIDE DEF u
  <2> QED BY <2>1, <2>2 DEF TurnOK, TurnFields, TurnSteps
<1> QED BY <1>1, <1>2

(* What is neither counted nor recorded may be anything.                     *)
Loose == {"config", "asked", "tokens", "late", "stopped", "finalizing", "reason"}

LEMMA LooseOK ==
    ASSUME NEW t, TurnOK(t), NEW u, DOMAIN u = TurnFields, u.step \in TurnSteps,
           \A f \in TurnFields \ (Loose \cup {"step"}) : u[f] = t[f]
    PROVE  TurnOK(u)
  BY DEF TurnOK, TurnFields, Loose

(* A call more in the log, and at most one score shown or proposal staged.   *)
LEMMA AnswerOK ==
    ASSUME NEW t, TurnOK(t), t.calls < MaxToolCalls,
           NEW u, DOMAIN u = TurnFields,
           \A f \in {"step", "calls", "visits", "log"} : u[f] = t[f],
           u.scores \in 0 .. MaxScores, u.scores <= t.scores + 1,
           u.trials \in Nat, u.shown \in Nat, u.shown <= u.trials, u.trials <= u.scores,
           NEW tool \in Tools, NEW ok \in BOOLEAN, NEW rest,
           u.shown <= t.shown + (IF [tool |-> tool, ok |-> ok] = Shown THEN 1 ELSE 0),
           IsList(u.staged), Len(u.staged) + u.shown <= Len(t.staged) + t.shown + 1
    PROVE  TurnOK([u EXCEPT !.asked = rest, !.calls = @ + 1,
                            !.log = Append(@, [tool |-> tool, ok |-> ok])])
<1> DEFINE c == [tool |-> tool, ok |-> ok]
           r == [u EXCEPT !.asked = rest, !.calls = @ + 1, !.log = Append(@, c)]
<1>1. /\ DOMAIN r = TurnFields /\ r.calls = t.calls + 1 /\ r.log = Append(t.log, c)
      /\ \A f \in TurnFields \ {"asked", "calls", "log"} : r[f] = u[f]
  BY DEF TurnFields
<1>2. c \in Call /\ t.log \in Seq(Call)
  BY DEF Call, Tools, TurnOK
<1> HIDE DEF c, r
<1>3. /\ r.log \in Seq(Call) /\ Len(r.log) = Len(t.log) + 1
      /\ Counted(r.log) = Counted(t.log) + (IF c = Shown THEN 1 ELSE 0)
      /\ Counted(t.log) \in Nat /\ Counted(r.log) \in Nat
  <2>1. r.log \in Seq(Call) /\ Len(r.log) = Len(t.log) + 1
    BY <1>1, <1>2
  <2>2. /\ Counted(t.log) \in Nat /\ Counted(r.log) \in Nat
        /\ Counted(Append(t.log, c)) = Counted(t.log) + (IF c = Shown THEN 1 ELSE 0)
    BY <1>2, <2>1, CountedFacts
  <2> QED BY <1>1, <2>1, <2>2
<1>4. r.shown <= Counted(r.log)
  <2>1. t.shown \in Nat /\ t.shown <= Counted(t.log) /\ u.shown \in Nat
        /\ u.shown <= t.shown + (IF c = Shown THEN 1 ELSE 0) /\ r.shown = u.shown
    BY <1>1 DEF TurnOK, TurnFields, c
  <2> QED BY <1>3, <2>1
<1>5. Len(r.staged) + r.shown <= Len(r.log)
  <2>1. /\ r.shown = u.shown /\ r.staged = u.staged
        /\ IsList(t.staged) /\ t.shown \in Nat
        /\ Len(t.staged) + t.shown <= Len(t.log) /\ Len(t.log) \in Nat
    BY <1>1 DEF TurnOK, TurnFields
  <2>2. Len(t.staged) \in Nat /\ Len(u.staged) \in Nat
    BY <2>1 DEF IsList
  <2>3. Len(u.staged) + u.shown <= Len(t.log) + 1
    BY <2>1, <2>2
  <2> QED BY <1>3, <2>1, <2>3
<1>6. r.calls \in 0 .. MaxToolCalls /\ r.scores <= r.calls
  <2>1. /\ r.calls = t.calls + 1 /\ t.calls \in Nat /\ r.scores = u.scores
        /\ t.scores <= t.calls /\ t.scores \in Nat /\ t.calls < MaxToolCalls
    BY <1>1 DEF TurnOK, TurnFields
  <2> QED BY <2>1, LimitIsNumber
<1>7. /\ r.step \in TurnSteps /\ r.scores \in 0 .. MaxScores
      /\ r.visits \in 0 .. RecursionLimit /\ r.trials \in Nat /\ r.shown \in Nat
      /\ r.shown <= r.trials /\ r.trials <= r.scores /\ IsList(r.staged)
  BY <1>1 DEF TurnOK, TurnFields
<1>8. TurnOK(r)
  BY <1>1, <1>3, <1>4, <1>5, <1>6, <1>7 DEF TurnOK
<1> QED BY <1>8 DEF r, c
(* Step by step, an exchange goes from one sound state to another.           *)
Proceeds(d) == Talking(turn[d]) /\ \E t : TurnOK(t) /\ turn' = [turn EXCEPT ![d] = t]

LEMMA StartTurnOK ==
    ASSUME NEW d \in Desks, TurnOK(turn[d]), StartTurn(d)
    PROVE  Proceeds(d)
<1>1. CASE Becomes(d, Entering(turn[d], "model"))
  BY <1>1, EnteringOK DEF Becomes, Proceeds, StartTurn, Talking
<1>2. CASE Becomes(d, [turn[d] EXCEPT !.step = "failed"])
  <2> DEFINE u == [turn[d] EXCEPT !.step = "failed"]
  <2>1. TurnOK(u)
    BY LooseOK DEF TurnOK, TurnFields, TurnSteps, Loose
  <2> HIDE DEF u
  <2> QED BY <1>2, <2>1 DEF Becomes, Proceeds, StartTurn, Talking, u
<1> QED BY <1>1, <1>2 DEF StartTurn

LEMMA ModelFailsOK ==
    ASSUME NEW d \in Desks, TurnOK(turn[d]), ModelFails(d)
    PROVE  Proceeds(d)
<1> DEFINE u == [turn[d] EXCEPT !.step = "closing", !.reason = "failed"]
<1>1. TurnOK(u)
  BY LooseOK DEF TurnOK, TurnFields, TurnSteps, Loose
<1> HIDE DEF u
<1> QED BY <1>1 DEF Becomes, Proceeds, ModelFails, Talking, u

LEMMA ModelRepliesOK ==
    ASSUME NEW d \in Desks, TurnOK(turn[d]), ModelReplies(d)
    PROVE  Proceeds(d)
<1>1. PICK calls \in Replies \cup {<<>>}, cost \in ReplyTokens :
        LET t == [turn[d] EXCEPT !.tokens = @ + cost, !.asked = calls]
        IN  Becomes(d, IF GoesOn(t, calls) THEN Entering(t, "tools")
                       ELSE [t EXCEPT !.step = "closing"])
  BY DEF ModelReplies
<1> DEFINE t == [turn[d] EXCEPT !.tokens = @ + cost, !.asked = calls]
           u == [t EXCEPT !.step = "closing"]
<1>2. /\ DOMAIN t = TurnFields /\ t.step = turn[d].step
      /\ \A f \in TurnFields \ (Loose \cup {"step"}) : t[f] = turn[d][f]
  BY DEF TurnOK, TurnFields, Loose
<1> HIDE DEF t
<1>3. TurnOK(t)
  BY <1>2, LooseOK DEF TurnOK
<1>4. TurnOK(Entering(t, "tools"))
  BY <1>3, EnteringOK
<1>5. TurnOK(u)
  BY <1>3, LooseOK DEF TurnOK, TurnFields, TurnSteps, Loose
<1> HIDE DEF u
<1>6. CASE GoesOn(t, calls)
  <2>1. turn' = [turn EXCEPT ![d] = Entering(t, "tools")]
    BY <1>1, <1>6 DEF Becomes, t
  <2> QED BY <1>4, <2>1 DEF Proceeds, ModelReplies, Talking
<1>7. CASE ~GoesOn(t, calls)
  <2>1. turn' = [turn EXCEPT ![d] = u]
    BY <1>1, <1>7 DEF Becomes, t, u
  <2> QED BY <1>5, <2>1 DEF Proceeds, ModelReplies, Talking
<1> QED BY <1>6, <1>7

(* An answer recorded on top of what the call itself changed.                *)
LEMMA AnswersOK ==
    ASSUME NEW d \in Desks, TurnOK(turn[d]), turn[d].calls < MaxToolCalls,
           NEW tool \in Tools, Asks(d, tool), NEW ok \in BOOLEAN,
           NEW u, DOMAIN u = TurnFields, Answers(d, u, ok),
           \A f \in {"step", "calls", "visits", "log"} : u[f] = turn[d][f],
           u.scores \in 0 .. MaxScores, u.scores <= turn[d].scores + 1,
           u.trials \in Nat, u.shown \in Nat, u.shown <= u.trials, u.trials <= u.scores,
           u.shown <= turn[d].shown + (IF tool = "evaluate" /\ ok THEN 1 ELSE 0),
           IsList(u.staged), Len(u.staged) + u.shown <= Len(turn[d].staged) + turn[d].shown + 1
    PROVE  Proceeds(d)
<1> DEFINE t == turn[d]
           rest == Tail(u.asked)
           r == [u EXCEPT !.asked = rest, !.calls = @ + 1,
                          !.log = Append(@, [tool |-> tool, ok |-> ok])]
<1>1. turn' = [turn EXCEPT ![d] = r]
  BY DEF Answers, Becomes, Asks
<1>2. u.shown <= t.shown + (IF [tool |-> tool, ok |-> ok] = Shown THEN 1 ELSE 0)
  <2>1. CASE tool = "evaluate" /\ ok = TRUE
    BY <2>1 DEF Shown
  <2>2. CASE ~(tool = "evaluate" /\ ok = TRUE)
    <3>1. u.shown <= t.shown + 0 /\ t.shown \in Nat
      BY <2>2 DEF TurnOK
    <3> QED BY <3>1
  <2> QED BY <2>1, <2>2
<1> HIDE DEF t, rest
<1>3. TurnOK(r)
  BY <1>2, AnswerOK DEF t
<1> HIDE DEF r
<1> QED BY <1>1, <1>3 DEF Proceeds, Asks, Talking

(* A call that changes nothing else.                                         *)
LEMMA PlainAnswer ==
    ASSUME NEW d \in Desks, TurnOK(turn[d]), turn[d].calls < MaxToolCalls,
           NEW tool \in Tools, Asks(d, tool), NEW ok \in BOOLEAN, Answers(d, turn[d], ok)
    PROVE  Proceeds(d)
<1> DEFINE u == turn[d]
<1>1. /\ u.shown \in Nat /\ u.scores \in Nat /\ IsList(u.staged) /\ DOMAIN u = TurnFields
      /\ u.scores \in 0 .. MaxScores /\ u.scores <= u.scores + 1
      /\ u.trials \in Nat /\ u.shown <= u.trials /\ u.trials <= u.scores
      /\ u.shown <= u.shown + (IF tool = "evaluate" /\ ok THEN 1 ELSE 0)
  BY DEF TurnOK
<1>2. Len(u.staged) + u.shown <= Len(u.staged) + u.shown + 1
  BY <1>1 DEF IsList
<1> QED BY <1>1, <1>2, AnswersOK

LEMMA UnknownToolOK ==
    ASSUME NEW d \in Desks, TurnOK(turn[d]), UnknownTool(d)
    PROVE  Proceeds(d)
<1> DEFINE t == turn[d]
           c == [tool |-> "unknown", ok |-> FALSE]
           u == [t EXCEPT !.asked = Tail(@), !.log = Append(@, c)]
<1>1. /\ DOMAIN u = TurnFields /\ u.log = Append(t.log, c)
      /\ \A f \in TurnFields \ {"asked", "log"} : u[f] = t[f]
  BY DEF TurnOK, TurnFields
<1>2. c \in Call /\ c # Shown /\ t.log \in Seq(Call)
  <2>1. c.tool = "unknown" /\ Shown.tool = "evaluate"
    BY DEF Shown
  <2>2. c \in Call /\ t.log \in Seq(Call)
    BY DEF Call, Tools, TurnOK
  <2> QED BY <2>1, <2>2
<1>3. turn' = [turn EXCEPT ![d] = u]
  BY DEF UnknownTool, Becomes
<1> HIDE DEF c, u
<1>4. /\ u.log \in Seq(Call) /\ Len(u.log) = Len(t.log) + 1
      /\ Counted(u.log) = Counted(t.log)
  <2>1. Counted(Append(t.log, c)) = Counted(t.log) + 0 /\ Counted(t.log) \in Nat
    BY <1>2, CountedFacts
  <2> QED BY <1>1, <1>2, <2>1
<1>5. Len(u.staged) + u.shown <= Len(u.log)
  <2>1. /\ IsList(t.staged) /\ t.shown \in Nat /\ Len(t.log) \in Nat
        /\ Len(t.staged) + t.shown <= Len(t.log) /\ u.shown = t.shown /\ u.staged = t.staged
    BY <1>1 DEF TurnOK, TurnFields
  <2>2. Len(t.staged) \in Nat
    BY <2>1 DEF IsList
  <2> QED BY <1>4, <2>1, <2>2
<1>6. TurnOK(u)
  BY <1>1, <1>4, <1>5 DEF TurnOK, TurnFields
<1> QED BY <1>3, <1>6 DEF Proceeds, UnknownTool, Asks, Talking

LEMMA OutOfCallsOK ==
    ASSUME NEW d \in Desks, TurnOK(turn[d]), OutOfCalls(d)
    PROVE  Proceeds(d)
<1> DEFINE u == [turn[d] EXCEPT !.stopped = TRUE]
<1>1. TurnOK(u)
  BY LooseOK DEF TurnOK, TurnFields, TurnSteps, Loose
<1> HIDE DEF u
<1> QED BY <1>1 DEF Becomes, Proceeds, OutOfCalls, Asks, Talking, u

LEMMA OutOfScoresOK ==
    ASSUME NEW d \in Desks, TurnOK(turn[d]), OutOfScores(d)
    PROVE  Proceeds(d)
<1> DEFINE t == turn[d]
           u == [t EXCEPT !.calls = @ + 1, !.stopped = TRUE]
<1>1. /\ DOMAIN u = TurnFields /\ u.calls = t.calls + 1
      /\ \A f \in TurnFields \ {"calls", "stopped"} : u[f] = t[f]
  BY DEF TurnOK, TurnFields
<1>2. turn' = [turn EXCEPT ![d] = u]
  BY DEF OutOfScores, Becomes
<1>3. t.calls \in 0 .. MaxToolCalls /\ t.calls < MaxToolCalls /\ t.scores \in 0 .. MaxScores
  BY DEF OutOfScores, Charged, TurnOK
<1> HIDE DEF u
<1>4. u.calls \in 0 .. MaxToolCalls /\ u.scores <= u.calls
  <2>1. u.scores = t.scores /\ t.scores <= t.calls
    BY <1>1 DEF TurnOK, TurnFields
  <2> QED BY <1>1, <1>3, <2>1, LimitIsNumber
<1>5. TurnOK(u)
  BY <1>1, <1>4 DEF TurnOK, TurnFields
<1> QED BY <1>2, <1>5 DEF Proceeds, OutOfScores, Charged, Asks, Talking
LEMMA ReadingOK ==
    ASSUME NEW d \in Desks, TurnOK(turn[d]), Compile(d) \/ Look(d) \/ Annotate(d)
    PROVE  Proceeds(d)
<1>1. CASE Compile(d)
  <2>1. /\ Asks(d, "compile") /\ turn[d].calls < MaxToolCalls
        /\ Answers(d, turn[d], Parses(NextCall(d).of, turn[d].config))
    BY <1>1 DEF Compile, Charged
  <2>2. Parses(NextCall(d).of, turn[d].config) \in BOOLEAN /\ "compile" \in Tools
    BY DEF Parses, Tools
  <2> QED BY <2>1, <2>2, PlainAnswer
<1>2. CASE Look(d)
  <2>1. "look" \in Tools
    BY DEF Tools
  <2> QED BY <1>2, <2>1, PlainAnswer DEF Look, Charged
<1>3. CASE Annotate(d)
  <2>1. "annotate" \in Tools
    BY DEF Tools
  <2> QED BY <1>3, <2>1, PlainAnswer DEF Annotate, Charged
<1> QED BY <1>1, <1>2, <1>3

LEMMA MistypedOK ==
    ASSUME NEW d \in Desks, TurnOK(turn[d]), Mistyped(d)
    PROVE  Proceeds(d)
<1> DEFINE t == turn[d]
           u == [t EXCEPT !.scores = @ + 1]
<1>1. /\ DOMAIN u = TurnFields /\ u.scores = t.scores + 1
      /\ \A f \in TurnFields \ {"scores"} : u[f] = t[f]
  BY DEF TurnOK, TurnFields
<1>2. /\ Asks(d, "evaluate") /\ t.calls < MaxToolCalls /\ t.scores < MaxScores
      /\ Answers(d, u, FALSE)
  BY DEF Mistyped, Charged
<1>0. "evaluate" \in Tools
  BY DEF Tools
<1> HIDE DEF u
<1>3. /\ t.scores \in 0 .. MaxScores /\ t.trials \in Nat /\ t.shown \in Nat
      /\ t.shown <= t.trials /\ t.trials <= t.scores /\ IsList(t.staged)
  BY DEF TurnOK
<1>4. /\ \A f \in {"step", "calls", "visits", "log"} : u[f] = t[f]
      /\ u.shown = t.shown /\ u.trials = t.trials /\ u.staged = t.staged
  BY <1>1 DEF TurnFields
<1>5. /\ u.scores \in 0 .. MaxScores /\ u.scores <= t.scores + 1 /\ u.trials <= u.scores
      /\ u.shown <= t.shown + (IF "evaluate" = "evaluate" /\ FALSE THEN 1 ELSE 0)
  BY <1>1, <1>2, <1>3, <1>4, LimitIsNumber
<1>6. Len(u.staged) + u.shown <= Len(t.staged) + t.shown + 1
  BY <1>3, <1>4 DEF IsList
<1> QED BY <1>0, <1>1, <1>2, <1>3, <1>4, <1>5, <1>6, AnswersOK

LEMMA EvaluateOK ==
    ASSUME NEW d \in Desks, TurnOK(turn[d]), Evaluate(d)
    PROVE  Proceeds(d)
<1> DEFINE t == turn[d]
           u == [t EXCEPT !.scores = @ + 1, !.trials = @ + 1]
           w == [u EXCEPT !.shown = @ + 1]
<1>1. /\ DOMAIN u = TurnFields /\ u.scores = t.scores + 1 /\ u.trials = t.trials + 1
      /\ \A f \in TurnFields \ {"scores", "trials"} : u[f] = t[f]
  BY DEF TurnOK, TurnFields
<1>2. /\ Asks(d, "evaluate") /\ t.calls < MaxToolCalls /\ t.scores < MaxScores
      /\ Answers(d, u, FALSE) \/ Answers(d, w, TRUE)
  BY DEF Evaluate, Charged
<1>0. "evaluate" \in Tools
  BY DEF Tools
<1> HIDE DEF u
<1>3. /\ DOMAIN w = TurnFields /\ w.shown = u.shown + 1
      /\ \A f \in TurnFields \ {"shown"} : w[f] = u[f]
  BY <1>1 DEF TurnFields
<1> HIDE DEF w
<1>4. /\ t.scores \in 0 .. MaxScores /\ t.trials \in Nat /\ t.shown \in Nat
      /\ t.shown <= t.trials /\ t.trials <= t.scores /\ IsList(t.staged)
      /\ Len(t.staged) \in Nat
  BY DEF TurnOK, IsList
<1>5. /\ \A f \in {"step", "calls", "visits", "log"} : u[f] = t[f] /\ w[f] = t[f]
      /\ u.shown = t.shown /\ u.staged = t.staged /\ w.staged = t.staged
      /\ w.shown = t.shown + 1 /\ w.scores = t.scores + 1 /\ w.trials = t.trials + 1
  BY <1>1, <1>3 DEF TurnFields
<1>6. /\ t.scores + 1 \in 0 .. MaxScores /\ t.trials + 1 \in Nat
      /\ t.shown + 1 <= t.trials + 1 /\ t.trials + 1 <= t.scores + 1 /\ t.shown <= t.trials + 1
      /\ t.shown + 1 \in Nat /\ t.scores + 1 <= t.scores + 1
      /\ t.shown <= t.shown + 0 /\ t.shown + 1 <= t.shown + 1
      /\ Len(t.staged) + t.shown <= Len(t.staged) + t.shown + 1
      /\ Len(t.staged) + (t.shown + 1) <= Len(t.staged) + t.shown + 1
  <2>1. \A a, b, c, e \in Nat :
          (a < MaxScores /\ c <= b /\ b <= a) =>
             /\ a + 1 \in 0 .. MaxScores /\ b + 1 \in Nat
             /\ c + 1 <= b + 1 /\ b + 1 <= a + 1 /\ c <= b + 1
             /\ c + 1 \in Nat /\ a + 1 <= a + 1 /\ c <= c + 0 /\ c + 1 <= c + 1
             /\ e + c <= e + c + 1 /\ e + (c + 1) <= e + c + 1
    BY LimitIsNumber
  <2>2. t.scores \in Nat /\ t.scores < MaxScores
    BY <1>2, <1>4
  <2> HIDE DEF t
  <2> QED BY <1>4, <2>1, <2>2
<1>7. CASE Answers(d, u, FALSE)
  <2>1. u.shown <= t.shown + (IF "evaluate" = "evaluate" /\ FALSE THEN 1 ELSE 0)
    BY <1>5, <1>6
  <2> QED BY <1>0, <1>1, <1>2, <1>4, <1>5, <1>6, <1>7, <2>1, AnswersOK
<1>8. CASE Answers(d, w, TRUE)
  <2>1. w.shown <= t.shown + (IF "evaluate" = "evaluate" /\ TRUE THEN 1 ELSE 0)
    BY <1>5, <1>6
  <2> QED BY <1>0, <1>2, <1>3, <1>4, <1>5, <1>6, <1>8, <2>1, AnswersOK
<1> QED BY <1>2, <1>7, <1>8
LEMMA ToolRaisesOK ==
    ASSUME NEW d \in Desks, TurnOK(turn[d]), ToolRaises(d)
    PROVE  Proceeds(d)
<1> DEFINE t == turn[d]
           u == [t EXCEPT !.scores = @ + 1, !.trials = @ + 1, !.calls = @ + 1,
                          !.asked = <<>>, !.reason = "failed"]
<1>1. /\ DOMAIN u = TurnFields /\ u.scores = t.scores + 1 /\ u.trials = t.trials + 1
      /\ u.calls = t.calls + 1
      /\ \A f \in TurnFields \ {"scores", "trials", "calls", "asked", "reason"} : u[f] = t[f]
  BY DEF TurnOK, TurnFields
<1>2. /\ t.step = "tools" /\ t.calls < MaxToolCalls /\ t.scores < MaxScores
      /\ turn' = [turn EXCEPT ![d] = Entering(u, "model")]
  BY DEF ToolRaises, Charged, Asks, Becomes
<1> HIDE DEF u
<1>3. /\ u.shown = t.shown /\ u.log = t.log /\ u.staged = t.staged
      /\ u.step = t.step /\ u.visits = t.visits
  BY <1>1 DEF TurnFields
<1>4. /\ u.calls \in 0 .. MaxToolCalls /\ u.scores \in 0 .. MaxScores /\ u.trials \in Nat
      /\ u.shown <= u.trials /\ u.trials <= u.scores /\ u.scores <= u.calls
  <2>1. \A a, b, c, e \in Nat :
          (a < MaxToolCalls /\ b < MaxScores /\ e <= c /\ c <= b /\ b <= a) =>
             /\ a + 1 \in 0 .. MaxToolCalls /\ b + 1 \in 0 .. MaxScores /\ c + 1 \in Nat
             /\ e <= c + 1 /\ c + 1 <= b + 1 /\ b + 1 <= a + 1
    BY LimitIsNumber
  <2>2. /\ t.calls \in Nat /\ t.scores \in Nat /\ t.trials \in Nat /\ t.shown \in Nat
        /\ t.shown <= t.trials /\ t.trials <= t.scores /\ t.scores <= t.calls
    BY DEF TurnOK
  <2>3. t.calls < MaxToolCalls /\ t.scores < MaxScores
    BY <1>2
  <2> HIDE DEF t
  <2>4. /\ t.calls + 1 \in 0 .. MaxToolCalls /\ t.scores + 1 \in 0 .. MaxScores
        /\ t.trials + 1 \in Nat /\ t.shown <= t.trials + 1
        /\ t.trials + 1 <= t.scores + 1 /\ t.scores + 1 <= t.calls + 1
    BY <2>1, <2>2, <2>3
  <2> QED BY <1>1, <1>3, <2>4
<1>5. TurnOK(u)
  BY <1>1, <1>3, <1>4 DEF TurnOK
<1> QED BY <1>2, <1>5, EnteringOK DEF Proceeds, Talking

LEMMA StagedFacts ==
    ASSUME NEW d \in Desks, TurnOK(turn[d]), NEW kind, NEW of
    PROVE  LET t == turn[d]
               u == Staged(d, kind, of)
           IN  /\ DOMAIN u = TurnFields
               /\ \A f \in TurnFields \ {"staged"} : u[f] = t[f]
               /\ IsList(u.staged) /\ Len(u.staged) = Len(t.staged) + 1
<1> DEFINE t == turn[d]
           p == [id |-> <<d, Len(t.staged) + 1>>, kind |-> kind, of |-> of, applied |-> FALSE]
           u == Staged(d, kind, of)
<1>1. u = [t EXCEPT !.staged = Append(t.staged, p)]
  BY DEF Staged
<1>2. DOMAIN t = TurnFields /\ IsList(t.staged)
  BY DEF TurnOK
<1> HIDE DEF p, u, t
<1>3. /\ DOMAIN u = TurnFields /\ u.staged = Append(t.staged, p)
      /\ \A f \in TurnFields \ {"staged"} : u[f] = t[f]
  BY <1>1, <1>2 DEF TurnFields
<1>4. IsList(u.staged) /\ Len(u.staged) = Len(t.staged) + 1
  BY <1>2, <1>3, Appended
<1> QED BY <1>3, <1>4 DEF t, u

LEMMA ProposeOK ==
    ASSUME NEW d \in Desks, TurnOK(turn[d]), ProposeFactor(d) \/ ProposePatch(d)
    PROVE  Proceeds(d)
<1> DEFINE t == turn[d]
<1>0. "factor" \in Tools /\ "patch" \in Tools
  BY DEF Tools
<1>1. ASSUME NEW tool \in {"factor", "patch"}, Asks(d, tool), t.calls < MaxToolCalls,
             NEW kind, NEW of, Answers(d, Staged(d, kind, of), TRUE)
      PROVE  Proceeds(d)
  <2> DEFINE u == Staged(d, kind, of)
  <2>1. /\ DOMAIN u = TurnFields
        /\ \A f \in TurnFields \ {"staged"} : u[f] = t[f]
        /\ IsList(u.staged) /\ Len(u.staged) = Len(t.staged) + 1
    BY StagedFacts
  <2>2. Answers(d, u, TRUE)
    BY <1>1
  <2> HIDE DEF u
  <2>3. /\ \A f \in {"step", "calls", "visits", "log"} : u[f] = t[f]
        /\ u.scores = t.scores /\ u.trials = t.trials /\ u.shown = t.shown
    BY <2>1 DEF TurnFields
  <2>4. /\ t.scores \in 0 .. MaxScores /\ t.trials \in Nat /\ t.shown \in Nat
        /\ t.shown <= t.trials /\ t.trials <= t.scores /\ IsList(t.staged)
        /\ Len(t.staged) \in Nat
    BY DEF TurnOK, IsList
  <2>5. /\ u.scores <= t.scores + 1
        /\ Len(u.staged) + u.shown <= Len(t.staged) + t.shown + 1
        /\ u.shown <= t.shown + (IF tool = "evaluate" /\ TRUE THEN 1 ELSE 0)
    <3> HIDE DEF t
    <3> QED BY <2>1, <2>3, <2>4
  <2> QED BY <1>0, <1>1, <2>1, <2>2, <2>3, <2>4, <2>5, AnswersOK
<1>2. ASSUME NEW tool \in {"factor", "patch"}, Asks(d, tool), t.calls < MaxToolCalls,
             Answers(d, t, FALSE)
      PROVE  Proceeds(d)
  BY <1>0, <1>2, PlainAnswer
<1>3. CASE ProposeFactor(d)
  BY <1>1, <1>2, <1>3 DEF ProposeFactor, Charged
<1>4. CASE ProposePatch(d)
  BY <1>1, <1>2, <1>4 DEF ProposePatch, Charged
<1> QED BY <1>3, <1>4

LEMMA EndToolsOK ==
    ASSUME NEW d \in Desks, TurnOK(turn[d]), EndTools(d)
    PROVE  Proceeds(d)
<1>1. PICK late \in {turn[d].late, TRUE} :
        LET t == [turn[d] EXCEPT !.late = late, !.asked = <<>>]
        IN  Becomes(d, Entering([t EXCEPT !.finalizing = @ \/ t.stopped \/ Exhausted(t),
                                          !.stopped = FALSE], "model"))
  BY DEF EndTools
<1> DEFINE t == [turn[d] EXCEPT !.late = late, !.asked = <<>>]
           u == [t EXCEPT !.finalizing = @ \/ t.stopped \/ Exhausted(t), !.stopped = FALSE]
<1>2. /\ DOMAIN t = TurnFields
      /\ \A f \in TurnFields \ Loose : t[f] = turn[d][f]
  BY DEF TurnOK, TurnFields, Loose
<1>3. turn' = [turn EXCEPT ![d] = Entering(u, "model")]
  BY <1>1 DEF Becomes
<1> HIDE DEF t
<1>4. /\ DOMAIN u = TurnFields
      /\ \A f \in TurnFields \ Loose : u[f] = t[f]
  BY <1>2 DEF TurnFields, Loose
<1> HIDE DEF u
<1>5. TurnOK(u)
  <2>1. \A f \in TurnFields \ Loose : u[f] = turn[d][f]
    BY <1>2, <1>4
  <2>2. u.step = turn[d].step /\ u.step \in TurnSteps
    BY <2>1 DEF TurnOK, TurnFields, Loose
  <2> QED BY <1>4, <2>1, <2>2, LooseOK
<1> QED BY <1>3, <1>5, EnteringOK DEF Proceeds, EndTools, Talking

LEMMA TurnStepOK ==
    ASSUME NEW d \in Desks, TurnOK(turn[d]), TurnStep(d)
    PROVE  Proceeds(d)
  BY StartTurnOK, ModelFailsOK, ModelRepliesOK, UnknownToolOK, OutOfCallsOK, ReadingOK,
     OutOfScoresOK, MistypedOK, EvaluateOK, ToolRaisesOK, ProposeOK, EndToolsOK
     DEF TurnStep, ToolStep
-----------------------------------------------------------------------------
(* Threads, settings and documents.                                          *)

LEMMA ThreadAppended ==
    ASSUME NEW thread, ThreadOK(thread), NEW x, ExchangeOK(x)
    PROVE  ThreadOK(Append(thread, x))
<1>1. IsList(thread) /\ DOMAIN thread = 1 .. Len(thread) /\ Len(thread) \in Nat
  BY DEF ThreadOK, IsList
<1>2. /\ IsList(Append(thread, x)) /\ DOMAIN Append(thread, x) = 1 .. Len(thread) + 1
      /\ Append(thread, x)[Len(thread) + 1] = x
      /\ \A i \in 1 .. Len(thread) : Append(thread, x)[i] = thread[i]
  BY <1>1, Appended
<1>3. ASSUME NEW i \in 1 .. Len(thread) + 1 PROVE ExchangeOK(Append(thread, x)[i])
  <2>1. CASE i = Len(thread) + 1
    BY <1>2, <2>1
  <2>2. CASE i # Len(thread) + 1
    <3>1. i \in 1 .. Len(thread)
      BY <1>1, <2>2
    <3> QED BY <1>1, <1>2, <3>1 DEF ThreadOK
  <2> QED BY <2>1, <2>2
<1> QED BY <1>2, <1>3 DEF ThreadOK

LEMMA ListOfDomain ==
    ASSUME NEW n \in Nat, NEW f, f = [k \in 1 .. n |-> f[k]]
    PROVE  IsList(f) /\ DOMAIN f = 1 .. n
<1>1. f \in [1 .. n -> Range(f)]
  BY DEF Range
<1> QED BY <1>1 DEF IsList

(* A mark on a proposal changes nothing of what an exchange counted.         *)
LEMMA ThreadMarked ==
    ASSUME NEW thread, ThreadOK(thread), NEW id
    PROVE  ThreadOK(Applied(thread, id))
<1> DEFINE marked == Applied(thread, id)
           n == Len(thread)
<1>1. IsList(thread) /\ DOMAIN thread = 1 .. n /\ n \in Nat
  BY DEF ThreadOK, IsList
<1>2. DOMAIN marked = 1 .. n /\ marked = [k \in 1 .. n |-> marked[k]]
  BY <1>1 DEF Applied
<1>3. ASSUME NEW i \in 1 .. n PROVE ExchangeOK(marked[i])
  <2> DEFINE x == thread[i]
             y == marked[i]
             ps == x.proposals
             qs == y.proposals
  <2>1. ExchangeOK(x)
    BY <1>1 DEF ThreadOK
  <2>2. DOMAIN ps = 1 .. Len(ps) /\ Len(ps) \in Nat
    BY <2>1 DEF ExchangeOK, IsList
  <2>3. /\ DOMAIN y = DOMAIN x /\ y.log = x.log /\ y.shown = x.shown
        /\ DOMAIN qs = DOMAIN ps /\ qs = [k \in DOMAIN ps |-> qs[k]]
    BY <1>1, <2>1 DEF Applied, ExchangeOK
  <2> HIDE DEF x, y, ps, qs
  <2>4. IsList(qs)
    BY <2>2, <2>3, ListOfDomain
  <2> QED BY <2>1, <2>3, <2>4 DEF ExchangeOK, y, qs
<1> HIDE DEF marked, n
<1>4. IsList(marked)
  BY <1>1, <1>2, ListOfDomain
<1>5. ThreadOK(marked)
  BY <1>2, <1>3, <1>4 DEF ThreadOK
<1> QED BY <1>5 DEF marked

(* A patch that is accepted leaves settings a search accepts, and what is    *)
(* protected as it was.                                                      *)
LEMMA MergedOK ==
    ASSUME NEW c, ConfigOK(c), NEW patch, PatchAccepted(patch, c)
    PROVE  ConfigOK(Merged(patch, c)) /\ Measurement(Merged(patch, c)) = Measurement(c)
<1>1. DOMAIN Merged(patch, c) = Settings
  BY DEF Merged, ConfigOK
<1>2. LegalConfig(Merged(patch, c))
  BY DEF PatchAccepted
<1>3. ASSUME NEW k \in Protected PROVE Merged(patch, c)[k] = c[k]
  <2>1. k \in Settings /\ k \notin DOMAIN patch
    BY DEF Settings, PatchAccepted
  <2> QED BY <2>1 DEF Merged, ConfigOK
<1>4. Merged(patch, c).horizon = c.horizon /\ Merged(patch, c).execution = c.execution
  BY <1>3 DEF Protected
<1>5. ConfigOK(Merged(patch, c))
  BY <1>1, <1>2, <1>4 DEF ConfigOK, EmbargoCovers
<1>6. Measurement(Merged(patch, c)) = Measurement(c)
  BY <1>3 DEF Measurement
<1> QED BY <1>5, <1>6

LEMMA ListedFacts == Listed \subseteq Nat /\ 0 \in Listed /\ MaxListed \in Nat
  BY DeskAssumption DEF Listed

(* The next index is above those of the rounds the session lists.            *)
LEMMA NextIndex ==
    ASSUME NEW rounds \in Seq(Listed), rounds # <<>>
    PROVE  Max(Range(rounds)) + 1 \in Nat
<1>1. Range(rounds) \in SUBSET Nat /\ Range(rounds) # {}
  <2>1. DOMAIN rounds = 1 .. Len(rounds) /\ Len(rounds) \in Nat /\ Len(rounds) # 0
    OBVIOUS
  <2>2. 1 \in DOMAIN rounds /\ \A i \in DOMAIN rounds : rounds[i] \in Listed
    BY <2>1
  <2> QED BY <2>2, ListedFacts DEF Range
<1>2. \A i \in Range(rounds) : i <= MaxListed
  <2>1. \A i \in Listed : i <= MaxListed
    BY ListedFacts DEF Listed
  <2>2. \A i \in DOMAIN rounds : rounds[i] \in Listed
    OBVIOUS
  <2> QED BY <2>1, <2>2 DEF Range
<1>3. Max(Range(rounds)) \in Nat
  BY <1>1, <1>2, ListedFacts, MaxIsGreatest
<1> QED BY <1>3

(* The exchange that staged an open proposal is one of the thread.           *)
LEMMA StagingFacts ==
    ASSUME NEW thread, NEW id, NEW kind, Open(thread, id, kind)
    PROVE  Staging(thread, id) \in DOMAIN thread
<1>1. PICK p \in Proposals(thread) : p.id = id
  BY DEF Open
<1>2. PICK i \in DOMAIN thread : p \in Range(thread[i].proposals)
  BY <1>1 DEF Proposals
<1>3. \E i_1 \in DOMAIN thread : \E p_1 \in Range(thread[i_1].proposals) : p_1.id = id
  BY <1>1, <1>2
<1> QED BY <1>3 DEF Staging

LEMMA NoErrandOK ==
    /\ ErrandOK(NoErrand) /\ NoErrand.step = "idle"
    /\ ErrandOK([NoErrand EXCEPT !.step = "done"])
<1>1. /\ DOMAIN NoErrand = ErrandFields /\ NoErrand.step = "idle" /\ NoErrand.thread = <<>>
  BY DEF NoErrand, ErrandFields
<1> DEFINE e == [NoErrand EXCEPT !.step = "done"]
<1>2. DOMAIN e = ErrandFields /\ e.step = "done" /\ e.thread = <<>>
  BY DEF NoErrand, ErrandFields
<1> HIDE DEF e
<1>3. ErrandOK(NoErrand) /\ ErrandOK(e)
  BY <1>1, <1>2, EmptyList DEF ErrandOK, ErrandSteps
<1> QED BY <1>1, <1>3 DEF e
-----------------------------------------------------------------------------
(* The desk's steps.                                                         *)

(* The files of the session, and the segment's copy of one.                  *)
FilesOK ==
    /\ ThreadOK(conversation) /\ DocumentOK(session) /\ SegmentOK(segment)
    /\ DOMAIN round_files = Listed /\ \A i \in Listed : RoundOK(round_files[i])
    /\ searched \in Nat

(* One request goes on, or none does.                                        *)
LEMMA OneRequest ==
    ASSUME DeskInv, NEW d \in Desks,
           DOMAIN turn' = Desks, DOMAIN errand' = Desks,
           \A x \in Desks \ {d} : turn'[x] = turn[x] /\ errand'[x] = errand[x],
           TurnOK(turn'[d]), ErrandOK(errand'[d]),
           Talking(turn'[d]) => errand'[d].step = "idle",
           FilesOK'
    PROVE  DeskInv'
<1>1. ASSUME NEW x \in Desks
      PROVE  /\ TurnOK(turn'[x]) /\ ErrandOK(errand'[x])
             /\ Talking(turn'[x]) => errand'[x].step = "idle"
  <2>1. CASE x = d
    BY <2>1
  <2>2. CASE x # d
    BY <2>2 DEF DeskInv
  <2> QED BY <2>1, <2>2
<1> QED BY <1>1 DEF DeskInv, FilesOK

LEMMA NoRequest ==
    ASSUME DeskInv, UNCHANGED <<turn, errand>>, FilesOK'
    PROVE  DeskInv'
  BY DEF DeskInv, FilesOK

LEMMA SameFiles ==
    ASSUME DeskInv, UNCHANGED <<conversation, session, round_files, searched, segment>>
    PROVE  FilesOK'
  BY DEF DeskInv, FilesOK

LEMMA AskMessageOK ==
    ASSUME DeskInv, NEW d \in Desks, AskMessage(d)
    PROVE  DeskInv'
<1> DEFINE u == [Resting EXCEPT !.step = "queued", !.config = session.config]
<1>1. turn' = [turn EXCEPT ![d] = u] /\ errand[d].step = "idle" /\ errand' = errand
  BY DEF AskMessage, BeginTurn, Becomes, Idle
<1>2. TurnOK(u)
  <2>1. /\ DOMAIN u = TurnFields /\ u.step = "queued"
        /\ \A f \in TurnFields \ (Loose \cup {"step"}) : u[f] = Resting[f]
    BY DEF Resting, TurnFields, Loose
  <2> HIDE DEF u
  <2> QED BY <2>1, RestingOK, LooseOK DEF TurnSteps
<1> HIDE DEF u
<1>3. FilesOK'
  BY SameFiles DEF AskMessage
<1> QED BY <1>1, <1>2, <1>3, OneRequest DEF DeskInv

LEMMA StartMessageOK ==
    ASSUME DeskInv, NEW d \in Desks, StartMessage(d)
    PROVE  DeskInv'
<1>1. TurnOK(turn[d]) /\ ErrandOK(errand[d]) /\ ThreadOK(conversation)
  BY DEF DeskInv
<1>2. PICK t : TurnOK(t) /\ turn' = [turn EXCEPT ![d] = t]
  BY <1>1, StartTurnOK DEF StartMessage, Proceeds
<1> DEFINE e == [errand[d] EXCEPT !.thread = conversation]
<1>3. errand' = [errand EXCEPT ![d] = e]
  BY DEF StartMessage
<1>4. errand[d].step = "idle"
  BY DEF DeskInv, StartMessage, StartTurn, Talking
<1>5. /\ DOMAIN e = ErrandFields /\ e.step = "idle" /\ e.thread = conversation
  BY <1>1, <1>4 DEF ErrandOK, ErrandFields
<1> HIDE DEF e
<1>6. ErrandOK(e)
  BY <1>1, <1>5 DEF ErrandOK, ErrandSteps
<1>7. FilesOK'
  BY SameFiles DEF StartMessage
<1> QED BY <1>2, <1>3, <1>5, <1>6, <1>7, OneRequest DEF DeskInv

LEMMA MessageStepOK ==
    ASSUME DeskInv, NEW d \in Desks, MessageStep(d)
    PROVE  DeskInv'
<1>1. TurnOK(turn[d])
  BY DEF DeskInv
<1>2. TurnStep(d)
  BY DEF MessageStep, TurnStep
<1>3. Proceeds(d)
  BY <1>1, <1>2, TurnStepOK
<1>4. PICK t : TurnOK(t) /\ turn' = [turn EXCEPT ![d] = t]
  BY <1>3 DEF Proceeds
<1>5. errand[d].step = "idle" /\ errand' = errand
  BY <1>3 DEF Proceeds, DeskInv, MessageStep
<1>6. FilesOK'
  BY SameFiles DEF MessageStep
<1> QED BY <1>4, <1>5, <1>6, OneRequest DEF DeskInv

LEMMA SaveMessageOK ==
    ASSUME DeskInv, NEW d \in Desks, SaveMessage(d)
    PROVE  DeskInv'
<1>1. PICK late \in {turn[d].late, TRUE} :
        conversation' = Append(errand[d].thread, Ended([turn[d] EXCEPT !.late = late]))
  BY DEF SaveMessage
<1> DEFINE u == [turn[d] EXCEPT !.late = late]
           r == [Resting EXCEPT !.step = "done"]
<1>2. TurnOK(turn[d]) /\ ErrandOK(errand[d])
  BY DEF DeskInv
<1>3. /\ u.log = turn[d].log /\ u.staged = turn[d].staged /\ u.shown = turn[d].shown
  BY <1>2 DEF TurnOK, TurnFields
<1> HIDE DEF u
<1>4. ExchangeOK(Ended(u))
  BY <1>2, <1>3 DEF ExchangeOK, Ended, TurnOK
<1>5. ThreadOK(conversation')
  BY <1>1, <1>2, <1>4, ThreadAppended DEF ErrandOK, u
<1>6. TurnOK(r) /\ ~Talking(r)
  <2>1. /\ DOMAIN r = TurnFields /\ r.step = "done"
        /\ \A f \in TurnFields \ (Loose \cup {"step"}) : r[f] = Resting[f]
    BY DEF Resting, TurnFields, Loose
  <2> HIDE DEF r
  <2> QED BY <2>1, RestingOK, LooseOK DEF TurnSteps, Talking
<1>7. turn' = [turn EXCEPT ![d] = r] /\ errand' = [errand EXCEPT ![d] = NoErrand]
  BY DEF SaveMessage, Becomes
<1> HIDE DEF r
<1>8. FilesOK'
  BY <1>5 DEF FilesOK, DeskInv, SaveMessage
<1> QED BY <1>6, <1>7, <1>8, NoErrandOK, OneRequest DEF DeskInv

LEMMA ClearConversationOK ==
    ASSUME DeskInv, ClearConversation
    PROVE  DeskInv'
<1>1. FilesOK'
  BY EmptyList DEF ClearConversation, DeskInv, FilesOK
<1> QED BY <1>1, NoRequest DEF ClearConversation

(* An errand alone goes on, and the thread it holds is a sound one.          *)
LEMMA ErrandGoesOn ==
    ASSUME DeskInv, NEW d \in Desks, UNCHANGED turn, NEW e, ErrandOK(e),
           errand' = [errand EXCEPT ![d] = e],
           e.step # "idle" => ~Talking(turn[d]), FilesOK'
    PROVE  DeskInv'
  BY OneRequest DEF DeskInv

LEMMA EndsOK ==
    ASSUME DeskInv, NEW d \in Desks, UNCHANGED turn, Ends(d),
           errand[d].step # "idle", FilesOK'
    PROVE  DeskInv'
<1>1. ~Talking(turn[d])
  BY DEF DeskInv
<1> QED BY <1>1, NoErrandOK, ErrandGoesOn DEF Ends

LEMMA PlanOK ==
    ASSUME DeskInv, NEW d \in Desks, NEW id, PlanPromotion(d, id) \/ AskPatch(d, id)
    PROVE  DeskInv'
<1>1. FilesOK' /\ UNCHANGED turn /\ ~Talking(turn[d])
  BY SameFiles DEF PlanPromotion, AskPatch, Idle, Talking
<1>2. CASE PlanPromotion(d, id)
  <2> DEFINE e == [NoErrand EXCEPT !.step = "planned", !.id = id]
  <2>1. DOMAIN e = ErrandFields /\ e.step = "planned" /\ e.thread = <<>>
    BY DEF NoErrand, ErrandFields
  <2>2. errand' = [errand EXCEPT ![d] = e]
    BY <1>2 DEF PlanPromotion
  <2> HIDE DEF e
  <2>3. ErrandOK(e)
    BY <2>1, EmptyList DEF ErrandOK, ErrandSteps
  <2> QED BY <1>1, <2>2, <2>3, ErrandGoesOn
<1>3. CASE AskPatch(d, id)
  <2> DEFINE e == [NoErrand EXCEPT !.step = "found", !.kind = "config", !.id = id,
                                   !.thread = conversation]
  <2>1. DOMAIN e = ErrandFields /\ e.step = "found" /\ e.thread = conversation
    BY DEF NoErrand, ErrandFields
  <2>2. errand' = [errand EXCEPT ![d] = e]
    BY <1>3 DEF AskPatch
  <2> HIDE DEF e
  <2>3. ErrandOK(e)
    BY <2>1 DEF ErrandOK, ErrandSteps, DeskInv
  <2> QED BY <1>1, <2>2, <2>3, ErrandGoesOn
<1> QED BY <1>2, <1>3
LEMMA StartPromotionOK ==
    ASSUME DeskInv, NEW d \in Desks, StartPromotion(d)
    PROVE  DeskInv'
<1>1. FilesOK' /\ UNCHANGED turn /\ errand[d].step = "planned" /\ ~Talking(turn[d])
  BY SameFiles DEF StartPromotion, DeskInv
<1>2. CASE Ends(d)
  BY <1>1, <1>2, EndsOK
<1>3. CASE Open(conversation, errand[d].id, "factor") /\ ~Ends(d)
  <2> DEFINE e == [errand[d] EXCEPT !.step = "validating", !.thread = conversation,
                                    !.parent = ParentRound]
  <2>1. errand' = [errand EXCEPT ![d] = e]
    BY <1>3 DEF StartPromotion
  <2>2. DOMAIN errand[d] = ErrandFields
    BY DEF DeskInv, ErrandOK
  <2>3. /\ DOMAIN e = ErrandFields /\ e.step = "validating" /\ e.thread = conversation
        /\ e.id = errand[d].id
    BY <2>2 DEF ErrandFields
  <2> HIDE DEF e
  <2>4. ErrandOK(e)
    BY <1>3, <2>3 DEF ErrandOK, ErrandSteps, DeskInv
  <2> QED BY <1>1, <2>1, <2>4, ErrandGoesOn
<1> QED BY <1>2, <1>3 DEF StartPromotion

LEMMA ValidationFailsOK ==
    ASSUME DeskInv, NEW d \in Desks, ValidationFails(d)
    PROVE  DeskInv'
<1>1. FilesOK'
  BY SameFiles DEF ValidationFails
<1> QED BY <1>1, EndsOK DEF ValidationFails

LEMMA FoldTrialsOK ==
    ASSUME DeskInv, NEW d \in Desks, FoldTrials(d)
    PROVE  DeskInv'
<1> DEFINE e == errand[d]
           trials == TotalTrials(e.thread)
           index == IF session.rounds = <<>> THEN 0 ELSE Max(Range(session.rounds)) + 1
           cost == e.thread[Staging(e.thread, e.id)].shown
           r == [origin |-> "agent", trials |-> trials, parent |-> e.parent, cost |-> cost]
           doc == [session EXCEPT !.trials = @ + trials, !.rounds = Append(@, index)]
           f == [e EXCEPT !.step = "written", !.index = index, !.doc = doc]
<1>1. /\ e.step = "validating" /\ index < MaxListed
      /\ round_files' = [round_files EXCEPT ![index] = r]
      /\ errand' = [errand EXCEPT ![d] = f]
      /\ UNCHANGED <<turn, conversation, session, searched, segment>>
  BY DEF FoldTrials
<1>2. /\ ErrandOK(e) /\ DocumentOK(session) /\ ~Talking(turn[d])
      /\ DOMAIN round_files = Listed /\ \A i \in Listed : RoundOK(round_files[i])
  BY <1>1 DEF DeskInv
<1>3. trials \in Nat /\ cost \in Nat /\ cost <= trials
  <2>1. ThreadOK(e.thread) /\ Open(e.thread, e.id, "factor")
    BY <1>1, <1>2 DEF ErrandOK
  <2> DEFINE i == Staging(e.thread, e.id)
  <2>2. i \in DOMAIN e.thread
    BY <2>1, StagingFacts
  <2>3. trials \in Nat /\ Counted(e.thread[i].log) <= trials
    BY <2>1, <2>2, TotalTrialsFacts
  <2>4. /\ e.thread[i].log \in Seq(Call) /\ cost \in Nat
        /\ cost <= Counted(e.thread[i].log)
    BY <2>1, <2>2 DEF ThreadOK, ExchangeOK
  <2>5. Counted(e.thread[i].log) \in Nat
    BY <2>4, CountedFacts
  <2> HIDE DEF trials, cost, i, e
  <2> QED BY <2>3, <2>4, <2>5
<1>4. index \in Listed
  <2>1. index \in Nat
    BY <1>2, NextIndex DEF DocumentOK
  <2> HIDE DEF index
  <2> QED BY <1>1, <2>1, ListedFacts DEF Listed
<1> HIDE DEF trials, index, cost
<1>5. DocumentOK(doc)
  <2>1. /\ DOMAIN session = {"config", "trials", "rounds"} /\ session.trials \in Nat
        /\ session.rounds \in Seq(Listed)
    BY <1>2 DEF DocumentOK
  <2>2. /\ DOMAIN doc = {"config", "trials", "rounds"} /\ doc.config = session.config
        /\ doc.trials = session.trials + trials /\ doc.rounds = Append(session.rounds, index)
    BY <2>1
  <2>3. Append(session.rounds, index) \in Seq(Listed)
    BY <1>4, <2>1
  <2> HIDE DEF doc
  <2> QED BY <1>2, <1>3, <2>1, <2>2, <2>3 DEF DocumentOK
<1> HIDE DEF doc
<1>6. ErrandOK(f) /\ f.step = "written"
  <2>1. DOMAIN e = ErrandFields /\ ThreadOK(e.thread)
    BY <1>2 DEF ErrandOK
  <2>2. DOMAIN f = ErrandFields /\ f.step = "written" /\ f.doc = doc /\ f.thread = e.thread
    BY <2>1 DEF ErrandFields
  <2> HIDE DEF f, e
  <2> QED BY <1>5, <2>1, <2>2 DEF ErrandOK, ErrandSteps
<1> HIDE DEF f
<1>7. RoundOK(r)
  BY <1>3 DEF RoundOK
<1> HIDE DEF r
<1>8. FilesOK'
  BY <1>1, <1>2, <1>7 DEF FilesOK, DeskInv
<1> QED BY <1>1, <1>2, <1>6, <1>8, ErrandGoesOn

LEMMA SaveDocumentOK ==
    ASSUME DeskInv, NEW d \in Desks, SaveDocument(d)
    PROVE  DeskInv'
<1> DEFINE e == [errand[d] EXCEPT !.step = "saved"]
<1>1. /\ ErrandOK(errand[d]) /\ errand[d].step = "written" /\ ~Talking(turn[d])
      /\ session' = errand[d].doc /\ errand' = [errand EXCEPT ![d] = e] /\ UNCHANGED turn
  BY DEF SaveDocument, DeskInv
<1>2. DocumentOK(session')
  BY <1>1 DEF ErrandOK
<1>3. FilesOK'
  BY <1>2 DEF FilesOK, DeskInv, SaveDocument
<1>4. DOMAIN e = ErrandFields /\ e.step = "saved" /\ e.thread = errand[d].thread
  BY <1>1 DEF ErrandOK, ErrandFields
<1> HIDE DEF e
<1>5. ErrandOK(e)
  BY <1>1, <1>4 DEF ErrandOK, ErrandSteps
<1> QED BY <1>1, <1>3, <1>5, ErrandGoesOn

LEMMA CheckPatchOK ==
    ASSUME DeskInv, NEW d \in Desks, CheckPatch(d)
    PROVE  DeskInv'
<1> DEFINE patch == ProposalOf(errand[d].thread, errand[d].id).of
           doc == [session EXCEPT !.config = Merged(patch, session.config)]
           e == [errand[d] EXCEPT !.step = "written", !.doc = doc]
<1>1. /\ ErrandOK(errand[d]) /\ errand[d].step = "found" /\ ~Talking(turn[d])
      /\ DocumentOK(session) /\ UNCHANGED turn
  BY DEF CheckPatch, DeskInv
<1>2. FilesOK'
  BY SameFiles DEF CheckPatch
<1>3. CASE PatchAccepted(patch, session.config)
  <2>1. errand' = [errand EXCEPT ![d] = e]
    BY <1>3 DEF CheckPatch
  <2>2. ConfigOK(Merged(patch, session.config))
    BY <1>1, <1>3, MergedOK DEF DocumentOK
  <2> HIDE DEF patch
  <2>3. /\ DOMAIN doc = {"config", "trials", "rounds"} /\ doc.trials = session.trials
        /\ doc.rounds = session.rounds /\ doc.config = Merged(patch, session.config)
    BY <1>1 DEF DocumentOK
  <2> HIDE DEF doc
  <2>4. DocumentOK(doc)
    BY <1>1, <2>2, <2>3 DEF DocumentOK
  <2>5. /\ DOMAIN e = ErrandFields /\ e.step = "written" /\ e.doc = doc
        /\ e.thread = errand[d].thread
    BY <1>1 DEF ErrandOK, ErrandFields
  <2> HIDE DEF e
  <2>6. ErrandOK(e)
    BY <1>1, <2>4, <2>5 DEF ErrandOK, ErrandSteps
  <2> QED BY <1>1, <1>2, <2>1, <2>6, ErrandGoesOn
<1>4. CASE ~PatchAccepted(patch, session.config)
  <2>1. Ends(d)
    BY <1>4 DEF CheckPatch
  <2> QED BY <1>1, <1>2, <2>1, EndsOK
<1> QED BY <1>3, <1>4

LEMMA MarkAppliedOK ==
    ASSUME DeskInv, NEW d \in Desks, MarkApplied(d)
    PROVE  DeskInv'
<1>1. ThreadOK(conversation')
  BY ThreadMarked DEF MarkApplied, DeskInv, ErrandOK
<1>2. FilesOK'
  BY <1>1 DEF FilesOK, DeskInv, MarkApplied
<1> QED BY <1>2, EndsOK DEF MarkApplied

LEMMA AskContinueOK ==
    ASSUME DeskInv, NEW change, AskContinue(change)
    PROVE  DeskInv'
<1> DEFINE config == Merged(change, session.config)
           g == [NoSegment EXCEPT !.step = "asked", !.config = config]
<1>1. /\ LegalConfig(config) /\ EmbargoCovers(config)
      /\ config.execution = session.config.execution /\ segment' = g
  BY DEF AskContinue
<1>2. ConfigOK(config)
  <2>1. ConfigOK(session.config)
    BY DEF DeskInv, DocumentOK
  <2>2. DOMAIN config = Settings
    BY <2>1 DEF Merged, ConfigOK
  <2> HIDE DEF config
  <2> QED BY <1>1, <2>1, <2>2 DEF ConfigOK
<1> HIDE DEF config
<1>3. SegmentOK(segment')
  <2>1. /\ DOMAIN g = {"step", "config", "copy", "index"} /\ g.step = "asked"
        /\ g.config = config
    BY DEF NoSegment
  <2> HIDE DEF g
  <2> QED BY <1>1, <1>2, <2>1 DEF SegmentOK
<1>4. FilesOK'
  BY <1>3 DEF FilesOK, DeskInv, AskContinue
<1> QED BY <1>4, NoRequest DEF AskContinue

LEMMA ClaimSessionOK ==
    ASSUME DeskInv, ClaimSession
    PROVE  DeskInv'
<1> DEFINE copy == [session EXCEPT !.config = segment.config]
           g == [segment EXCEPT !.step = "claimed", !.copy = copy]
<1>1. /\ SegmentOK(segment) /\ DocumentOK(session) /\ ConfigOK(segment.config)
      /\ segment' = g
  BY DEF ClaimSession, SegmentOK, DeskInv
<1>2. DocumentOK(copy)
  <2>1. /\ DOMAIN copy = {"config", "trials", "rounds"} /\ copy.config = segment.config
        /\ copy.trials = session.trials /\ copy.rounds = session.rounds
    BY <1>1 DEF DocumentOK
  <2> HIDE DEF copy
  <2> QED BY <1>1, <2>1 DEF DocumentOK
<1> HIDE DEF copy
<1>3. SegmentOK(g)
  <2>1. /\ DOMAIN g = {"step", "config", "copy", "index"} /\ g.step = "claimed"
        /\ g.copy = copy
    BY <1>1 DEF SegmentOK
  <2> HIDE DEF g
  <2> QED BY <1>2, <2>1 DEF SegmentOK
<1> HIDE DEF g
<1>4. FilesOK'
  BY <1>1, <1>3 DEF FilesOK, DeskInv, ClaimSession
<1> QED BY <1>4, NoRequest DEF ClaimSession

LEMMA SaveSettingsOK ==
    ASSUME DeskInv, SaveSettings
    PROVE  DeskInv'
<1> DEFINE g == [segment EXCEPT !.step = "queued", !.copy = <<>>]
<1>1. /\ DOMAIN segment = {"step", "config", "copy", "index"} /\ DocumentOK(segment.copy)
      /\ session' = segment.copy /\ segment' = g
  BY DEF SaveSettings, SegmentOK, DeskInv
<1>2. DOMAIN g = {"step", "config", "copy", "index"} /\ g.step = "queued"
  BY <1>1
<1> HIDE DEF g
<1>3. SegmentOK(g)
  BY <1>2 DEF SegmentOK
<1>4. FilesOK'
  BY <1>1, <1>3 DEF FilesOK, DeskInv, SaveSettings
<1> QED BY <1>4, NoRequest DEF SaveSettings

LEMMA BeginSegmentOK ==
    ASSUME DeskInv, BeginSegment
    PROVE  DeskInv'
<1> DEFINE g == [segment EXCEPT !.step = "training", !.copy = session]
<1>0. /\ DOMAIN segment = {"step", "config", "copy", "index"} /\ DocumentOK(session)
      /\ segment' = g
  BY DEF BeginSegment, SegmentOK, DeskInv
<1>1. SegmentOK(segment')
  <2>1. /\ DOMAIN g = {"step", "config", "copy", "index"} /\ g.step = "training"
        /\ g.copy = session
    BY <1>0
  <2> HIDE DEF g
  <2> QED BY <1>0, <2>1 DEF SegmentOK
<1>2. FilesOK'
  BY <1>1 DEF FilesOK, DeskInv, BeginSegment
<1> QED BY <1>2, NoRequest DEF BeginSegment

LEMMA WriteSegmentOK ==
    ASSUME DeskInv, WriteSegment
    PROVE  DeskInv'
<1> DEFINE free == {i \in DOMAIN round_files :
                       i >= Len(segment.copy.rounds) /\ round_files[i] = NoRound}
           g == [segment EXCEPT !.step = "written", !.index = Min(free)]
<1>1. /\ free # {} /\ segment.step = "training" /\ segment' = g
      /\ round_files' = [round_files EXCEPT ![Min(free)] = FirstRound]
      /\ searched' = searched + 1 /\ UNCHANGED <<turn, conversation, session, errand>>
  BY DEF WriteSegment
<1>2. /\ SegmentOK(segment) /\ DOMAIN round_files = Listed /\ searched \in Nat
      /\ \A i \in Listed : RoundOK(round_files[i])
  BY DEF DeskInv
<1>3. Min(free) \in Listed
  <2>1. free \in SUBSET Nat /\ free \subseteq Listed
    BY <1>2, ListedFacts
  <2> HIDE DEF free
  <2> QED BY <1>1, <2>1, MinIsLeast
<1> HIDE DEF free
<1>4. SegmentOK(g)
  <2>1. /\ DOMAIN g = {"step", "config", "copy", "index"} /\ g.step = "written"
        /\ g.copy = segment.copy /\ g.index = Min(free)
    BY <1>2 DEF SegmentOK
  <2> HIDE DEF g
  <2> QED BY <1>1, <1>2, <1>3, <2>1 DEF SegmentOK
<1> HIDE DEF g
<1>5. RoundOK(FirstRound)
  <2>1. /\ DOMAIN FirstRound = {"origin", "trials", "cost", "parent"}
        /\ FirstRound.origin = "search" /\ FirstRound.trials = 1 /\ FirstRound.cost = 0
    BY DEF FirstRound, NoRound
  <2> QED BY <2>1 DEF RoundOK
<1>6. FilesOK'
  BY <1>1, <1>2, <1>3, <1>4, <1>5 DEF FilesOK, DeskInv
<1> QED BY <1>1, <1>6, NoRequest

LEMMA NoSegmentOK == SegmentOK(NoSegment)
  BY DEF NoSegment, SegmentOK

LEMMA SaveSegmentOK ==
    ASSUME DeskInv, SaveSegment
    PROVE  DeskInv'
<1> DEFINE doc == [segment.copy EXCEPT !.trials = searched, !.rounds = Append(@, segment.index)]
<1>1. /\ DocumentOK(segment.copy) /\ segment.index \in Listed /\ searched \in Nat
      /\ session' = doc /\ segment' = NoSegment
      /\ UNCHANGED <<turn, conversation, round_files, searched, errand>>
  BY DEF SaveSegment, DeskInv, SegmentOK
<1>2. /\ DOMAIN doc = {"config", "trials", "rounds"} /\ doc.config = segment.copy.config
      /\ doc.trials = searched /\ doc.rounds = Append(segment.copy.rounds, segment.index)
  BY <1>1 DEF DocumentOK
<1> HIDE DEF doc
<1>3. DocumentOK(doc)
  <2>1. Append(segment.copy.rounds, segment.index) \in Seq(Listed)
    BY <1>1 DEF DocumentOK
  <2> QED BY <1>1, <1>2, <2>1 DEF DocumentOK
<1>4. FilesOK'
  BY <1>1, <1>3, NoSegmentOK DEF FilesOK, DeskInv
<1> QED BY <1>1, <1>4, NoRequest

LEMMA ExitDeskOK ==
    ASSUME DeskInv, ExitDesk
    PROVE  DeskInv'
<1> DEFINE r == [Resting EXCEPT !.step = "done"]
           e == [NoErrand EXCEPT !.step = "done"]
<1>1. TurnOK(r) /\ ~Talking(r)
  <2>1. /\ DOMAIN r = TurnFields /\ r.step = "done"
        /\ \A f \in TurnFields \ (Loose \cup {"step"}) : r[f] = Resting[f]
    BY DEF Resting, TurnFields, Loose
  <2> HIDE DEF r
  <2> QED BY <2>1, RestingOK, LooseOK DEF TurnSteps, Talking
<1>2. ErrandOK(e) /\ ErrandOK(NoErrand)
  BY NoErrandOK
<1>3. /\ turn' = [d \in Desks |-> IF turn[d].step = "idle" THEN turn[d] ELSE r]
      /\ errand' = [d \in Desks |-> IF Idle(d) THEN NoErrand ELSE e]
      /\ segment' = NoSegment /\ UNCHANGED <<conversation, session, round_files, searched>>
  BY DEF ExitDesk
<1> HIDE DEF r, e
<1>4. ASSUME NEW d \in Desks
      PROVE  TurnOK(turn'[d]) /\ ErrandOK(errand'[d]) /\ ~Talking(turn'[d])
  <2>1. (turn'[d] = turn[d] /\ turn[d].step = "idle") \/ turn'[d] = r
    BY <1>3
  <2>2. errand'[d] = NoErrand \/ errand'[d] = e
    BY <1>3
  <2> QED BY <1>1, <1>2, <2>1, <2>2 DEF DeskInv, Talking
<1>5. FilesOK'
  BY <1>3, NoSegmentOK DEF FilesOK, DeskInv
<1> QED BY <1>3, <1>4, <1>5 DEF DeskInv, FilesOK
LEMMA DeskStart ==
    ASSUME DeskInit
    PROVE  DeskInv
<1>1. /\ turn = [d \in Desks |-> Resting] /\ conversation = <<>>
      /\ session = [config |-> StartConfig, trials |-> 1, rounds |-> <<0>>]
      /\ round_files = [i \in Listed |-> IF i = 0 THEN FirstRound ELSE NoRound]
      /\ searched = 1 /\ errand = [d \in Desks |-> NoErrand] /\ segment = NoSegment
  BY DEF DeskInit, TurnInit, Listed
<1>2. DocumentOK(session)
  <2>1. <<0>> \in Seq(Listed)
    BY ListedFacts
  <2>2. ConfigOK(StartConfig)
    BY DeskAssumption DEF ConfigOK
  <2> QED BY <1>1, <2>1, <2>2 DEF DocumentOK
<1>3. RoundOK(FirstRound) /\ RoundOK(NoRound)
  <2>1. /\ DOMAIN FirstRound = {"origin", "trials", "cost", "parent"}
        /\ FirstRound.origin = "search" /\ FirstRound.trials = 1 /\ FirstRound.cost = 0
    BY DEF FirstRound, NoRound
  <2>2. /\ DOMAIN NoRound = {"origin", "trials", "cost", "parent"}
        /\ NoRound.origin = "none" /\ NoRound.trials = 0 /\ NoRound.cost = 0
    BY DEF NoRound
  <2> QED BY <2>1, <2>2 DEF RoundOK
<1>4. DOMAIN round_files = Listed /\ \A i \in Listed : RoundOK(round_files[i])
  BY <1>1, <1>3
<1>5. /\ DOMAIN turn = Desks /\ DOMAIN errand = Desks
      /\ \A d \in Desks : turn[d] = Resting /\ errand[d] = NoErrand
  BY <1>1
<1> QED BY <1>1, <1>2, <1>4, <1>5, RestingOK, NoErrandOK, NoSegmentOK, EmptyList DEF DeskInv

LEMMA ErrandStepOK ==
    ASSUME DeskInv, NEW d \in Desks, ErrandStep(d)
    PROVE  DeskInv'
  BY StartPromotionOK, ValidationFailsOK, FoldTrialsOK, SaveDocumentOK, CheckPatchOK,
     MarkAppliedOK DEF ErrandStep

(* The measurement of every settings that are, or are about to be, those of  *)
(* the session is one a user chose.                                          *)
Chosen(config) == Measurement(config) \in measured

ChosenInv ==
    /\ Chosen(session.config)
    /\ \A d \in Desks : errand[d].step = "written" => Chosen(errand[d].doc.config)
    /\ segment.step = "asked" => Chosen(segment.config)
    /\ segment.step \in {"claimed", "training", "written"} => Chosen(segment.copy.config)

(* One errand goes on with settings whose measurement was chosen.            *)
LEMMA ChosenErrand ==
    ASSUME DeskInv, ChosenInv, NEW d \in Desks, NEW e, errand' = [errand EXCEPT ![d] = e],
           e.step = "written" => Chosen(e.doc.config),
           UNCHANGED <<session, segment, measured>>
    PROVE  ChosenInv'
<1>1. ASSUME NEW x \in Desks, errand'[x].step = "written"
      PROVE  Measurement(errand'[x].doc.config) \in measured
  <2>1. errand'[x] = IF x = d THEN e ELSE errand[x]
    BY DEF DeskInv
  <2> QED BY <1>1, <2>1 DEF ChosenInv, Chosen
<1> QED BY <1>1 DEF ChosenInv, Chosen

LEMMA ChosenEnds ==
    ASSUME DeskInv, ChosenInv, NEW d \in Desks, Ends(d) \/ errand' = [errand EXCEPT ![d] = NoErrand],
           UNCHANGED <<session, segment, measured>>
    PROVE  ChosenInv'
<1> DEFINE e == [NoErrand EXCEPT !.step = "done"]
<1>1. e.step # "written" /\ NoErrand.step # "written"
  BY DEF NoErrand
<1>2. errand' = [errand EXCEPT ![d] = e] \/ errand' = [errand EXCEPT ![d] = NoErrand]
  BY DEF Ends
<1> HIDE DEF e
<1> QED BY <1>1, <1>2, ChosenErrand

(* The other parts leave the desk alone.                                     *)
LEMMA DeskKept ==
    ASSUME DeskInv, [Next]_researchVars
    PROVE  DeskInv'
<1>1. ASSUME UNCHANGED deskVars PROVE DeskInv'
  <2>1. UNCHANGED <<turn, conversation, session, round_files, searched, errand, segment>>
    BY <1>1 DEF deskVars
  <2> QED BY <2>1 DEF DeskInv
<1>2. ASSUME NEW d \in Desks, DeskRequest(d) PROVE DeskInv'
  <2>1. CASE AskMessage(d)
    BY <2>1, AskMessageOK
  <2>2. CASE \E p \in Proposals(conversation) : PlanPromotion(d, p.id) \/ AskPatch(d, p.id)
    BY <2>2, PlanOK
  <2> QED BY <1>2, <2>1, <2>2 DEF DeskRequest
<1>3. ASSUME NEW d \in Desks, DeskStep(d) PROVE DeskInv'
  <2>1. StartMessage(d) \/ SaveMessage(d) \/ ErrandStep(d) \/ MessageStep(d) \/ SaveDocument(d)
    BY <1>3 DEF DeskStep
  <2> QED BY <2>1, StartMessageOK, SaveMessageOK, ErrandStepOK, MessageStepOK, SaveDocumentOK
<1>4. ASSUME SegmentStep PROVE DeskInv'
  <2>1. \/ \E change \in budget.settings : AskContinue(change)
        \/ ClaimSession \/ SaveSettings \/ BeginSegment \/ WriteSegment \/ SaveSegment
        \/ ClearConversation \/ ExitDesk
    BY <1>4 DEF SegmentStep
  <2> QED BY <2>1, AskContinueOK, ClaimSessionOK, SaveSettingsOK, BeginSegmentOK,
             WriteSegmentOK, SaveSegmentOK, ClearConversationOK, ExitDeskOK
<1>5. ASSUME SearchRequest \/ GenerationStep \/ TunerStep \/ EvidenceRequest \/ EvidenceStep
             \/ UNCHANGED researchVars
      PROVE  UNCHANGED deskVars
  BY <1>5 DEF SearchRequest, GenerationStep, TunerStep, EvidenceRequest, EvidenceStep,
     SearchAlone, TunerAlone, ValidationAlone, researchVars
<1> QED BY <1>1, <1>2, <1>3, <1>4, <1>5 DEF Next

LEMMA ChosenMessage ==
    ASSUME DeskInv, ChosenInv, NEW d \in Desks,
           AskMessage(d) \/ StartMessage(d) \/ MessageStep(d) \/ SaveMessage(d)
    PROVE  ChosenInv'
<1>1. ASSUME UNCHANGED <<session, segment, errand, measured>> PROVE ChosenInv'
  BY <1>1 DEF ChosenInv, Chosen
<1>2. CASE AskMessage(d) \/ MessageStep(d)
  BY <1>1, <1>2 DEF AskMessage, MessageStep
<1>3. CASE StartMessage(d)
  <2> DEFINE e == [errand[d] EXCEPT !.thread = conversation]
  <2>1. errand' = [errand EXCEPT ![d] = e] /\ UNCHANGED <<session, segment, measured>>
    BY <1>3 DEF StartMessage
  <2>2. errand[d].step = "idle" /\ DOMAIN errand[d] = ErrandFields
    BY <1>3 DEF DeskInv, ErrandOK, StartMessage, StartTurn, Talking
  <2>3. e.step = "idle"
    BY <2>2 DEF ErrandFields
  <2> HIDE DEF e
  <2> QED BY <2>1, <2>3, ChosenErrand
<1>4. CASE SaveMessage(d)
  BY <1>4, ChosenEnds DEF SaveMessage
<1> QED BY <1>2, <1>3, <1>4

LEMMA ChosenPlan ==
    ASSUME DeskInv, ChosenInv, NEW d \in Desks, NEW id, PlanPromotion(d, id) \/ AskPatch(d, id)
    PROVE  ChosenInv'
<1>1. CASE PlanPromotion(d, id)
  <2> DEFINE e == [NoErrand EXCEPT !.step = "planned", !.id = id]
  <2>1. errand' = [errand EXCEPT ![d] = e] /\ UNCHANGED <<session, segment, measured>>
    BY <1>1 DEF PlanPromotion
  <2>2. DOMAIN e = ErrandFields /\ e.step = "planned"
    BY DEF NoErrand, ErrandFields
  <2> HIDE DEF e
  <2> QED BY <2>1, <2>2, ChosenErrand
<1>2. CASE AskPatch(d, id)
  <2> DEFINE e == [NoErrand EXCEPT !.step = "found", !.kind = "config", !.id = id,
                                   !.thread = conversation]
  <2>1. errand' = [errand EXCEPT ![d] = e] /\ UNCHANGED <<session, segment, measured>>
    BY <1>2 DEF AskPatch
  <2>2. DOMAIN e = ErrandFields /\ e.step = "found"
    BY DEF NoErrand, ErrandFields
  <2> HIDE DEF e
  <2> QED BY <2>1, <2>2, ChosenErrand
<1> QED BY <1>1, <1>2

LEMMA ChosenPromotion ==
    ASSUME DeskInv, ChosenInv, NEW d \in Desks,
           StartPromotion(d) \/ ValidationFails(d) \/ FoldTrials(d) \/ MarkApplied(d)
    PROVE  ChosenInv'
<1>1. CASE StartPromotion(d) /\ ~Ends(d)
  <2> DEFINE e == [errand[d] EXCEPT !.step = "validating", !.thread = conversation,
                                    !.parent = ParentRound]
  <2>1. errand' = [errand EXCEPT ![d] = e] /\ UNCHANGED <<session, segment, measured>>
    BY <1>1 DEF StartPromotion
  <2>2. DOMAIN errand[d] = ErrandFields
    BY DEF DeskInv, ErrandOK
  <2>3. e.step = "validating"
    BY <2>2 DEF ErrandFields
  <2> HIDE DEF e
  <2> QED BY <2>1, <2>3, ChosenErrand
<1>2. CASE FoldTrials(d)
  <2> DEFINE trials == TotalTrials(errand[d].thread)
             index == IF session.rounds = <<>> THEN 0 ELSE Max(Range(session.rounds)) + 1
             doc == [session EXCEPT !.trials = @ + trials, !.rounds = Append(@, index)]
             e == [errand[d] EXCEPT !.step = "written", !.index = index, !.doc = doc]
  <2>1. errand' = [errand EXCEPT ![d] = e] /\ UNCHANGED <<session, segment, measured>>
    BY <1>2 DEF FoldTrials
  <2>2. DOMAIN errand[d] = ErrandFields /\ DOMAIN session = {"config", "trials", "rounds"}
    BY DEF DeskInv, ErrandOK, DocumentOK
  <2> HIDE DEF trials, index
  <2>3. doc.config = session.config
    BY <2>2
  <2> HIDE DEF doc
  <2>4. e.doc = doc
    BY <2>2 DEF ErrandFields
  <2> HIDE DEF e
  <2> QED BY <2>1, <2>3, <2>4, ChosenErrand DEF ChosenInv
<1>3. CASE Ends(d) /\ (StartPromotion(d) \/ ValidationFails(d) \/ MarkApplied(d))
  <2>1. UNCHANGED <<session, segment, measured>>
    BY <1>3 DEF StartPromotion, ValidationFails, MarkApplied
  <2> QED BY <1>3, <2>1, ChosenEnds
<1> QED BY <1>1, <1>2, <1>3 DEF ValidationFails, MarkApplied

LEMMA ChosenSaved ==
    ASSUME DeskInv, ChosenInv, NEW d \in Desks, SaveDocument(d)
    PROVE  ChosenInv'
<1> DEFINE e == [errand[d] EXCEPT !.step = "saved"]
<1>1. /\ DOMAIN errand[d] = ErrandFields /\ DOMAIN errand = Desks
      /\ errand[d].step = "written" /\ session' = errand[d].doc
      /\ errand' = [errand EXCEPT ![d] = e] /\ UNCHANGED <<segment, measured>>
  BY DEF SaveDocument, DeskInv, ErrandOK
<1>2. e.step = "saved"
  BY <1>1 DEF ErrandFields
<1> HIDE DEF e
<1>3. ASSUME NEW x \in Desks, errand'[x].step = "written"
      PROVE  Measurement(errand'[x].doc.config) \in measured
  <2>1. errand'[x] = errand[x]
    BY <1>1, <1>2, <1>3
  <2> QED BY <1>3, <2>1 DEF ChosenInv, Chosen
<1>4. Measurement(session'.config) \in measured
  BY <1>1 DEF ChosenInv, Chosen
<1> QED BY <1>1, <1>3, <1>4 DEF ChosenInv, Chosen

LEMMA ChosenPatch ==
    ASSUME DeskInv, ChosenInv, NEW d \in Desks, CheckPatch(d)
    PROVE  ChosenInv'
<1> DEFINE patch == ProposalOf(errand[d].thread, errand[d].id).of
           doc == [session EXCEPT !.config = Merged(patch, session.config)]
           e == [errand[d] EXCEPT !.step = "written", !.doc = doc]
<1>1. UNCHANGED <<session, segment, measured>>
  BY DEF CheckPatch
<1>2. CASE PatchAccepted(patch, session.config)
  <2>1. errand' = [errand EXCEPT ![d] = e]
    BY <1>2 DEF CheckPatch
  <2>2. /\ ConfigOK(session.config) /\ DOMAIN session = {"config", "trials", "rounds"}
        /\ DOMAIN errand[d] = ErrandFields
    BY DEF DeskInv, DocumentOK, ErrandOK
  <2>3. Measurement(Merged(patch, session.config)) = Measurement(session.config)
    BY <1>2, <2>2, MergedOK
  <2> HIDE DEF patch
  <2>4. doc.config = Merged(patch, session.config)
    BY <2>2
  <2> HIDE DEF doc
  <2>5. e.doc = doc
    BY <2>2 DEF ErrandFields
  <2> HIDE DEF e
  <2>6. Chosen(e.doc.config)
    BY <2>3, <2>4, <2>5 DEF ChosenInv, Chosen
  <2> QED BY <1>1, <2>1, <2>6, ChosenErrand
<1>3. CASE ~PatchAccepted(patch, session.config)
  <2>1. Ends(d)
    BY <1>3 DEF CheckPatch
  <2> QED BY <1>1, <2>1, ChosenEnds
<1> QED BY <1>2, <1>3

(* What a segment's steps leave.                                             *)
LEMMA ChosenStep ==
    ASSUME ChosenInv, UNCHANGED errand, measured \subseteq measured',
           Measurement(session'.config) \in measured',
           segment'.step = "asked" => Measurement(segment'.config) \in measured',
           segment'.step \in {"claimed", "training", "written"}
               => Measurement(segment'.copy.config) \in measured'
    PROVE  ChosenInv'
  BY DEF ChosenInv, Chosen

LEMMA ChosenContinue ==
    ASSUME ChosenInv, NEW change, AskContinue(change)
    PROVE  ChosenInv'
<1> DEFINE config == Merged(change, session.config)
           g == [NoSegment EXCEPT !.step = "asked", !.config = config]
<1>1. /\ segment' = g /\ measured' = measured \cup {Measurement(config)}
      /\ UNCHANGED <<session, errand>>
  BY DEF AskContinue
<1> HIDE DEF config
<1>2. DOMAIN g = {"step", "config", "copy", "index"} /\ g.step = "asked" /\ g.config = config
  BY DEF NoSegment
<1> HIDE DEF g
<1>3. Measurement(session.config) \in measured
  BY DEF ChosenInv, Chosen
<1> QED BY <1>1, <1>2, <1>3, ChosenStep

LEMMA ChosenSegment ==
    ASSUME DeskInv, ChosenInv,
           ClaimSession \/ SaveSettings \/ BeginSegment \/ WriteSegment \/ SaveSegment
    PROVE  ChosenInv'
<1>0. /\ DOMAIN segment = {"step", "config", "copy", "index"}
      /\ DOMAIN session = {"config", "trials", "rounds"}
      /\ Measurement(session.config) \in measured
  BY DEF DeskInv, SegmentOK, DocumentOK, ChosenInv, Chosen
<1>1. CASE ClaimSession
  <2> DEFINE copy == [session EXCEPT !.config = segment.config]
  <2>1. /\ segment.step = "asked" /\ UNCHANGED <<session, errand, measured>>
        /\ segment' = [segment EXCEPT !.step = "claimed", !.copy = copy]
    BY <1>1 DEF ClaimSession
  <2>2. copy.config = segment.config
    BY <1>0
  <2> HIDE DEF copy
  <2>3. segment'.step = "claimed" /\ segment'.copy = copy
    BY <1>0, <2>1
  <2>4. Measurement(segment.config) \in measured
    BY <2>1 DEF ChosenInv, Chosen
  <2> QED BY <1>0, <2>1, <2>2, <2>3, <2>4, ChosenStep
<1>2. CASE SaveSettings
  <2>1. /\ segment.step = "claimed" /\ session' = segment.copy
        /\ segment' = [segment EXCEPT !.step = "queued", !.copy = <<>>]
        /\ UNCHANGED <<errand, measured>>
    BY <1>2 DEF SaveSettings
  <2>2. segment'.step = "queued"
    BY <1>0, <2>1
  <2>3. Measurement(segment.copy.config) \in measured
    BY <2>1 DEF ChosenInv, Chosen
  <2> QED BY <2>1, <2>2, <2>3, ChosenStep
<1>3. CASE BeginSegment
  <2>1. /\ segment' = [segment EXCEPT !.step = "training", !.copy = session]
        /\ UNCHANGED <<session, errand, measured>>
    BY <1>3 DEF BeginSegment
  <2>2. segment'.step = "training" /\ segment'.copy = session
    BY <1>0, <2>1
  <2> QED BY <1>0, <2>1, <2>2, ChosenStep
<1>4. CASE WriteSegment
  <2> DEFINE index == Min({i \in DOMAIN round_files :
                             i >= Len(segment.copy.rounds) /\ round_files[i] = NoRound})
  <2>1. /\ segment.step = "training"
        /\ segment' = [segment EXCEPT !.step = "written", !.index = index]
        /\ UNCHANGED <<session, errand, measured>>
    BY <1>4 DEF WriteSegment
  <2> HIDE DEF index
  <2>2. segment'.step = "written" /\ segment'.copy = segment.copy
    BY <1>0, <2>1
  <2>3. Measurement(segment.copy.config) \in measured
    BY <2>1 DEF ChosenInv, Chosen
  <2> QED BY <1>0, <2>1, <2>2, <2>3, ChosenStep
<1>5. CASE SaveSegment
  <2> DEFINE doc == [segment.copy EXCEPT !.trials = searched,
                                         !.rounds = Append(@, segment.index)]
  <2>1. /\ segment.step = "written" /\ session' = doc
        /\ segment' = NoSegment /\ UNCHANGED <<errand, measured>>
    BY <1>5 DEF SaveSegment
  <2>2. DOMAIN segment.copy = {"config", "trials", "rounds"}
    BY <2>1 DEF DeskInv, SegmentOK, DocumentOK
  <2>3. doc.config = segment.copy.config
    BY <2>2
  <2> HIDE DEF doc
  <2>4. Measurement(segment.copy.config) \in measured
    BY <2>1 DEF ChosenInv, Chosen
  <2>5. NoSegment.step = "idle"
    BY DEF NoSegment
  <2> QED BY <2>1, <2>3, <2>4, <2>5, ChosenStep
<1> QED BY <1>1, <1>2, <1>3, <1>4, <1>5

LEMMA ChosenUpset ==
    ASSUME DeskInv, ChosenInv, ClearConversation \/ ExitDesk
    PROVE  ChosenInv'
<1>1. CASE ClearConversation
  BY <1>1 DEF ClearConversation, ChosenInv, Chosen
<1>2. CASE ExitDesk
  <2>1. /\ errand' = [d \in Desks |-> IF Idle(d) THEN NoErrand
                                      ELSE [NoErrand EXCEPT !.step = "done"]]
        /\ segment' = NoSegment /\ UNCHANGED <<session, measured>>
    BY <1>2 DEF ExitDesk
  <2>2. \A d \in Desks : errand'[d].step \in {"idle", "done"}
    BY <2>1 DEF NoErrand
  <2>3. segment'.step = "idle"
    BY <2>1 DEF NoSegment
  <2> QED BY <2>1, <2>2, <2>3 DEF ChosenInv, Chosen
<1> QED BY <1>1, <1>2

LEMMA ChosenKept ==
    ASSUME DeskInv, ChosenInv, [Next]_researchVars
    PROVE  ChosenInv'
<1>1. ASSUME UNCHANGED deskVars PROVE ChosenInv'
  BY <1>1 DEF deskVars, ChosenInv, Chosen
<1>2. ASSUME NEW d \in Desks, DeskRequest(d) PROVE ChosenInv'
  BY <1>2, ChosenMessage, ChosenPlan DEF DeskRequest
<1>3. ASSUME NEW d \in Desks, DeskStep(d) PROVE ChosenInv'
  <2>1. StartMessage(d) \/ SaveMessage(d) \/ ErrandStep(d) \/ MessageStep(d) \/ SaveDocument(d)
    BY <1>3 DEF DeskStep
  <2> QED BY <2>1, ChosenMessage, ChosenPromotion, ChosenSaved, ChosenPatch DEF ErrandStep
<1>4. ASSUME SegmentStep PROVE ChosenInv'
  BY <1>4, ChosenContinue, ChosenSegment, ChosenUpset DEF SegmentStep
<1>5. ASSUME SearchRequest \/ GenerationStep \/ TunerStep \/ EvidenceRequest \/ EvidenceStep
             \/ UNCHANGED researchVars
      PROVE  UNCHANGED deskVars
  BY <1>5 DEF SearchRequest, GenerationStep, TunerStep, EvidenceRequest, EvidenceStep,
     SearchAlone, TunerAlone, ValidationAlone, researchVars
<1> QED BY <1>1, <1>2, <1>3, <1>4, <1>5 DEF Next

-----------------------------------------------------------------------------
(* What holds of the desk.                                                   *)

(* The desk's requests, documents and budgets are always of their kinds.     *)
LEMMA DeskTyped ==
    ASSUME DeskInv
    PROVE  DeskTypeOK
<1>1. TurnsTypeOK
  BY DEF TurnsTypeOK, DeskInv, TurnOK, TurnSteps
<1>2. DOMAIN session.config = Settings /\ session.trials \in Nat /\ searched \in Nat
  BY DEF DeskInv, DocumentOK, ConfigOK
<1>3. Range(session.rounds) \subseteq DOMAIN round_files
  <2>1. session.rounds \in Seq(Listed) /\ DOMAIN round_files = Listed
    BY DEF DeskInv, DocumentOK
  <2>2. \A i \in DOMAIN session.rounds : session.rounds[i] \in Listed
    BY <2>1
  <2> QED BY <2>1, <2>2 DEF Range
<1> QED BY <1>1, <1>2, <1>3 DEF DeskTypeOK, DeskInv, ErrandOK, ErrandSteps, SegmentOK

LEMMA PatchesLegal ==
    ASSUME DeskInv, ChosenInv
    PROVE  PatchesStayLegal
  BY DEF DeskInv, DocumentOK, ConfigOK, ChosenInv, Chosen, PatchesStayLegal

LEMMA RoundsCarry ==
    ASSUME DeskInv
    PROVE  RoundsCarryTheirSearch
  BY DEF DeskInv, RoundOK, RoundsCarryTheirSearch

LEMMA DeskInvariant == Spec => []DeskInv
<1>1. Init => DeskInv
  BY DeskStart DEF Init
<1>2. DeskInv /\ [Next]_researchVars => DeskInv'
  BY DeskKept
<1> QED BY <1>1, <1>2, PTL DEF Spec

(* The desk of the agent keeps its types: budgets of an exchange are never   *)
(* overspent, every score and proposal has a call of its own, and every      *)
(* round the session lists has a place for its file (agent/turn.py).         *)
THEOREM DeskTypesCorrect == Spec => []DeskTypeOK
<1>1. DeskInv => DeskTypeOK
  BY DeskTyped
<1> QED BY <1>1, DeskInvariant, PTL

(* Every measurement in sight was chosen by a user.                          *)
LEMMA ChosenInvariant == Spec => []ChosenInv
<1>1. Init => ChosenInv
  BY DEF Init, DeskInit, ChosenInv, Chosen, NoErrand, NoSegment
<1>2. DeskInv /\ ChosenInv /\ [Next]_researchVars => ChosenInv'
  BY ChosenKept
<1> QED BY <1>1, <1>2, DeskInvariant, PTL DEF Spec

(* Whatever is staged, applied, interrupted, and overwritten by a continue   *)
(* or a segment, the settings in session.json are ones a search accepts and  *)
(* the embargo covers, with the execution of the start, and what defines the *)
(* measurement is what a user chose (service.py 237, guards.py 275-297).     *)
THEOREM PatchesCorrect == Spec => []PatchesStayLegal
<1>1. DeskInv /\ ChosenInv => PatchesStayLegal
  BY PatchesLegal
<1> QED BY <1>1, DeskInvariant, ChosenInvariant, PTL

(* A round the agent wrote carries at least the evaluations whose scores the *)
(* model saw in the exchange that staged it (promote.py 16-21).              *)
THEOREM PromotionsCorrect == Spec => []RoundsCarryTheirSearch
<1>1. DeskInv => RoundsCarryTheirSearch
  BY RoundsCarry
<1> QED BY <1>1, DeskInvariant, PTL
-----------------------------------------------------------------------------
(* The evidence: what a report is made from.                                 *)

(* Pairs and Judged, of the round and the boundary they read.                *)
PairsOf(trials, plan) ==
    [k \in 1 .. Len(trials) * Len(plan) |->
        <<trials[(k - 1) \div Len(plan) + 1], plan[((k - 1) % Len(plan)) + 1]>>]

JudgedOf(entry, start, context, taken) ==
    LET plan == context.plan
        best == IndexFirstSubSeq(<<<<entry.best, plan[1]>>>>, PairsOf(entry.trials, plan))
        trials == entry.searched * Palette * Len(plan)
        pbo == Overfitting(taken)
    IN  [trials |-> trials, pbo |-> pbo,
         significant |-> /\ entry.validated /\ pbo # Nothing
                         /\ 2 * pbo[1] < pbo[2]
                         /\ Healthy(entry, plan[1], start .. context.market.days,
                                    context.market)
                         /\ Genuine(taken[best], trials, taken) > 95]

FreshOf(trials, context) ==
    [k \in DOMAIN PairsOf(trials, context.plan) |->
        Summary(PairsOf(trials, context.plan)[k], context)]

(* A summary is filed under its own pair, or known not to be one.            *)
EntriesOK(entries, context) ==
    \A pair \in DOMAIN entries :
        entries[pair] = Damaged \/ entries[pair] = Summary(pair, context)

ReportFields == {"step", "round", "context", "entries", "taken", "stop"}

(* What the report has taken is what it would take again, in its order.      *)
ReportOK(r, trials) ==
    LET pairs == PairsOf(trials, r.context.plan)
    IN  /\ DOMAIN r = ReportFields
        /\ r.step \in {"combining", "streaming", "combined"}
        /\ r.context.plan \in Plans
        /\ EntriesOK(r.entries, r.context)
        /\ IsList(r.taken) /\ Len(r.taken) <= Len(pairs)
        /\ \A k \in DOMAIN r.taken :
              \/ r.taken[k] = Summary(pairs[k], r.context)
              \/ (r.taken[k] = Damaged /\ r.step = "combining")
        /\ r.step = "combined" => Len(r.taken) = Len(pairs)

VerdictOK(v, entry, start) ==
    /\ v.context.plan \in Plans
    /\ v.result = JudgedOf(entry, start, v.context, FreshOf(entry.trials, v.context))

EvidenceInv ==
    /\ IsList(judged_rounds)
    /\ \A r \in DOMAIN judged_rounds : IsList(judged_rounds[r].trials)
    /\ judged_rounds # <<>> => frozen # Nothing
    /\ report # NoReport =>
          /\ report.round \in DOMAIN judged_rounds
          /\ ReportOK(report, judged_rounds[report.round].trials)
    /\ report_stats # Nothing =>
          /\ DOMAIN report_stats = {"context", "entries"}
          /\ EntriesOK(report_stats.entries, report_stats.context)
    /\ verdict # Nothing =>
          /\ verdict.round \in DOMAIN judged_rounds
          /\ VerdictOK(verdict, judged_rounds[verdict.round], frozen.test_start)

LEMMA PairsAre ==
    ASSUME NEW r, NEW plan
    PROVE  Pairs(r, plan) = PairsOf(judged_rounds[r].trials, plan)
  BY DEF Pairs, PairsOf

LEMMA JudgedIs ==
    ASSUME NEW r, NEW context, NEW taken
    PROVE  Judged(r, context, taken)
             = JudgedOf(judged_rounds[r], frozen.test_start, context, taken)
  BY DEF Judged, JudgedOf, Holdout, Pairs, PairsOf

LEMMA PairsFacts ==
    ASSUME NEW trials, IsList(trials), NEW plan \in Plans
    PROVE  /\ IsList(PairsOf(trials, plan)) /\ Len(PairsOf(trials, plan)) \in Nat
           /\ DOMAIN PairsOf(trials, plan) = 1 .. Len(PairsOf(trials, plan))
<1> DEFINE n == Len(trials) * Len(plan)
           pairs == PairsOf(trials, plan)
<1>1. n \in Nat
  <2>1. Len(trials) \in Nat
    BY DEF IsList
  <2>2. Len(plan) \in Nat
    BY ValidationAssumption
  <2> QED BY <2>1, <2>2
<1>2. pairs = [k \in 1 .. n |-> pairs[k]]
  BY DEF PairsOf
<1> HIDE DEF n, pairs
<1>3. IsList(pairs) /\ DOMAIN pairs = 1 .. n
  BY <1>1, <1>2, ListOfDomain
<1>4. Len(pairs) \in Nat /\ DOMAIN pairs = 1 .. Len(pairs)
  BY <1>3 DEF IsList
<1> QED BY <1>3, <1>4 DEF pairs

LEMMA DamagedIsNone ==
    ASSUME NEW pair, NEW context
    PROVE  Damaged # Summary(pair, context)
<1>1. DOMAIN Damaged = {"of"} /\ "run" \in DOMAIN Summary(pair, context)
  BY DEF Damaged, Summary
<1>2. "run" \notin {"of"}
  OBVIOUS
<1> QED BY <1>1, <1>2

(* A report that has taken everything holds what a fresh one would.          *)
LEMMA TakenIsFresh ==
    ASSUME NEW r, NEW trials, IsList(trials), ReportOK(r, trials), r.step = "combined"
    PROVE  r.taken = FreshOf(trials, r.context)
<1> DEFINE pairs == PairsOf(trials, r.context.plan)
           fresh == FreshOf(trials, r.context)
<1>1. /\ IsList(r.taken) /\ Len(r.taken) = Len(pairs)
      /\ \A k \in DOMAIN r.taken : r.taken[k] = Summary(pairs[k], r.context)
      /\ r.context.plan \in Plans
  BY DEF ReportOK
<1>2. DOMAIN pairs = 1 .. Len(pairs)
  BY <1>1, PairsFacts
<1>3. DOMAIN r.taken = 1 .. Len(r.taken) /\ r.taken = [k \in DOMAIN r.taken |-> r.taken[k]]
  BY <1>1 DEF IsList
<1>4. fresh = [k \in DOMAIN pairs |-> Summary(pairs[k], r.context)]
  BY DEF FreshOf
<1> HIDE DEF pairs, fresh
<1>5. r.taken = fresh
  BY <1>1, <1>2, <1>3, <1>4
<1> QED BY <1>5 DEF fresh
-----------------------------------------------------------------------------
(* The evidence's steps.                                                     *)

LEMMA EvidenceStart ==
    ASSUME ValidationInit
    PROVE  EvidenceInv
  BY EmptyList DEF ValidationInit, EvidenceInv, Nothing

LEMMA CreateSessionOK ==
    ASSUME EvidenceInv, NEW choice, NEW run, CreateSession(choice, run)
    PROVE  EvidenceInv'
<1>1. /\ judged_rounds = <<>> /\ UNCHANGED <<judged_rounds, report, report_stats, verdict>>
  BY DEF CreateSession, evidence, EvidenceInv
<1>2. DOMAIN judged_rounds = {}
  BY <1>1
<1> QED BY <1>1, <1>2 DEF EvidenceInv

LEMMA SyncPricesKeeps ==
    ASSUME EvidenceInv, UNCHANGED <<frozen, judged_rounds, report, report_stats, verdict>>
    PROVE  EvidenceInv'
  BY DEF EvidenceInv

(* Each expansion of a pool is a trial of the report once.                   *)
LEMMA TrialsAreListed ==
    ASSUME NEW pool \in Pools
    PROVE  IsList(ReportTrials(pool))
<1> DEFINE n == Cardinality(Unique(pool))
           trials == ReportTrials(pool)
<1>1. n \in Nat
  <2>1. pool \in Seq(Range(pool))
    BY ValidationAssumption
  <2>2. DOMAIN pool = 1 .. Len(pool) /\ Len(pool) \in Nat
    BY <2>1
  <2>3. IsFiniteSet(DOMAIN pool)
    BY <2>2, FS_Interval
  <2>4. Unique(pool) \subseteq DOMAIN pool
    BY DEF Unique
  <2> QED BY <2>3, <2>4, FS_Subset, FS_CardinalityType
<1>2. trials = [k \in 1 .. n |-> trials[k]]
  BY DEF ReportTrials
<1> HIDE DEF n, trials
<1>3. IsList(trials)
  BY <1>1, <1>2, ListOfDomain
<1> QED BY <1>3 DEF trials

(* What a round was judged by, once it is there, stays.                      *)
LEMMA SelectRoundOK ==
    ASSUME EvidenceInv, NEW pool \in Pools, NEW run, SelectRound(pool, run)
    PROVE  EvidenceInv'
<1> DEFINE chosen == Selection(pool)
           entry == [best |-> chosen.best, polarity |-> chosen.polarity,
                     validated |-> chosen.validated, run |-> run, market |-> market,
                     trials |-> ReportTrials(pool), searched |-> Len(pool)]
           n == Len(judged_rounds)
<1>1. /\ judged_rounds' = Append(judged_rounds, entry) /\ frozen # Nothing
      /\ UNCHANGED <<frozen, report, report_stats, verdict>>
  BY DEF SelectRound, evidence
<1>2. IsList(judged_rounds) /\ n \in Nat /\ DOMAIN judged_rounds = 1 .. n
  BY DEF EvidenceInv, IsList
<1>3. entry.trials = ReportTrials(pool)
  OBVIOUS
<1>4. IsList(entry.trials)
  BY <1>3, TrialsAreListed
<1> HIDE DEF entry
<1>5. /\ IsList(judged_rounds') /\ DOMAIN judged_rounds' = 1 .. n + 1
      /\ judged_rounds'[n + 1] = entry
      /\ \A i \in 1 .. n : judged_rounds'[i] = judged_rounds[i]
  BY <1>1, <1>2, Appended
<1> HIDE DEF n
<1>6. ASSUME NEW r \in DOMAIN judged_rounds' PROVE IsList(judged_rounds'[r].trials)
  <2>1. CASE r = n + 1
    BY <1>4, <1>5, <2>1
  <2>2. CASE r # n + 1
    <3>1. r \in 1 .. n
      BY <1>2, <1>5, <2>2
    <3> QED BY <1>2, <1>5, <3>1 DEF EvidenceInv
  <2> QED BY <2>1, <2>2
<1>7. \A i \in 1 .. n : i \in DOMAIN judged_rounds'
  BY <1>2, <1>5
<1> QED BY <1>1, <1>2, <1>5, <1>6, <1>7 DEF EvidenceInv

LEMMA StartReportOK ==
    ASSUME EvidenceInv, NEW r \in DOMAIN judged_rounds, NEW plan \in Plans, StartReport(r, plan)
    PROVE  EvidenceInv'
<1> DEFINE context == Context(r, plan)
           entries == LoadSummaries(context)
           next == [step |-> "combining", round |-> r, context |-> context,
                    entries |-> entries, taken |-> <<>>, stop |-> FALSE]
           trials == judged_rounds[r].trials
<1>1. report' = next /\ UNCHANGED <<frozen, judged_rounds, report_stats, verdict>>
  BY DEF StartReport
<1>2. context.plan = plan
  BY DEF Context
<1> HIDE DEF context
<1>3. EntriesOK(entries, context)
  <2>1. CASE report_stats # Nothing /\ report_stats.context = context
    BY <2>1 DEF EvidenceInv, LoadSummaries
  <2>2. CASE ~(report_stats # Nothing /\ report_stats.context = context)
    <3>1. entries = <<>>
      BY <2>2 DEF LoadSummaries, Nothing
    <3>2. DOMAIN entries = {}
      BY <3>1
    <3> QED BY <3>2 DEF EntriesOK
  <2> QED BY <2>1, <2>2
<1> HIDE DEF entries
<1>4. ReportOK(next, trials)
  <2>1. /\ DOMAIN next = ReportFields /\ next.step = "combining" /\ next.context = context
        /\ next.entries = entries /\ next.taken = <<>> /\ next.round = r
    BY DEF ReportFields
  <2>2. Len(PairsOf(trials, plan)) \in Nat
    BY PairsFacts DEF EvidenceInv
  <2>3. Len(next.taken) = 0 /\ DOMAIN next.taken = {} /\ IsList(next.taken)
    BY <2>1, EmptyList
  <2> HIDE DEF next
  <2> QED BY <1>2, <1>3, <2>1, <2>2, <2>3 DEF ReportOK
<1>5. next.round = r
  OBVIOUS
<1> HIDE DEF next
<1> QED BY <1>1, <1>4, <1>5 DEF EvidenceInv

(* A report under way changes: its round, its context and its pairs do not.  *)
LEMMA ReportGoesOn ==
    ASSUME EvidenceInv, report # NoReport, NEW next, report' = next, next.round = report.round,
           ReportOK(next, judged_rounds[report.round].trials),
           UNCHANGED <<frozen, judged_rounds, report_stats, verdict>>
    PROVE  EvidenceInv'
  BY DEF EvidenceInv

LEMMA NoReportFacts ==
    ASSUME EvidenceInv, report.step # "idle"
    PROVE  /\ report # NoReport /\ report.round \in DOMAIN judged_rounds
           /\ ReportOK(report, judged_rounds[report.round].trials)
           /\ IsList(judged_rounds[report.round].trials)
           /\ ReportPairs = PairsOf(judged_rounds[report.round].trials, report.context.plan)
<1>1. report # NoReport
  BY DEF NoReport
<1>2. ReportPairs = PairsOf(judged_rounds[report.round].trials, report.context.plan)
  BY PairsAre DEF ReportPairs
<1> QED BY <1>1, <1>2 DEF EvidenceInv

LEMMA StopReportOK ==
    ASSUME EvidenceInv, StopReport
    PROVE  EvidenceInv'
<1> DEFINE next == [report EXCEPT !.stop = TRUE]
           trials == judged_rounds[report.round].trials
<1>1. /\ report.step # "idle" /\ report' = next
      /\ UNCHANGED <<frozen, judged_rounds, report_stats, verdict>>
  BY DEF StopReport
<1>2. report # NoReport /\ ReportOK(report, trials)
  BY <1>1, NoReportFacts
<1>3. /\ DOMAIN next = ReportFields
      /\ \A f \in ReportFields \ {"stop"} : next[f] = report[f]
  BY <1>2 DEF ReportOK
<1> HIDE DEF next
<1>4. /\ next.step = report.step /\ next.context = report.context /\ next.round = report.round
      /\ next.entries = report.entries /\ next.taken = report.taken
  BY <1>3 DEF ReportFields
<1>5. ReportOK(next, trials)
  BY <1>2, <1>3, <1>4 DEF ReportOK
<1> QED BY <1>1, <1>2, <1>4, <1>5, ReportGoesOn

(* One summary more, at the end of those that were taken.                    *)
LEMMA TakenMore ==
    ASSUME NEW r, NEW trials, ReportOK(r, trials), IsList(trials),
           NEW pairs, pairs = PairsOf(trials, r.context.plan),
           Len(r.taken) < Len(pairs), r.step \in {"combining", "streaming"},
           NEW next, DOMAIN next = ReportFields, next.step = r.step, next.context = r.context,
           NEW summary, next.taken = Append(r.taken, summary),
           \/ summary = Summary(pairs[Len(r.taken) + 1], r.context)
           \/ (summary = Damaged /\ r.step = "combining"),
           EntriesOK(next.entries, r.context)
    PROVE  ReportOK(next, trials)
<1> DEFINE n == Len(r.taken)
<1>1. IsList(r.taken) /\ n \in Nat /\ Len(pairs) \in Nat /\ r.context.plan \in Plans
  <2>1. IsList(r.taken) /\ r.context.plan \in Plans
    BY DEF ReportOK
  <2>2. Len(pairs) \in Nat
    BY <2>1, PairsFacts
  <2> QED BY <2>1, <2>2 DEF IsList
<1>2. /\ IsList(next.taken) /\ Len(next.taken) = n + 1 /\ DOMAIN next.taken = 1 .. n + 1
      /\ next.taken[n + 1] = summary
      /\ \A k \in 1 .. n : next.taken[k] = r.taken[k]
  BY <1>1, Appended
<1>3. DOMAIN r.taken = 1 .. n
  BY <1>1 DEF IsList
<1> HIDE DEF n
<1>4. ASSUME NEW k \in 1 .. n + 1
      PROVE  \/ next.taken[k] = Summary(pairs[k], r.context)
             \/ (next.taken[k] = Damaged /\ r.step = "combining")
  <2>1. CASE k = n + 1
    BY <1>2, <2>1 DEF n
  <2>2. CASE k # n + 1
    <3>1. k \in 1 .. n
      BY <1>1, <2>2
    <3> QED BY <1>2, <1>3, <3>1 DEF ReportOK
  <2> QED BY <2>1, <2>2
<1>5. Len(next.taken) <= Len(pairs)
  BY <1>1, <1>2 DEF n
<1> QED BY <1>1, <1>2, <1>4, <1>5 DEF ReportOK

LEMMA TakeSummaryOK ==
    ASSUME EvidenceInv, TakeSummary
    PROVE  EvidenceInv'
<1> DEFINE trials == judged_rounds[report.round].trials
           pairs == PairsOf(trials, report.context.plan)
           pair == pairs[Len(report.taken) + 1]
           summary == IF pair \in DOMAIN report.entries THEN report.entries[pair]
                      ELSE Summary(pair, report.context)
           more == Filed(report.entries, pair, summary)
           next == [report EXCEPT !.taken = Append(@, summary), !.entries = more]
<1>0. report.step # "idle"
  BY DEF TakeSummary
<1>1. /\ report # NoReport /\ ReportOK(report, trials) /\ IsList(trials)
      /\ ReportPairs = pairs
  BY <1>0, NoReportFacts
<1>2. /\ report.step = "combining" /\ Len(report.taken) < Len(pairs)
      /\ report' = next /\ UNCHANGED <<frozen, judged_rounds, report_stats, verdict>>
  BY <1>1 DEF TakeSummary
<1> HIDE DEF pairs, pair
<1>3. summary = Damaged \/ summary = Summary(pair, report.context)
  BY <1>1 DEF ReportOK, EntriesOK
<1> HIDE DEF summary
<1>4. EntriesOK(more, report.context)
  <2>1. /\ DOMAIN more = {pair} \cup DOMAIN report.entries /\ more[pair] = summary
        /\ \A p \in DOMAIN report.entries : p # pair => more[p] = report.entries[p]
    BY DEF Filed
  <2> HIDE DEF more
  <2> QED BY <1>1, <1>3, <2>1 DEF ReportOK, EntriesOK
<1> HIDE DEF more
<1>5. /\ DOMAIN next = ReportFields /\ next.step = report.step /\ next.context = report.context
      /\ next.round = report.round /\ next.taken = Append(report.taken, summary)
      /\ next.entries = more
  BY <1>1 DEF ReportOK, ReportFields
<1> HIDE DEF next
<1>6. ReportOK(next, trials)
  BY <1>1, <1>2, <1>3, <1>4, <1>5, TakenMore DEF pairs, pair
<1> QED BY <1>1, <1>2, <1>5, <1>6, ReportGoesOn
LEMMA CombineSummariesOK ==
    ASSUME EvidenceInv, CombineSummaries
    PROVE  EvidenceInv'
<1> DEFINE trials == judged_rounds[report.round].trials
           pairs == PairsOf(trials, report.context.plan)
           again == [report EXCEPT !.step = "streaming", !.taken = <<>>]
           over == [report EXCEPT !.step = "combined"]
<1>0. report.step # "idle"
  BY DEF CombineSummaries
<1>1. /\ report # NoReport /\ ReportOK(report, trials) /\ IsList(trials)
      /\ ReportPairs = pairs
  BY <1>0, NoReportFacts
<1>2. UNCHANGED <<frozen, judged_rounds, report_stats, verdict>>
  BY DEF CombineSummaries
<1>3. CASE Damaged \in Range(report.taken)
  <2>1. report' = again
    BY <1>3 DEF CombineSummaries
  <2>2. /\ DOMAIN again = ReportFields /\ again.step = "streaming" /\ again.taken = <<>>
        /\ again.context = report.context /\ again.entries = report.entries
        /\ again.round = report.round
    BY <1>1 DEF ReportOK, ReportFields
  <2> HIDE DEF again
  <2>3. Len(pairs) \in Nat
    BY <1>1, PairsFacts DEF ReportOK
  <2>4. Len(again.taken) = 0 /\ DOMAIN again.taken = {} /\ IsList(again.taken)
    BY <2>2, EmptyList
  <2>5. ReportOK(again, trials)
    BY <1>1, <2>2, <2>3, <2>4 DEF ReportOK
  <2> QED BY <1>1, <1>2, <2>1, <2>2, <2>5, ReportGoesOn
<1>4. CASE Damaged \notin Range(report.taken)
  <2>1. report' = over /\ Len(report.taken) = Len(pairs)
    BY <1>1, <1>4 DEF CombineSummaries
  <2>2. /\ DOMAIN over = ReportFields /\ over.step = "combined" /\ over.taken = report.taken
        /\ over.context = report.context /\ over.entries = report.entries
        /\ over.round = report.round
    BY <1>1 DEF ReportOK, ReportFields
  <2>3. \A k \in DOMAIN report.taken : report.taken[k] # Damaged
    BY <1>4 DEF Range
  <2> HIDE DEF over
  <2>4. ReportOK(over, trials)
    BY <1>1, <2>1, <2>2, <2>3 DEF ReportOK
  <2> QED BY <1>1, <1>2, <2>1, <2>2, <2>4, ReportGoesOn
<1> QED BY <1>3, <1>4

LEMMA StreamReturnsOK ==
    ASSUME EvidenceInv, StreamReturns
    PROVE  EvidenceInv'
<1> DEFINE trials == judged_rounds[report.round].trials
           pairs == PairsOf(trials, report.context.plan)
           n == Len(report.taken)
           summary == Summary(pairs[n + 1], report.context)
           over == [report EXCEPT !.step = "combined"]
           next == [report EXCEPT !.taken = Append(@, summary)]
<1>0. report.step # "idle"
  BY DEF StreamReturns
<1>1. /\ report # NoReport /\ ReportOK(report, trials) /\ IsList(trials)
      /\ ReportPairs = pairs
  BY <1>0, NoReportFacts
<1>2. report.step = "streaming" /\ UNCHANGED <<frozen, judged_rounds, report_stats, verdict>>
  BY DEF StreamReturns
<1>3. CASE n = Len(pairs)
  <2>1. report' = over
    BY <1>1, <1>3 DEF StreamReturns
  <2>2. /\ DOMAIN over = ReportFields /\ over.step = "combined" /\ over.taken = report.taken
        /\ over.context = report.context /\ over.entries = report.entries
        /\ over.round = report.round
    BY <1>1 DEF ReportOK, ReportFields
  <2> HIDE DEF over
  <2>3. ReportOK(over, trials)
    BY <1>1, <1>2, <1>3, <2>2 DEF ReportOK
  <2> QED BY <1>1, <1>2, <2>1, <2>2, <2>3, ReportGoesOn
<1>4. CASE n # Len(pairs)
  <2>1. report' = next
    BY <1>1, <1>4 DEF StreamReturns
  <2>2. n < Len(pairs)
    <3>1. n <= Len(pairs) /\ n \in Nat /\ Len(pairs) \in Nat
      BY <1>1, PairsFacts DEF ReportOK, IsList
    <3> QED BY <1>4, <3>1
  <2>3. /\ DOMAIN next = ReportFields /\ next.step = report.step
        /\ next.taken = Append(report.taken, summary)
        /\ next.context = report.context /\ next.entries = report.entries
        /\ next.round = report.round
    BY <1>1 DEF ReportOK, ReportFields
  <2>4. EntriesOK(next.entries, report.context)
    BY <1>1, <2>3 DEF ReportOK
  <2> HIDE DEF next, pairs
  <2>5. ReportOK(next, trials)
    BY <1>1, <1>2, <2>2, <2>3, <2>4, TakenMore DEF pairs
  <2> QED BY <1>1, <1>2, <2>1, <2>3, <2>5, ReportGoesOn
<1> QED BY <1>3, <1>4

(* However a report ends, its summaries are kept with its context.           *)
LEMMA LeavesOK ==
    ASSUME EvidenceInv, report.step # "idle", Leaves, UNCHANGED <<frozen, judged_rounds>>,
           \/ UNCHANGED verdict
           \/ /\ verdict'.round \in DOMAIN judged_rounds
              /\ VerdictOK(verdict', judged_rounds[verdict'.round], frozen.test_start)
    PROVE  EvidenceInv'
<1>1. /\ report' = NoReport
      /\ report_stats' = [context |-> report.context, entries |-> report.entries]
  BY DEF Leaves
<1>2. EntriesOK(report.entries, report.context)
  BY NoReportFacts DEF ReportOK
<1>3. /\ DOMAIN report_stats' = {"context", "entries"}
      /\ EntriesOK(report_stats'.entries, report_stats'.context)
  BY <1>1, <1>2
<1> QED BY <1>1, <1>3 DEF EvidenceInv

(* The verdict is that of a report that had nothing to reuse.                *)
LEMMA FinishReportOK ==
    ASSUME EvidenceInv, FinishReport
    PROVE  EvidenceInv'
<1> DEFINE entry == judged_rounds[report.round]
<1>1. /\ report.step = "combined" /\ Leaves /\ UNCHANGED <<frozen, judged_rounds>>
      /\ verdict' = [round |-> report.round, context |-> report.context,
                     result |-> Judged(report.round, report.context, report.taken)]
  BY DEF FinishReport
<1>2. /\ report.round \in DOMAIN judged_rounds /\ ReportOK(report, entry.trials)
      /\ IsList(entry.trials)
  BY <1>1, NoReportFacts
<1>3. report.taken = FreshOf(entry.trials, report.context)
  BY <1>1, <1>2, TakenIsFresh
<1>4. Judged(report.round, report.context, report.taken)
        = JudgedOf(entry, frozen.test_start, report.context,
                   FreshOf(entry.trials, report.context))
  BY <1>3, JudgedIs
<1>5. report.context.plan \in Plans
  BY <1>2 DEF ReportOK
<1> HIDE DEF entry
<1>6. VerdictOK(verdict', entry, frozen.test_start) /\ verdict'.round = report.round
  BY <1>1, <1>4, <1>5 DEF VerdictOK
<1> QED BY <1>1, <1>2, <1>6, LeavesOK DEF entry

LEMMA DamageSummaryOK ==
    ASSUME EvidenceInv, DamageSummary
    PROVE  EvidenceInv'
<1> DEFINE entries == report_stats.entries
<1>1. PICK pair \in DOMAIN entries :
        report_stats' = [report_stats EXCEPT !.entries[pair] = Damaged]
  BY DEF DamageSummary
<1>2. /\ DOMAIN report_stats = {"context", "entries"}
      /\ EntriesOK(entries, report_stats.context)
      /\ UNCHANGED <<frozen, judged_rounds, report, verdict>>
  BY DEF EvidenceInv, DamageSummary
<1>3. /\ DOMAIN report_stats' = {"context", "entries"}
      /\ report_stats'.context = report_stats.context
      /\ report_stats'.entries = [entries EXCEPT ![pair] = Damaged]
  BY <1>1, <1>2
<1> HIDE DEF entries
<1>4. EntriesOK(report_stats'.entries, report_stats'.context)
  BY <1>2, <1>3 DEF EntriesOK
<1> QED BY <1>2, <1>3, <1>4 DEF EvidenceInv

LEMMA ReportStepOK ==
    ASSUME EvidenceInv, ReportStep
    PROVE  EvidenceInv'
<1>1. CASE CancelReport \/ ReportFails
  <2>1. report.step # "idle" /\ Leaves /\ UNCHANGED <<frozen, judged_rounds, verdict>>
    BY <1>1 DEF CancelReport, ReportFails
  <2> QED BY <2>1, LeavesOK
<1> QED BY <1>1, TakeSummaryOK, CombineSummariesOK, StreamReturnsOK, FinishReportOK DEF ReportStep

(* The other parts leave the evidence alone.                                 *)
LEMMA EvidenceKept ==
    ASSUME EvidenceInv, [Next]_researchVars
    PROVE  EvidenceInv'
<1>1. ASSUME UNCHANGED validationVars PROVE EvidenceInv'
  <2>1. UNCHANGED <<frozen, judged_rounds, report, report_stats, verdict>>
    BY <1>1 DEF validationVars, evidence
  <2> QED BY <2>1, SyncPricesKeeps
<1>2. ASSUME EvidenceRequest PROVE EvidenceInv'
  <2>1. ASSUME NEW choice, NEW run, CreateSession(choice, run) PROVE EvidenceInv'
    BY <2>1, CreateSessionOK
  <2>2. ASSUME NEW pool \in Pools, NEW run, SelectRound(pool, run) PROVE EvidenceInv'
    BY <2>2, SelectRoundOK
  <2>3. ASSUME NEW r \in DOMAIN judged_rounds, NEW plan \in Plans, StartReport(r, plan)
        PROVE  EvidenceInv'
    BY <2>3, StartReportOK
  <2>4. ASSUME NEW r, NEW plan, CompareStrategies(r, plan) PROVE EvidenceInv'
    BY <2>4, SyncPricesKeeps DEF CompareStrategies
  <2>5. CASE SyncPrices
    BY <2>5, SyncPricesKeeps DEF SyncPrices, evidence
  <2>6. CASE ExitReport
    BY <2>6 DEF ExitReport, EvidenceInv
  <2> QED BY <1>2, <2>1, <2>2, <2>3, <2>4, <2>5, <2>6, StopReportOK, DamageSummaryOK
          DEF EvidenceRequest
<1>3. ASSUME EvidenceStep PROVE EvidenceInv'
  BY <1>3, ReportStepOK DEF EvidenceStep
<1>4. ASSUME NEW d \in Desks, DeskRequest(d) \/ DeskStep(d) PROVE UNCHANGED validationVars
  BY <1>4 DEF DeskRequest, DeskStep, DeskAlone
<1>5. ASSUME SegmentStep \/ SearchRequest \/ GenerationStep \/ TunerStep
             \/ UNCHANGED researchVars
      PROVE  UNCHANGED validationVars
  BY <1>5 DEF SegmentStep, SearchRequest, GenerationStep, TunerStep,
     DeskAlone, SearchAlone, TunerAlone, researchVars
<1> QED BY <1>1, <1>2, <1>3, <1>4, <1>5 DEF Next

LEMMA EvidenceInvariant == Spec => []EvidenceInv
<1>1. Init => EvidenceInv
  BY EvidenceStart DEF Init
<1>2. EvidenceInv /\ [Next]_researchVars => EvidenceInv'
  BY EvidenceKept
<1> QED BY <1>1, <1>2, PTL DEF Spec

(* What a report says of its round is what one would say that had no kept    *)
(* summaries to reuse (pbo.py 29), whatever was stopped, stored, damaged or  *)
(* synchronised before it.                                                   *)
THEOREM ReportsCorrect == Spec => []ReportMatchesReference
<1>1. EvidenceInv => ReportMatchesReference
  <2> SUFFICES ASSUME EvidenceInv, verdict # Nothing PROVE ReportMatchesReference
    BY DEF ReportMatchesReference
  <2> DEFINE entry == judged_rounds[verdict.round]
             plan == verdict.context.plan
             fresh == [k \in DOMAIN Pairs(verdict.round, plan) |->
                         Summary(Pairs(verdict.round, plan)[k], verdict.context)]
  <2>1. VerdictOK(verdict, entry, frozen.test_start)
    BY DEF EvidenceInv
  <2>2. fresh = FreshOf(entry.trials, verdict.context)
    BY PairsAre DEF FreshOf
  <2> HIDE DEF fresh
  <2>3. verdict.result = Judged(verdict.round, verdict.context, fresh)
    BY <2>1, <2>2, JudgedIs DEF VerdictOK
  <2> QED BY <2>3 DEF ReportMatchesReference, fresh
<1> QED BY <1>1, EvidenceInvariant, PTL
-----------------------------------------------------------------------------
(* How dates are divided.                                                    *)

LEMMA EndsOfInterval ==
    ASSUME NEW a \in Int, NEW b \in Int, a <= b
    PROVE  Min(a .. b) = a /\ Max(a .. b) = b
<1>1. a \in a .. b /\ b \in a .. b /\ \A y \in a .. b : a <= y /\ b >= y
  OBVIOUS
<1>2. Min(a .. b) \in a .. b /\ Min(a .. b) <= a
  BY <1>1 DEF Min
<1>3. Max(a .. b) \in a .. b /\ Max(a .. b) >= b
  BY <1>1 DEF Max
<1> QED BY <1>2, <1>3

(* The folds lie between their ends, an embargo or more apart: each begins   *)
(* where its number times a whole share, and a date for each of the larger   *)
(* folds before it, leave it.                                                *)
LEMMA FoldsApart ==
    ASSUME NEW first \in Nat, NEW last \in Nat, NEW count \in Nat \ {0}, NEW embargo \in Nat
    PROVE  LET folds == Folds(first, last, count, embargo)
           IN  /\ DOMAIN folds = 1 .. count
               /\ \A i \in 1 .. count : \A t \in folds[i] :
                     t \in Int /\ first <= t /\ t <= last
               /\ \A i, j \in 1 .. count : i < j =>
                     \A t \in folds[i], u \in folds[j] : t + embargo < u
<1> DEFINE all == (last + 1) - first
           usable == IF all > embargo * (count - 1) THEN all - embargo * (count - 1) ELSE 0
           q == usable \div count
           rem == usable % count
           Size(i) == usable \div count + (IF i <= usable % count THEN 1 ELSE 0)
           From == CHOOSE f : f = [i \in 1 .. count |->
                      IF i = 1 THEN first ELSE f[i - 1] + Size(i - 1) + embargo]
           folds == Folds(first, last, count, embargo)
<1>1. folds = [i \in 1 .. count |-> From[i] .. (From[i] + Size(i)) - 1]
  BY DEF Folds
<1>2. /\ usable \in Nat
      /\ usable = 0 \/ usable = all - embargo * (count - 1)
      /\ all \in Int /\ embargo * (count - 1) \in Nat
  <2>1. embargo * (count - 1) \in Nat /\ all \in Int
    OBVIOUS
  <2> QED BY <2>1
<1> HIDE DEF usable
<1>3. /\ q \in Nat /\ rem \in 0 .. count - 1 /\ usable = count * q + rem
      /\ \A i : Size(i) = q + (IF i <= rem THEN 1 ELSE 0)
  BY <1>2
<1> HIDE DEF q, rem, Size, folds
<1> DEFINE M(k) == IF k <= rem THEN k ELSE rem
           w == q + embargo
           at == [i \in 1 .. count |-> first + (i - 1) * w + M(i - 1)]
<1>4. w \in Nat /\ \A k \in Nat : M(k) \in Nat /\ k * w \in Nat
  BY <1>3
<1>5. ASSUME NEW i \in 1 .. count
      PROVE  /\ Size(i) \in Nat /\ M(i) = M(i - 1) + (Size(i) - q)
             /\ i * w = (i - 1) * w + w /\ M(i) \in Nat /\ M(i - 1) \in Nat
  <2>1. i \in Nat /\ i - 1 \in Nat
    OBVIOUS
  <2>2. M(i) = M(i - 1) + (IF i <= rem THEN 1 ELSE 0)
    BY <1>3, <2>1
  <2>3. i * w = (i - 1) * w + w
    BY <1>4, <2>1
  <2> QED BY <1>3, <1>4, <2>1, <2>2, <2>3
<1>6. \A i \in 1 .. count : at[i] = first + (i - 1) * w + M(i - 1) /\ at[i] \in Nat
  <2>1. ASSUME NEW i \in 1 .. count PROVE first + (i - 1) * w + M(i - 1) \in Nat
    BY <1>4
  <2> QED BY <2>1
<1>7. ASSUME NEW i \in 1 .. count, i # count
      PROVE  at[i + 1] = at[i] + Size(i) + embargo /\ i + 1 \in 1 .. count
  <2>1. i + 1 \in 1 .. count /\ (i + 1) - 1 = i
    BY <1>7
  <2>2. at[i + 1] = first + i * w + M(i)
    BY <1>6, <2>1
  <2>3. at[i] = first + (i - 1) * w + M(i - 1)
    BY <1>6
  <2>4. /\ i * w = (i - 1) * w + w /\ M(i) = M(i - 1) + (Size(i) - q)
        /\ (i - 1) * w \in Nat /\ M(i - 1) \in Nat /\ Size(i) \in Nat /\ w = q + embargo
    BY <1>4, <1>5
  <2> HIDE DEF at, M, w
  <2> QED BY <1>3, <2>1, <2>2, <2>3, <2>4
<1>8. at[1] = first
  BY <1>3, <1>4
<1> HIDE DEF at, M
<1>9. \A i \in 1 .. count : From[i] = at[i]
  <2>1. at = [i \in 1 .. count |-> IF i = 1 THEN first ELSE at[i - 1] + Size(i - 1) + embargo]
    <3>1. ASSUME NEW i \in 1 .. count, i # 1
          PROVE  at[i] = at[i - 1] + Size(i - 1) + embargo
      <4>1. i - 1 \in 1 .. count /\ i - 1 # count /\ (i - 1) + 1 = i
        BY <3>1
      <4> QED BY <1>7, <4>1
    <3>2. at = [i \in 1 .. count |-> at[i]]
      BY DEF at
    <3> QED BY <1>8, <3>1, <3>2
  <2>2. From = [i \in 1 .. count |->
                  IF i = 1 THEN first ELSE From[i - 1] + Size(i - 1) + embargo]
    BY <2>1
  <2> HIDE DEF From
  <2> DEFINE Same == {k \in 0 .. count : k = 0 \/ From[k] = at[k]}
  <2>3. ASSUME NEW k \in 1 .. count, k - 1 \in Same PROVE k \in Same
    <3>1. CASE k = 1
      BY <1>8, <2>2, <3>1
    <3>2. CASE k # 1
      <4>1. k - 1 \in 1 .. count /\ k - 1 # count /\ (k - 1) + 1 = k /\ k \in 0 .. count
        BY <3>2
      <4>2. From[k - 1] = at[k - 1]
        BY <2>3, <4>1
      <4>3. From[k] = From[k - 1] + Size(k - 1) + embargo
        BY <2>2, <3>2
      <4>4. at[k] = at[k - 1] + Size(k - 1) + embargo
        BY <1>7, <4>1
      <4> QED BY <4>1, <4>2, <4>3, <4>4
    <3> QED BY <3>1, <3>2
  <2>4. 0 \in Same
    OBVIOUS
  <2> HIDE DEF Same
  <2>5. 0 .. count \subseteq Same
    BY <2>3, <2>4, UpToN
  <2> QED BY <2>5 DEF Same
<1> HIDE DEF From
<1>10. ASSUME NEW i \in 1 .. count, NEW j \in 1 .. count, i < j
       PROVE  at[i] + Size(i) + embargo <= at[j]
  <2> DEFINE Far == {k \in 0 .. count :
                        \A x \in 1 .. count : x < k => at[x] + Size(x) + embargo <= at[k]}
  <2>1. 0 \in Far
    OBVIOUS
  <2>2. ASSUME NEW k \in 1 .. count, k - 1 \in Far PROVE k \in Far
    <3>1. ASSUME NEW x \in 1 .. count, x < k PROVE at[x] + Size(x) + embargo <= at[k]
      <4>1. k - 1 \in 1 .. count /\ k - 1 # count /\ (k - 1) + 1 = k
        BY <3>1
      <4>2. at[k] = at[k - 1] + Size(k - 1) + embargo
        BY <1>7, <4>1
      <4>3. at[k - 1] \in Nat /\ at[x] \in Nat /\ Size(k - 1) \in Nat /\ Size(x) \in Nat
        BY <1>5, <1>6, <4>1
      <4>4. CASE x = k - 1
        BY <4>2, <4>3, <4>4
      <4>5. CASE x # k - 1
        <5>1. at[x] + Size(x) + embargo <= at[k - 1]
          BY <2>2, <3>1, <4>1, <4>5
        <5> QED BY <4>2, <4>3, <5>1
      <4> QED BY <4>4, <4>5
    <3> QED BY <3>1
  <2> HIDE DEF Far
  <2>3. 0 .. count \subseteq Far
    BY <2>1, <2>2, UpToN
  <2>4. j \in Far
    BY <2>3
  <2> QED BY <1>10, <2>4 DEF Far
<1>11. ASSUME NEW i \in 1 .. count PROVE first <= at[i]
  <2>1. CASE i = 1
    BY <1>8, <2>1
  <2>2. CASE i # 1
    <3>1. 1 \in 1 .. count /\ 1 < i
      BY <2>2
    <3>2. at[1] + Size(1) + embargo <= at[i] /\ Size(1) \in Nat /\ at[i] \in Nat
      BY <1>5, <1>6, <1>10, <3>1
    <3> QED BY <1>8, <3>2
  <2> QED BY <2>1, <2>2
<1>12. at[count] + Size(count) = first + usable + embargo * (count - 1)
  <2>1. count \in 1 .. count
    OBVIOUS
  <2>2. /\ at[count] = first + (count - 1) * w + M(count - 1)
        /\ Size(count) \in Nat /\ M(count) = M(count - 1) + (Size(count) - q)
        /\ count * w = (count - 1) * w + w
        /\ M(count) \in Nat /\ M(count - 1) \in Nat /\ (count - 1) * w \in Nat
    BY <1>4, <1>5, <1>6, <2>1
  <2>3. M(count) = rem
    BY <1>3 DEF M
  <2>4. count * w = count * q + count * embargo /\ count * q \in Nat /\ count * embargo \in Nat
    BY <1>3
  <2>5. embargo * (count - 1) = count * embargo - embargo
    OBVIOUS
  <2>6. w = q + embargo
    OBVIOUS
  <2> HIDE DEF w
  <2> QED BY <1>2, <1>3, <2>2, <2>3, <2>4, <2>5, <2>6
<1>13. ASSUME NEW i \in 1 .. count PROVE at[i] + Size(i) <= at[count] + Size(count)
  <2>0. count \in 1 .. count
    OBVIOUS
  <2>1. /\ at[i] \in Nat /\ Size(i) \in Nat /\ at[count] \in Nat /\ Size(count) \in Nat
    BY <1>5, <1>6, <2>0
  <2>2. CASE i = count
    BY <2>1, <2>2
  <2>3. CASE i # count
    <3>1. at[i] + Size(i) + embargo <= at[count]
      BY <1>10, <2>0, <2>3
    <3> QED BY <2>1, <3>1
  <2> QED BY <2>2, <2>3
<1>14. ASSUME NEW i \in 1 .. count, NEW t \in folds[i]
       PROVE  /\ t \in Int /\ at[i] <= t /\ t < at[i] + Size(i)
              /\ first <= t /\ t <= last
  <2>1. folds[i] = at[i] .. (at[i] + Size(i)) - 1
    BY <1>1, <1>9
  <2>2. at[i] \in Nat /\ Size(i) \in Nat
    BY <1>5, <1>6
  <2>3. t \in Int /\ at[i] <= t /\ t < at[i] + Size(i)
    BY <1>14, <2>1, <2>2
  <2>4. usable # 0
    <3> SUFFICES ASSUME usable = 0 PROVE FALSE
      OBVIOUS
    <3>1. count * q \in Nat /\ rem = 0 /\ count * q = 0
      BY <1>3
    <3>2. q = 0
      BY <1>3, <3>1
    <3>3. Size(i) = 0
      BY <1>3, <3>1, <3>2
    <3> QED BY <2>2, <2>3, <3>3
  <2>5. at[count] + Size(count) = last + 1
    BY <1>2, <1>12, <2>4
  <2>6. at[i] + Size(i) <= last + 1
    BY <1>13, <2>5
  <2>7. first <= at[i]
    BY <1>11
  <2> QED BY <2>2, <2>3, <2>6, <2>7
<1>15. ASSUME NEW i \in 1 .. count, NEW j \in 1 .. count, i < j,
              NEW t \in folds[i], NEW u \in folds[j]
       PROVE  t + embargo < u
  <2>1. t \in Int /\ t < at[i] + Size(i) /\ u \in Int /\ at[j] <= u
    BY <1>14
  <2>2. at[i] + Size(i) + embargo <= at[j]
    BY <1>10, <1>15
  <2>3. at[i] \in Nat /\ Size(i) \in Nat /\ at[j] \in Nat
    BY <1>5, <1>6
  <2> QED BY <2>1, <2>2, <2>3
<1>16. DOMAIN folds = 1 .. count
  BY <1>1
<1>17. \A i \in 1 .. count : \A t \in folds[i] : t \in Int /\ first <= t /\ t <= last
  BY <1>14
<1>18. \A i, j \in 1 .. count : i < j => \A t \in folds[i], u \in folds[j] : t + embargo < u
  BY <1>15
<1> QED BY <1>16, <1>17, <1>18 DEF folds

-----------------------------------------------------------------------------
(* The boundaries of a session.                                              *)

BudgetOK(b) ==
    /\ {"choices", "runs"} \subseteq DOMAIN b
    /\ \A choice \in b.choices :
          choice.train \in Nat /\ choice.valid \in Nat /\ choice.embargo \in Nat
    /\ \A run \in b.runs : run.horizon \in Nat \ {0}

(* The test begins an embargo after the validation, which begins one after   *)
(* the training.                                                             *)
FrozenOK(f) ==
    /\ f.train_end \in Nat /\ f.valid_start \in Nat /\ f.valid_end \in Nat
    /\ f.test_start \in Nat /\ f.embargo \in Nat
    /\ f.valid_start = f.train_end + f.embargo + 1
    /\ f.test_start = f.valid_end + f.embargo + 1
    /\ f.valid_start <= f.valid_end

Covered(run, embargo) ==
    run.horizon \in Nat \ {0} /\ LabelSpan(run.horizon, run.execution) <= embargo

SplitInv ==
    /\ market.days \in Nat
    /\ BudgetOK(budget)
    /\ frozen # Nothing => FrozenOK(frozen) /\ frozen.test_start <= market.days
    /\ judged_rounds # <<>> => frozen # Nothing
    /\ IsList(judged_rounds)
    /\ \A r \in DOMAIN judged_rounds : Covered(judged_rounds[r].run, frozen.embargo)

LEMMA PartFacts ==
    ASSUME NEW n \in Nat, NEW percent \in Nat
    PROVE  Part(n, percent) \in Nat
<1>1. n * percent \in Nat
  OBVIOUS
<1> QED BY <1>1 DEF Part

LEMMA SpanFacts ==
    ASSUME NEW horizon \in Nat, NEW execution
    PROVE  LabelSpan(horizon, execution) \in Nat /\ Delay(execution) \in Nat
  BY DEF LabelSpan, Delay

(* A split whose parts are there is frozen as it was derived.                *)
LEMMA CreatedSplit ==
    ASSUME SplitInv, NEW choice \in budget.choices, NEW run, CreateSession(choice, run)
    PROVE  FrozenOK(frozen') /\ frozen'.test_start <= market.days
<1> DEFINE n == market.days
           e == choice.embargo
           last == Part(n, choice.train)
           more == Part(n, choice.valid)
           first == last + e
           test == first + more + e
           s == [train |-> 1 .. last, valid |-> (first + 1) .. Smaller(n, first + more),
                 test |-> (test + 1) .. n]
           split == TimeSplit(n, choice.train, choice.valid, e)
<1>1. n \in Nat /\ e \in Nat /\ last \in Nat /\ more \in Nat
  BY PartFacts DEF SplitInv, BudgetOK
<1>2. /\ split # <<>>
      /\ frozen' = [train_end |-> Max(split.train), valid_start |-> Min(split.valid),
                    valid_end |-> Max(split.valid), test_start |-> Min(split.test),
                    embargo |-> e, run |-> run]
  BY DEF CreateSession
<1>3. split = s /\ \A part \in DOMAIN s : s[part] # {}
  BY <1>2 DEF TimeSplit
<1>4. /\ split.train = 1 .. last /\ split.train # {}
      /\ split.valid = (first + 1) .. Smaller(n, first + more) /\ split.valid # {}
      /\ split.test = (test + 1) .. n /\ split.test # {}
  <2>1. DOMAIN s = {"train", "valid", "test"}
    OBVIOUS
  <2>2. /\ s.train = 1 .. last /\ s.test = (test + 1) .. n
        /\ s.valid = (first + 1) .. Smaller(n, first + more)
    OBVIOUS
  <2> HIDE DEF s
  <2>3. s.train # {} /\ s.valid # {} /\ s.test # {}
    BY <1>3, <2>1
  <2> QED BY <1>3, <2>2, <2>3
<1> HIDE DEF n, e, last, more, s, split
<1>5. 1 <= last /\ test + 1 <= n
  BY <1>1, <1>4
<1>6. Smaller(n, first + more) = first + more
  BY <1>1, <1>5 DEF Smaller
<1>7. first + 1 <= first + more
  BY <1>1, <1>4, <1>6
<1>8. /\ Max(split.train) = last /\ Min(split.valid) = first + 1
      /\ Max(split.valid) = first + more /\ Min(split.test) = test + 1
  <2>1. Max(1 .. last) = last
    BY <1>1, <1>5, EndsOfInterval
  <2>2. Min((first + 1) .. (first + more)) = first + 1
        /\ Max((first + 1) .. (first + more)) = first + more
    BY <1>1, <1>7, EndsOfInterval
  <2>3. Min((test + 1) .. n) = test + 1
    BY <1>1, <1>5, EndsOfInterval
  <2> QED BY <1>4, <1>6, <2>1, <2>2, <2>3
<1>9. /\ frozen'.train_end = last /\ frozen'.valid_start = first + 1
      /\ frozen'.valid_end = first + more /\ frozen'.test_start = test + 1
      /\ frozen'.embargo = e
  BY <1>2, <1>8
<1>10. FrozenOK(frozen')
  BY <1>1, <1>7, <1>9 DEF FrozenOK
<1>11. frozen'.test_start <= n
  BY <1>1, <1>5, <1>9
<1> QED BY <1>10, <1>11 DEF n

LEMMA SplitStart ==
    ASSUME Init
    PROVE  SplitInv
<1>1. market.days \in Nat
  BY ValidationAssumption DEF Init, ValidationInit
<1>2. BudgetOK(budget)
  BY BudgetsAssumption DEF Init, BudgetOK
<1> QED BY <1>1, <1>2, EmptyList DEF Init, ValidationInit, SplitInv, Nothing

(* Requests are counted; what may be asked for stays.                        *)
LEMMA BudgetKept ==
    ASSUME BudgetOK(budget), [Next]_researchVars
    PROVE  BudgetOK(budget')
<1> DEFINE Kinds == {"messages", "errands", "segments", "upsets", "asks", "changes", "stops",
                     "exits", "tunings", "batches", "rounds", "reports", "comparisons",
                     "report_stops", "syncs", "damages"}
<1>1. ASSUME NEW kind \in Kinds, Spends(kind) PROVE BudgetOK(budget')
  <2>1. kind # "choices" /\ kind # "runs"
    OBVIOUS
  <2>2. /\ DOMAIN budget' = DOMAIN budget
        /\ budget'.choices = budget.choices /\ budget'.runs = budget.runs
    BY <1>1, <2>1 DEF Spends, BudgetOK
  <2> QED BY <2>2 DEF BudgetOK
<1>2. (\E kind \in Kinds : Spends(kind)) \/ budget' = budget
  <2>1. ASSUME NEW d \in Desks, DeskRequest(d) \/ DeskStep(d)
        PROVE  Spends("messages") \/ Spends("errands") \/ budget' = budget
    BY <2>1 DEF DeskRequest, DeskStep
  <2>2. CASE SegmentStep
    BY <2>2 DEF SegmentStep
  <2>3. CASE SearchRequest
    BY <2>3 DEF SearchRequest
  <2>4. CASE TunerStep
    BY <2>4 DEF TunerStep
  <2>5. CASE EvidenceRequest
    BY <2>5 DEF EvidenceRequest
  <2>6. CASE GenerationStep \/ EvidenceStep \/ UNCHANGED researchVars
    BY <2>6 DEF GenerationStep, EvidenceStep, researchVars
  <2> QED BY <2>1, <2>2, <2>3, <2>4, <2>5, <2>6 DEF Next
<1> QED BY <1>1, <1>2

(* The evidence's own steps, but for the four that move what is divided.     *)
LEMMA OtherSteps ==
    ASSUME [Next]_researchVars
    PROVE  \/ UNCHANGED <<market, frozen, judged_rounds>>
           \/ \E choice \in budget.choices, run \in budget.runs : CreateSession(choice, run)
           \/ \E pool \in Pools, run \in budget.runs : SelectRound(pool, run)
           \/ SyncPrices
<1>1. ASSUME EvidenceStep PROVE UNCHANGED <<market, frozen, judged_rounds>>
  BY <1>1 DEF EvidenceStep, ReportStep, TakeSummary, CombineSummaries, StreamReturns,
     FinishReport, CancelReport, ReportFails
<1>2. ASSUME NEW d \in Desks, DeskRequest(d) \/ DeskStep(d) PROVE UNCHANGED validationVars
  BY <1>2 DEF DeskRequest, DeskStep, DeskAlone
<1>3. ASSUME SegmentStep \/ SearchRequest \/ GenerationStep \/ TunerStep
             \/ UNCHANGED researchVars
      PROVE  UNCHANGED validationVars
  BY <1>3 DEF SegmentStep, SearchRequest, GenerationStep, TunerStep,
     DeskAlone, SearchAlone, TunerAlone, researchVars
<1>4. ASSUME NEW r, NEW plan, StartReport(r, plan) \/ CompareStrategies(r, plan)
      PROVE  UNCHANGED <<market, frozen, judged_rounds>>
  BY <1>4 DEF StartReport, CompareStrategies
<1>5. ASSUME StopReport \/ ExitReport \/ DamageSummary
      PROVE  UNCHANGED <<market, frozen, judged_rounds>>
  BY <1>5 DEF StopReport, ExitReport, DamageSummary
<1> QED BY <1>1, <1>2, <1>3, <1>4, <1>5 DEF Next, EvidenceRequest, validationVars

LEMMA SplitKept ==
    ASSUME SplitInv, [Next]_researchVars
    PROVE  SplitInv'
<1>0. BudgetOK(budget')
  BY BudgetKept DEF SplitInv
<1>1. CASE UNCHANGED <<market, frozen, judged_rounds>>
  BY <1>0, <1>1 DEF SplitInv
<1>2. ASSUME NEW choice \in budget.choices, NEW run \in budget.runs, CreateSession(choice, run)
      PROVE  SplitInv'
  <2>1. judged_rounds = <<>> /\ UNCHANGED <<market, judged_rounds>>
    BY <1>2 DEF CreateSession, SplitInv
  <2>2. DOMAIN judged_rounds = {}
    BY <2>1
  <2>3. FrozenOK(frozen') /\ frozen'.test_start <= market.days
    BY <1>2, CreatedSplit
  <2> QED BY <1>0, <2>1, <2>2, <2>3 DEF SplitInv
<1>3. ASSUME NEW pool \in Pools, NEW run \in budget.runs, SelectRound(pool, run)
      PROVE  SplitInv'
  <2> DEFINE chosen == Selection(pool)
             entry == [best |-> chosen.best, polarity |-> chosen.polarity,
                       validated |-> chosen.validated, run |-> run, market |-> market,
                       trials |-> ReportTrials(pool), searched |-> Len(pool)]
             n == Len(judged_rounds)
  <2>1. /\ judged_rounds' = Append(judged_rounds, entry) /\ frozen # Nothing
        /\ LabelSpan(run.horizon, run.execution) <= frozen.embargo
        /\ UNCHANGED <<market, frozen>>
    BY <1>3 DEF SelectRound
  <2>2. IsList(judged_rounds) /\ n \in Nat /\ DOMAIN judged_rounds = 1 .. n
    BY DEF SplitInv, IsList
  <2>3. entry.run = run /\ Covered(run, frozen.embargo)
    BY <2>1 DEF SplitInv, BudgetOK, Covered
  <2> HIDE DEF entry
  <2>4. /\ IsList(judged_rounds') /\ DOMAIN judged_rounds' = 1 .. n + 1
        /\ judged_rounds'[n + 1] = entry
        /\ \A i \in 1 .. n : judged_rounds'[i] = judged_rounds[i]
    BY <2>1, <2>2, Appended
  <2> HIDE DEF n
  <2>5. ASSUME NEW r \in DOMAIN judged_rounds' PROVE Covered(judged_rounds'[r].run, frozen.embargo)
    <3>1. CASE r = n + 1
      BY <2>3, <2>4, <3>1
    <3>2. CASE r # n + 1
      <4>1. r \in 1 .. n
        BY <2>2, <2>4, <3>2
      <4> QED BY <2>2, <2>4, <4>1 DEF SplitInv
    <3> QED BY <3>1, <3>2
  <2> QED BY <1>0, <2>1, <2>4, <2>5 DEF SplitInv
<1>4. CASE SyncPrices
  <2>1. UNCHANGED <<frozen, judged_rounds>>
    BY <1>4 DEF SyncPrices
  <2>2. market'.days \in market.days .. Smaller(MaxDays, market.days + 1)
    BY <1>4 DEF SyncPrices
  <2>3. market'.days \in Nat /\ market'.days >= market.days
    <3>1. Smaller(MaxDays, market.days + 1) \in Nat
      BY ValidationAssumption DEF Smaller, SplitInv
    <3> QED BY <2>2, <3>1 DEF SplitInv
  <2>4. frozen # Nothing => frozen.test_start <= market'.days
    BY <2>3 DEF SplitInv, FrozenOK
  <2> QED BY <1>0, <2>1, <2>3, <2>4 DEF SplitInv
<1> QED BY <1>1, <1>2, <1>3, <1>4, OtherSteps

LEMMA SplitInvariant == Spec => []SplitInv
<1>1. Init => SplitInv
  BY SplitStart
<1>2. SplitInv /\ [Next]_researchVars => SplitInv'
  BY SplitKept
<1> QED BY <1>1, <1>2, PTL DEF Spec
-----------------------------------------------------------------------------
(* No label crosses.                                                         *)

Beyond(a, b, gap) == \A t \in a, u \in b : t \in Int /\ u \in Int /\ t + gap < u

LEMMA FarApart ==
    ASSUME NEW run, NEW gap \in Int, Covered(run, gap), NEW a, NEW b, Beyond(a, b, gap)
    PROVE  Apart(a, b, run.horizon, run.execution)
<1> SUFFICES ASSUME NEW t \in a, NEW u \in b, u \in Label(t, run.horizon, run.execution)
             PROVE  FALSE
  BY DEF Apart
<1>1. /\ t \in Int /\ u \in Int /\ t + gap < u
      /\ run.horizon \in Nat /\ Delay(run.execution) \in Nat
      /\ run.horizon + Delay(run.execution) <= gap
  BY SpanFacts DEF Beyond, Covered, LabelSpan
<1>2. u <= t + Delay(run.execution) + run.horizon
  BY <1>1 DEF Label
<1> QED BY <1>1, <1>2

LEMMA Between ==
    ASSUME NEW S, NEW a \in S, NEW b \in S, NEW f \in Seq(S), NEW n \in Nat, Len(f) = n
    PROVE  LET parts == <<a>> \o f \o <<b>>
           IN  /\ DOMAIN parts = 1 .. n + 2 /\ parts[1] = a /\ parts[n + 2] = b
               /\ \A k \in 1 .. n : parts[k + 1] = f[k]
  BY SMT

(* The training, the folds of the validation and the test, in this order,    *)
(* are an embargo apart.                                                     *)
LEMMA PartsBeyond ==
    ASSUME SplitInv, frozen # Nothing
    PROVE  LET parts == <<SessionSplit.train>> \o SessionFolds \o <<SessionSplit.test>>
           IN  \A i, j \in DOMAIN parts : i < j => Beyond(parts[i], parts[j], frozen.embargo)
<1> DEFINE n == FoldCount
           e == frozen.embargo
           folds == SessionFolds
           train == 1 .. frozen.train_end
           test == frozen.test_start .. market.days
           parts == <<train>> \o folds \o <<test>>
<1>1. FrozenOK(frozen) /\ market.days \in Nat /\ n \in Nat \ {0}
  BY ValidationAssumption DEF SplitInv
<1>2. SessionSplit.train = train /\ SessionSplit.test = test
  BY DEF SessionSplit
<1>3. /\ DOMAIN folds = 1 .. n
      /\ \A i \in 1 .. n : \A t \in folds[i] :
            t \in Int /\ frozen.valid_start <= t /\ t <= frozen.valid_end
      /\ \A i, j \in 1 .. n : i < j => \A t \in folds[i], u \in folds[j] : t + e < u
  BY <1>1, FoldsApart DEF SessionFolds, FrozenOK
<1>4. folds \in Seq(SUBSET Int) /\ Len(folds) = n
  <2>1. \A i \in 1 .. n : folds[i] \in SUBSET Int
    BY <1>3
  <2>2. folds = [i \in 1 .. n |-> folds[i]]
    BY <1>3 DEF SessionFolds, Folds
  <2> HIDE DEF folds, n
  <2> QED BY <1>1, <2>1, <2>2
<1>5. train \in SUBSET Int /\ test \in SUBSET Int
  BY <1>1 DEF FrozenOK
<1> HIDE DEF n, e, folds, train, test
<1>6. /\ DOMAIN parts = 1 .. n + 2 /\ parts[1] = train /\ parts[n + 2] = test
      /\ \A k \in 1 .. n : parts[k + 1] = folds[k]
  BY <1>1, <1>4, <1>5, Between
<1> HIDE DEF parts
<1>7. \A k \in 2 .. n + 1 : k - 1 \in 1 .. n /\ parts[k] = folds[k - 1]
  <2>1. ASSUME NEW k \in 2 .. n + 1 PROVE k - 1 \in 1 .. n /\ (k - 1) + 1 = k
    BY <1>1
  <2> QED BY <1>6, <2>1
<1>8. ASSUME NEW k \in 1 .. n PROVE Beyond(train, folds[k], e) /\ Beyond(folds[k], test, e)
  <2>1. ASSUME NEW t \in train PROVE t \in Int /\ t + e < frozen.valid_start
    BY <1>1 DEF FrozenOK, train, e
  <2>2. ASSUME NEW u \in folds[k]
        PROVE  u \in Int /\ frozen.valid_start <= u /\ u + e < frozen.test_start
    BY <1>1, <1>3 DEF FrozenOK, e
  <2>3. ASSUME NEW v \in test PROVE v \in Int /\ frozen.test_start <= v
    BY <1>1 DEF FrozenOK, test
  <2>4. frozen.valid_start \in Nat /\ frozen.test_start \in Nat /\ e \in Nat
    BY <1>1 DEF FrozenOK, e
  <2> QED BY <2>1, <2>2, <2>3, <2>4 DEF Beyond
<1>9. Beyond(train, test, e)
  BY <1>1 DEF Beyond, FrozenOK, train, test, e
<1>10. ASSUME NEW i \in 1 .. n, NEW j \in 1 .. n, i < j PROVE Beyond(folds[i], folds[j], e)
  BY <1>3, <1>10 DEF Beyond
<1>11. ASSUME NEW i \in 1 .. n + 2, NEW j \in 1 .. n + 2, i < j
       PROVE  Beyond(parts[i], parts[j], e)
  <2>1. /\ i = 1 \/ i \in 2 .. n + 1
        /\ j = n + 2 \/ j \in 2 .. n + 1
    BY <1>1, <1>11
  <2>2. CASE i = 1 /\ j = n + 2
    BY <1>6, <1>9, <2>2
  <2>3. CASE i = 1 /\ j \in 2 .. n + 1
    BY <1>6, <1>7, <1>8, <2>3
  <2>4. CASE i \in 2 .. n + 1 /\ j = n + 2
    BY <1>6, <1>7, <1>8, <2>4
  <2>5. CASE i \in 2 .. n + 1 /\ j \in 2 .. n + 1
    <3>1. i - 1 \in 1 .. n /\ j - 1 \in 1 .. n /\ i - 1 < j - 1
      BY <1>1, <1>11, <2>5
    <3> QED BY <1>7, <1>10, <2>5, <3>1
  <2> QED BY <2>1, <2>2, <2>3, <2>4, <2>5
<1>12. \A i, j \in DOMAIN parts : i < j => Beyond(parts[i], parts[j], e)
  BY <1>6, <1>11
<1> QED BY <1>2, <1>12 DEF parts, e, folds

(* The agent's own holdout is a label's reach from what it is carved out of. *)
LEMMA InnerBeyond ==
    ASSUME NEW n \in Nat, NEW span \in Nat, NEW embargo \in Nat
    PROVE  LET inner == InnerSplit(n, span, embargo)
           IN  inner # <<>> => Beyond(inner.train, inner.holdout, span)
<1> DEFINE gap == Larger(embargo, span)
           holdout == Part(n, HoldoutPercent)
           inner == InnerSplit(n, span, embargo)
<1>1. gap \in Nat /\ span <= gap /\ holdout \in Nat
  <2>1. gap \in Nat /\ span <= gap
    BY DEF Larger
  <2>2. holdout \in Nat
    BY SplitsAssumption, PartFacts
  <2> QED BY <2>1, <2>2
<1>2. inner # <<>> => /\ inner.train = 1 .. (n - (holdout + gap))
                      /\ inner.holdout = ((n - holdout) + 1) .. n
  BY DEF InnerSplit
<1> HIDE DEF gap, holdout, inner
<1>3. ASSUME inner # <<>>, NEW t \in inner.train, NEW u \in inner.holdout
      PROVE  t \in Int /\ u \in Int /\ t + span < u
  <2>1. t \in 1 .. (n - (holdout + gap)) /\ u \in ((n - holdout) + 1) .. n
    BY <1>2, <1>3
  <2> QED BY <1>1, <2>1
<1> QED BY <1>3 DEF inner, Beyond

LEMMA WindowsBeyond ==
    ASSUME NEW n \in Nat, NEW splits \in Nat, NEW embargo \in Nat
    PROVE  \A w \in Range(WalkForward(n, splits, 4, 2, embargo)) : Beyond(w[1], w[2], embargo)
<1> DEFINE Start(k) == (k - 1) * 2
           fit == {k \in 1 .. splits : Start(k) + 4 + embargo + 2 <= n}
           m == Cardinality(fit)
           windows == WalkForward(n, splits, 4, 2, embargo)
<1>1. m \in Nat
  <2>1. IsFiniteSet(1 .. splits) /\ fit \subseteq 1 .. splits
    BY FS_Interval
  <2> QED BY <2>1, FS_Subset, FS_CardinalityType
<1>2. windows = [k \in 1 .. m |-> <<(Start(k) + 1) .. (Start(k) + 4),
                    (Start(k) + 4 + embargo + 1) .. (Start(k) + 4 + embargo + 2)>>]
  BY DEF WalkForward
<1> HIDE DEF m, windows
<1>3. ASSUME NEW k \in 1 .. m, NEW t \in windows[k][1], NEW u \in windows[k][2]
      PROVE  t \in Int /\ u \in Int /\ t + embargo < u
  <2> DEFINE at == Start(k)
  <2>1. at \in Int
    BY <1>1
  <2>2. t \in (at + 1) .. (at + 4) /\ u \in (at + 4 + embargo + 1) .. (at + 4 + embargo + 2)
    BY <1>2, <1>3
  <2> HIDE DEF at
  <2> QED BY <2>1, <2>2
<1>4. ASSUME NEW w \in Range(windows) PROVE Beyond(w[1], w[2], embargo)
  <2>1. PICK k \in 1 .. m : w = windows[k]
    BY <1>2 DEF Range
  <2> QED BY <1>3, <2>1 DEF Beyond
<1> QED BY <1>4 DEF windows

(* What is left for training has no label that reaches into the fold: it     *)
(* comes after it, or before it by more than the purge.                      *)
LEMMA PurgedApart ==
    ASSUME NEW n \in Nat, NEW splits \in Nat \ {0}, NEW run, NEW gap \in Int, Covered(run, gap)
    PROVE  LET h == run.horizon
               e == run.execution
           IN  \A f \in Range(PurgedFolds(n, splits, 0, LabelSpan(h, e))) :
                  Apart(f[1], f[2], h, e)
<1> DEFINE h == run.horizon
           e == run.execution
           span == LabelSpan(h, e)
           Bound(i) == (i * n) \div splits
           Dropped(i) ==
              ((Bound(i - 1) + 1) - Smaller(span, Bound(i - 1))) .. Smaller(n, Bound(i) + 0)
           folds == PurgedFolds(n, splits, 0, span)
<1>1. /\ h \in Nat /\ Delay(e) \in Nat /\ span = h + Delay(e)
  BY SpanFacts DEF Covered, LabelSpan
<1>2. folds = [i \in 1 .. splits |-> <<(1 .. n) \ Dropped(i), (Bound(i - 1) + 1) .. Bound(i)>>]
  BY DEF PurgedFolds
<1>3. \A i \in 1 .. splits : Bound(i) \in Int /\ Bound(i - 1) \in Int
  <2>1. \A k \in Nat : k * n \in Nat
    OBVIOUS
  <2>2. \A m \in Nat : m \div splits \in Int
    OBVIOUS
  <2>3. \A k \in Nat : Bound(k) \in Int
    BY <2>1, <2>2
  <2>4. \A i \in 1 .. splits : i \in Nat /\ i - 1 \in Nat
    OBVIOUS
  <2> HIDE DEF Bound
  <2> QED BY <2>3, <2>4
<1> HIDE DEF Bound, folds, span
<1>4. ASSUME NEW i \in 1 .. splits, NEW t \in folds[i][1], NEW u \in folds[i][2]
      PROVE  u \notin Label(t, h, e)
  <2> DEFINE b == Bound(i - 1)
             c == Bound(i)
  <2>1. b \in Int /\ c \in Int /\ span \in Int
    BY <1>1, <1>3
  <2>2. t \in 1 .. n /\ u \in (b + 1) .. c /\ t \notin ((b + 1) - Smaller(span, b)) .. Smaller(n, c + 0)
    BY <1>2, <1>4
  <2> HIDE DEF b, c
  <2>3. t \in Int /\ 1 <= t /\ t <= n /\ u \in Int /\ b + 1 <= u /\ u <= c
    BY <2>1, <2>2
  <2>4. CASE Smaller(n, c + 0) < t
    <3>1. c < t
      BY <2>1, <2>3, <2>4 DEF Smaller
    <3> QED BY <1>1, <2>1, <2>3, <3>1 DEF Label
  <2>5. CASE t < (b + 1) - Smaller(span, b)
    <3>1. t + span < b + 1 \/ t < 1
      BY <2>1, <2>3, <2>5 DEF Smaller
    <3> QED BY <1>1, <2>1, <2>3, <3>1 DEF Label
  <2>6. Smaller(span, b) \in Int /\ Smaller(n, c + 0) \in Int
    BY <2>1 DEF Smaller
  <2> QED BY <2>1, <2>2, <2>3, <2>4, <2>5, <2>6
<1>5. ASSUME NEW f \in Range(folds) PROVE Apart(f[1], f[2], h, e)
  <2>1. PICK i \in 1 .. splits : f = folds[i]
    BY <1>2 DEF Range
  <2> QED BY <1>4, <2>1 DEF Apart
<1> QED BY <1>5 DEF folds, span

(* Embargoes and purges are at least as long as a label (fitness.py          *)
(* 117-118): however the split was asked for, whatever a later segment's     *)
(* horizon and however the calendar grew, no label of a training date, a     *)
(* fold, the inner window, a rolling window or a purged fold reads a session *)
(* of what is judged after it.                                               *)
THEOREM LabelsCorrect == Spec => []NoLabelCrosses
<1>1. SplitInv => NoLabelCrosses
  <2> SUFFICES ASSUME SplitInv, frozen # Nothing PROVE NoLabelCrosses
    BY DEF NoLabelCrosses
  <2> DEFINE parts == <<SessionSplit.train>> \o SessionFolds \o <<SessionSplit.test>>
             gap == frozen.embargo
  <2>1. FrozenOK(frozen) /\ gap \in Nat /\ market.days \in Nat /\ FoldCount \in Nat \ {0}
    BY ValidationAssumption DEF SplitInv, FrozenOK
  <2>2. \A i, j \in DOMAIN parts : i < j => Beyond(parts[i], parts[j], gap)
    BY PartsBeyond
  <2> HIDE DEF parts, gap
  <2>3. ASSUME NEW r \in DOMAIN judged_rounds
        PROVE  LET h == judged_rounds[r].run.horizon
                   e == judged_rounds[r].run.execution
                   span == LabelSpan(h, e)
                   inner == InnerSplit(frozen.train_end, span, gap)
               IN  /\ \A i, j \in DOMAIN parts : i < j => Apart(parts[i], parts[j], h, e)
                   /\ inner # <<>> => Apart(inner.train, inner.holdout, h, e)
                   /\ \A w \in Range(WalkForward(market.days, FoldCount, 4, 2, gap)) :
                         Apart(w[1], w[2], h, e)
                   /\ \A f \in Range(PurgedFolds(market.days, FoldCount, 0, span)) :
                         Apart(f[1], f[2], h, e)
    <3> DEFINE run == judged_rounds[r].run
               span == LabelSpan(run.horizon, run.execution)
               inner == InnerSplit(frozen.train_end, span, gap)
    <3>1. Covered(run, gap) /\ Covered(run, span) /\ span \in Nat
      BY SpanFacts DEF SplitInv, Covered, gap
    <3> HIDE DEF run
    <3>2. \A i, j \in DOMAIN parts : i < j => Apart(parts[i], parts[j], run.horizon, run.execution)
      BY <2>1, <2>2, <3>1, FarApart
    <3>3. inner # <<>> => Apart(inner.train, inner.holdout, run.horizon, run.execution)
      <4>1. inner # <<>> => Beyond(inner.train, inner.holdout, span)
        BY <2>1, <3>1, InnerBeyond DEF FrozenOK
      <4> HIDE DEF inner, span
      <4> QED BY <3>1, <4>1, FarApart
    <3>4. \A w \in Range(WalkForward(market.days, FoldCount, 4, 2, gap)) :
             Apart(w[1], w[2], run.horizon, run.execution)
      <4>1. \A w \in Range(WalkForward(market.days, FoldCount, 4, 2, gap)) : Beyond(w[1], w[2], gap)
        BY <2>1, WindowsBeyond
      <4> QED BY <2>1, <3>1, <4>1, FarApart
    <3>5. \A f \in Range(PurgedFolds(market.days, FoldCount, 0, span)) :
             Apart(f[1], f[2], run.horizon, run.execution)
      BY <2>1, <3>1, PurgedApart
    <3> QED BY <3>2, <3>3, <3>4, <3>5 DEF run
  <2> QED BY <2>3 DEF NoLabelCrosses, parts, gap
<1> QED BY <1>1, SplitInvariant, PTL
-----------------------------------------------------------------------------
(* The tuner of the workers.                                                 *)

TunerFields == {"ceiling", "costs", "cursor", "settled", "drifting", "probing", "batch"}

(* The samples a ladder still lacks: each a rung and a number.               *)
Lacking(ceiling, costs) ==
    {s \in Ladder(ceiling) \X (1 .. SamplesPerRung) :
        Len(costs[s[1]]) < s[2] /\ s[2] <= Wanted(ceiling, s[1])}

KneeOf(price) == Min({r \in DOMAIN price : 10 * price[r] <= 11 * Min(Range(price))})

CostsOK(ceiling, costs) ==
    /\ DOMAIN costs = Ladder(ceiling)
    /\ \A r \in Ladder(ceiling) :
          costs[r] \in Seq(Nat) /\ Len(costs[r]) <= Wanted(ceiling, r)

BatchOK(batch, ceiling) ==
    /\ DOMAIN batch = {"size", "workers"}
    /\ batch.size \in Nat /\ batch.workers \in 0 .. ceiling

(* A tuner that has settled has every sample and stands at their knee; one   *)
(* that has not lacks some, and measures a rung that lacks one.              *)
TunerOK(t) ==
    /\ DOMAIN t = TunerFields
    /\ t.ceiling \in Ceilings /\ CostsOK(t.ceiling, t.costs)
    /\ t.cursor \in Nat /\ t.drifting \in 0 .. DriftPatience - 1
    /\ t.settled = 0 => Lacking(t.ceiling, t.costs) # {} /\ t.drifting = 0
    /\ t.settled # 0 => Lacking(t.ceiling, t.costs) = {} /\ t.settled = Knee(t.costs)
    /\ t.probing \in {0} \cup Ladder(t.ceiling)
    /\ BatchOK(t.batch, t.ceiling)
    /\ (t.settled = 0 /\ t.batch # NoBatch /\ t.batch.size >= MinBatch) =>
          t.probing \in Short(t) /\ t.batch.workers = Min({t.probing, t.batch.size})

(* What is due has been taken, but for the samples that are lacking.         *)
CalibrationOK(c, t) ==
    /\ DOMAIN c = {"taken", "due", "slow"}
    /\ c.taken \in Nat /\ c.due \in Nat /\ c.slow = t.drifting
    /\ t.settled = 0 => c.taken + Cardinality(Lacking(t.ceiling, t.costs)) = c.due
    /\ t.settled # 0 => c.taken = c.due

TimingsOK(w) ==
    /\ w.ceiling \in Ceilings /\ DOMAIN w.costs \subseteq Ladder(w.ceiling)
    /\ w.costs \in [DOMAIN w.costs -> Nat]
    /\ w.settled # 0 => DOMAIN w.costs = Ladder(w.ceiling) /\ w.settled = KneeOf(w.costs)

(* A tuner that has calibrated nothing stands where the last one stood.      *)
AdoptedOK(t, c, w) ==
    (w.ceiling = t.ceiling /\ w.settled # 0 /\ c.due = 0) => t.settled = w.settled

TunerInv ==
    /\ worker_tuning # NoTimings => TimingsOK(worker_tuning)
    /\ tuner # NoTuner =>
          /\ TunerOK(tuner) /\ CalibrationOK(calibration, tuner)
          /\ worker_tuning # NoTimings => AdoptedOK(tuner, calibration, worker_tuning)

LEMMA WantedFacts ==
    ASSUME NEW ceiling, NEW rung
    PROVE  /\ Wanted(ceiling, rung) \in 1 .. SamplesPerRung
           /\ SamplesPerRung \in 1 .. 2
  BY TunerAssumption DEF Wanted

LEMMA LadderFacts ==
    ASSUME NEW ceiling \in Ceilings
    PROVE  /\ ceiling \in Nat \ {0} /\ ceiling \in Ladder(ceiling)
           /\ Ladder(ceiling) \subseteq 1 .. ceiling /\ IsFiniteSet(Ladder(ceiling))
<1>1. ceiling \in Nat \ {0}
  BY TunerAssumption
<1>2. Ladder(ceiling) \subseteq 1 .. ceiling
  BY DEF Ladder
<1>3. ceiling \in Ladder(ceiling)
  BY <1>1 DEF Ladder
<1>4. IsFiniteSet(1 .. ceiling)
  BY <1>1, FS_Interval
<1> QED BY <1>1, <1>2, <1>3, <1>4, FS_Subset

LEMMA LackingFacts ==
    ASSUME NEW ceiling \in Ceilings, NEW costs
    PROVE  /\ IsFiniteSet(Lacking(ceiling, costs))
           /\ Cardinality(Lacking(ceiling, costs)) \in Nat
           /\ Cardinality(Lacking(ceiling, costs)) = 0 <=> Lacking(ceiling, costs) = {}
<1>1. IsFiniteSet(Ladder(ceiling)) /\ IsFiniteSet(1 .. SamplesPerRung)
  BY LadderFacts, FS_Interval, TunerAssumption
<1>2. IsFiniteSet(Ladder(ceiling) \X (1 .. SamplesPerRung))
  BY <1>1, FS_Product
<1>3. Lacking(ceiling, costs) \subseteq Ladder(ceiling) \X (1 .. SamplesPerRung)
  BY DEF Lacking
<1>4. IsFiniteSet(Lacking(ceiling, costs))
  BY <1>2, <1>3, FS_Subset
<1> QED BY <1>4, FS_CardinalityType, FS_EmptySet

LEMMA ShortIsLacking ==
    ASSUME NEW t, t.ceiling \in Ceilings, CostsOK(t.ceiling, t.costs)
    PROVE  Short(t) = {} <=> Lacking(t.ceiling, t.costs) = {}
<1> DEFINE L == Ladder(t.ceiling)
<1>1. ASSUME NEW r \in Short(t) PROVE <<r, Len(t.costs[r]) + 1>> \in Lacking(t.ceiling, t.costs)
  <2>1. r \in L /\ Len(t.costs[r]) \in Nat /\ Len(t.costs[r]) < Wanted(t.ceiling, r)
    BY <1>1 DEF Short, CostsOK
  <2>2. Len(t.costs[r]) + 1 \in 1 .. SamplesPerRung
    BY <2>1, WantedFacts
  <2>3. Wanted(t.ceiling, r) \in Nat
    BY WantedFacts
  <2> QED BY <2>1, <2>2, <2>3 DEF Lacking
<1>2. ASSUME NEW s \in Lacking(t.ceiling, t.costs) PROVE s[1] \in Short(t)
  <2>1. s[1] \in L /\ s[2] \in Nat /\ Len(t.costs[s[1]]) < s[2] /\ s[2] <= Wanted(t.ceiling, s[1])
    BY <1>2 DEF Lacking
  <2>2. Len(t.costs[s[1]]) \in Nat /\ Wanted(t.ceiling, s[1]) \in Nat /\ s[1] \in DOMAIN t.costs
    BY <2>1, WantedFacts DEF CostsOK
  <2> QED BY <2>1, <2>2 DEF Short
<1> QED BY <1>1, <1>2

LEMMA NextRungFacts ==
    ASSUME NEW t, t.ceiling \in Ceilings, CostsOK(t.ceiling, t.costs), t.cursor \in Nat,
           Short(t) # {}
    PROVE  NextRung(t) \in Short(t)
<1> DEFINE rungs == DOMAIN t.costs
           n == Cardinality(rungs)
           Position(r) == Cardinality({q \in rungs : q > r})
           After(r) == (Position(r) + (n - (t.cursor % n))) % n
           S == {After(r) : r \in Short(t)}
<1>1. IsFiniteSet(rungs) /\ rungs # {} /\ n \in Nat /\ n # 0
  <2>1. IsFiniteSet(rungs) /\ rungs # {}
    BY LadderFacts DEF CostsOK
  <2> QED BY <2>1, FS_CardinalityType, FS_EmptySet
<1>2. ASSUME NEW r \in Short(t) PROVE After(r) \in Nat
  <2>1. {q \in rungs : q > r} \subseteq rungs
    OBVIOUS
  <2>2. Position(r) \in Nat
    BY <1>1, <2>1, FS_Subset, FS_CardinalityType
  <2> DEFINE c == t.cursor % n
             p == Position(r)
  <2>3. c \in 0 .. n - 1
    BY <1>1
  <2> HIDE DEF c, n, p
  <2>4. p + (n - c) \in Nat
    BY <1>1, <2>2, <2>3 DEF p
  <2>5. (p + (n - c)) % n \in Nat
    BY <1>1, <2>4
  <2> QED BY <2>5 DEF c, p
<1> HIDE DEF After
<1>3. S \in SUBSET Nat /\ S # {}
  BY <1>2
<1>4. PICK x \in S : \A y \in S : x <= y
  BY <1>3, LeastExists
<1>5. \E r \in Short(t) : \A q \in Short(t) : After(r) <= After(q)
  BY <1>4
<1>6. NextRung(t) = CHOOSE r \in Short(t) : \A q \in Short(t) : After(r) <= After(q)
  BY DEF NextRung, After
<1> QED BY <1>5, <1>6

LEMMA KneeFacts ==
    ASSUME NEW L \in SUBSET Nat, L # {}, NEW price \in [L -> Nat]
    PROVE  KneeOf(price) \in L
<1> DEFINE P == Range(price)
           S == {r \in L : 10 * price[r] <= 11 * Min(P)}
<1>1. P \in SUBSET Nat /\ P # {}
  BY DEF Range
<1>2. Min(P) \in P
  BY <1>1, MinIsLeast
<1>3. PICK r \in L : price[r] = Min(P)
  BY <1>2 DEF Range
<1>4. price[r] \in Nat
  OBVIOUS
<1>5. r \in S
  BY <1>3, <1>4
<1>6. S \in SUBSET Nat /\ S # {}
  BY <1>5
<1>7. Min(S) \in S
  BY <1>6, MinIsLeast
<1> QED BY <1>7 DEF KneeOf

LEMMA MedianFacts ==
    ASSUME NEW s \in Seq(Nat), Len(s) > 0
    PROVE  MedianCost(s) \in Nat
<1>1. s[1] \in Nat /\ s[Len(s)] \in Nat
  OBVIOUS
<1>2. \A a, b \in Nat : (a + b) \div 2 \in Nat
  OBVIOUS
<1> QED BY <1>1, <1>2 DEF MedianCost

LEMMA MedianOfSame ==
    ASSUME NEW m \in Nat, NEW k \in Nat \ {0}
    PROVE  LET s == [i \in 1 .. k |-> m]
           IN  s \in Seq(Nat) /\ Len(s) = k /\ MedianCost(s) = m
<1> DEFINE s == [i \in 1 .. k |-> m]
<1>1. s \in Seq(Nat) /\ Len(s) = k
  OBVIOUS
<1>2. s[1] = m /\ s[Len(s)] = m
  BY <1>1
<1>3. (m + m) \div 2 = m
  OBVIOUS
<1> QED BY <1>1, <1>2, <1>3 DEF MedianCost

(* The prices of a ladder that has a sample on every rung.                   *)
LEMMA PricesOfLadder ==
    ASSUME NEW ceiling \in Ceilings, NEW costs, CostsOK(ceiling, costs),
           \A r \in Ladder(ceiling) : Len(costs[r]) > 0
    PROVE  LET price == [r \in DOMAIN costs |-> MedianCost(costs[r])]
           IN  /\ price \in [Ladder(ceiling) -> Nat] /\ Knee(costs) = KneeOf(price)
               /\ Knee(costs) \in Ladder(ceiling) /\ Knee(costs) # 0
<1> DEFINE price == [r \in DOMAIN costs |-> MedianCost(costs[r])]
           L == Ladder(ceiling)
<1>1. price \in [L -> Nat]
  BY MedianFacts DEF CostsOK
<1>2. Knee(costs) = KneeOf(price)
  BY DEF Knee, KneeOf
<1>3. L \in SUBSET Nat /\ L # {} /\ 0 \notin L
  BY LadderFacts
<1> HIDE DEF price, L
<1>4. KneeOf(price) \in L
  BY <1>1, <1>3, KneeFacts
<1> QED BY <1>1, <1>2, <1>3, <1>4 DEF price, L

(* A ladder that lacks nothing has the samples wanted on every rung.         *)
LEMMA NothingLacking ==
    ASSUME NEW t, t.ceiling \in Ceilings, CostsOK(t.ceiling, t.costs),
           Lacking(t.ceiling, t.costs) = {}
    PROVE  \A r \in Ladder(t.ceiling) : Len(t.costs[r]) > 0
<1>1. Short(t) = {}
  BY ShortIsLacking
<1>2. ASSUME NEW r \in Ladder(t.ceiling) PROVE Len(t.costs[r]) > 0
  <2>1. ~(Len(t.costs[r]) < Wanted(t.ceiling, r))
    BY <1>1 DEF Short, CostsOK
  <2>2. Len(t.costs[r]) \in Nat /\ Wanted(t.ceiling, r) \in 1 .. SamplesPerRung /\ SamplesPerRung \in 1 .. 2
    BY WantedFacts DEF CostsOK
  <2> QED BY <2>1, <2>2
<1> QED BY <1>2

(* A new ladder lacks every sample, an adopted one none.                     *)
LEMMA NewTunerFacts ==
    ASSUME NEW ceiling \in Ceilings
    PROVE  LET t == NewTuner(ceiling)
           IN  /\ DOMAIN t = TunerFields /\ t.ceiling = ceiling /\ t.cursor = 0
               /\ t.settled = 0 /\ t.drifting = 0 /\ t.probing = ceiling /\ t.batch = NoBatch
               /\ CostsOK(ceiling, t.costs)
               /\ Cardinality(Lacking(ceiling, t.costs)) = WholeLadder(ceiling)
               /\ Lacking(ceiling, t.costs) # {} /\ WholeLadder(ceiling) \in Nat \ {0}
<1> DEFINE t == NewTuner(ceiling)
           L == Ladder(ceiling)
<1>1. /\ DOMAIN t = TunerFields /\ t.ceiling = ceiling /\ t.cursor = 0
      /\ t.settled = 0 /\ t.drifting = 0 /\ t.probing = ceiling /\ t.batch = NoBatch
      /\ t.costs = [r \in L |-> <<>>]
  BY DEF NewTuner, TunerFields
<1> HIDE DEF t
<1>2. \A r \in L : t.costs[r] = <<>> /\ Len(t.costs[r]) = 0
  BY <1>1
<1>3. CostsOK(ceiling, t.costs)
  <2>1. <<>> \in Seq(Nat)
    OBVIOUS
  <2>2. \A r \in L : 0 <= Wanted(ceiling, r)
    BY WantedFacts
  <2>3. DOMAIN t.costs = L
    BY <1>1
  <2> QED BY <1>2, <2>1, <2>2, <2>3 DEF CostsOK
<1>4. Lacking(ceiling, t.costs)
        = {s \in L \X (1 .. SamplesPerRung) : s[2] <= Wanted(ceiling, s[1])}
  <2>1. ASSUME NEW s \in L \X (1 .. SamplesPerRung) PROVE Len(t.costs[s[1]]) < s[2]
    <3>1. s[1] \in L /\ s[2] \in Nat /\ s[2] > 0
      BY TunerAssumption
    <3> QED BY <1>2, <3>1
  <2> QED BY <2>1 DEF Lacking
<1>5. Cardinality(Lacking(ceiling, t.costs)) = WholeLadder(ceiling)
  BY <1>4 DEF WholeLadder
<1>6. Lacking(ceiling, t.costs) # {}
  <2>1. ceiling \in L /\ 1 \in 1 .. SamplesPerRung /\ 1 <= Wanted(ceiling, ceiling)
    BY LadderFacts, WantedFacts
  <2>2. <<ceiling, 1>> \in L \X (1 .. SamplesPerRung)
    BY <2>1
  <2> QED BY <1>4, <2>1, <2>2
<1>7. WholeLadder(ceiling) \in Nat \ {0}
  BY <1>5, <1>6, LackingFacts
<1> QED BY <1>1, <1>3, <1>5, <1>6, <1>7 DEF t

LEMMA NewTunerOK ==
    ASSUME NEW ceiling \in Ceilings, NEW t, DOMAIN t = TunerFields,
           t.ceiling = ceiling, t.cursor = 0, t.settled = 0, t.drifting = 0,
           t.costs = NewTuner(ceiling).costs, t.batch = NoBatch,
           t.probing \in {0} \cup Ladder(ceiling)
    PROVE  TunerOK(t)
<1>1. 0 \in 0 .. DriftPatience - 1
  BY TunerAssumption
<1>2. BatchOK(NoBatch, ceiling)
  BY LadderFacts DEF BatchOK, NoBatch
<1> QED BY <1>1, <1>2, NewTunerFacts DEF TunerOK

LEMMA AdoptedFacts ==
    ASSUME NEW ceiling \in Ceilings, worker_tuning # NoTimings, TimingsOK(worker_tuning),
           worker_tuning.ceiling = ceiling, DOMAIN worker_tuning.costs = Ladder(ceiling)
    PROVE  LET t == Adopted(NewTuner(ceiling))
           IN  /\ TunerOK(t) /\ t.ceiling = ceiling /\ t.drifting = 0 /\ t.settled # 0
               /\ worker_tuning.settled # 0 => t.settled = worker_tuning.settled
<1> DEFINE n == NewTuner(ceiling)
           t == Adopted(n)
           L == Ladder(ceiling)
           W == worker_tuning.costs
           costs == [r \in L |-> [i \in 1 .. Wanted(ceiling, r) |-> W[r]]]
<1>1. /\ DOMAIN n = TunerFields /\ n.ceiling = ceiling /\ n.cursor = 0 /\ n.settled = 0
      /\ n.drifting = 0 /\ n.probing = ceiling /\ n.batch = NoBatch /\ DOMAIN n.costs = L
  BY NewTunerFacts DEF CostsOK
<1> HIDE DEF n
<1>2. t = [n EXCEPT !.costs = costs, !.settled = Knee(costs)]
  BY <1>1 DEF Adopted
<1> HIDE DEF t
<1>3. /\ DOMAIN t = TunerFields /\ t.ceiling = ceiling /\ t.cursor = 0 /\ t.drifting = 0
      /\ t.probing = ceiling /\ t.batch = NoBatch /\ t.costs = costs /\ t.settled = Knee(costs)
  BY <1>1, <1>2 DEF TunerFields
<1>4. ASSUME NEW r \in L
      PROVE  /\ costs[r] \in Seq(Nat) /\ Len(costs[r]) = Wanted(ceiling, r)
             /\ Len(costs[r]) > 0 /\ MedianCost(costs[r]) = W[r]
  <2>1. W[r] \in Nat /\ Wanted(ceiling, r) \in Nat \ {0}
    BY WantedFacts DEF TimingsOK
  <2>2. costs[r] = [i \in 1 .. Wanted(ceiling, r) |-> W[r]]
    OBVIOUS
  <2> HIDE DEF costs
  <2> QED BY <2>1, <2>2, MedianOfSame
<1>5. DOMAIN costs = L
  OBVIOUS
<1> HIDE DEF costs
<1>6. CostsOK(ceiling, costs)
  <2>1. \A r \in L : Wanted(ceiling, r) \in Nat
    BY WantedFacts
  <2> QED BY <1>4, <1>5, <2>1 DEF CostsOK
<1>7. Lacking(ceiling, costs) = {}
  <2>1. ASSUME NEW s \in Lacking(ceiling, costs) PROVE FALSE
    <3>1. s[1] \in L /\ s[2] \in Nat /\ Len(costs[s[1]]) < s[2] /\ s[2] <= Wanted(ceiling, s[1])
      BY <2>1 DEF Lacking
    <3>2. Wanted(ceiling, s[1]) \in Nat
      BY WantedFacts
    <3> QED BY <1>4, <3>1, <3>2
  <2> QED BY <2>1
<1>8. /\ Knee(costs) = KneeOf([r \in DOMAIN costs |-> MedianCost(costs[r])])
      /\ Knee(costs) # 0
  BY <1>4, <1>6, PricesOfLadder
<1>9. worker_tuning.settled # 0 => Knee(costs) = worker_tuning.settled
  <2>1. W = [r \in L |-> W[r]]
    BY DEF TimingsOK
  <2>2. [r \in DOMAIN costs |-> MedianCost(costs[r])] = [r \in L |-> W[r]]
    BY <1>4, <1>5
  <2> QED BY <1>8, <2>1, <2>2 DEF TimingsOK
<1>10. TunerOK(t)
  <2>1. 0 \in 0 .. DriftPatience - 1
    BY TunerAssumption
  <2>2. BatchOK(NoBatch, ceiling)
    BY LadderFacts DEF BatchOK, NoBatch
  <2>3. ceiling \in Ladder(ceiling)
    BY LadderFacts
  <2> QED BY <1>3, <1>6, <1>7, <1>8, <2>1, <2>2, <2>3 DEF TunerOK
<1> QED BY <1>3, <1>8, <1>9, <1>10 DEF t, n

LEMMA BeginTuningOK ==
    ASSUME TunerInv, NEW ceiling \in Ceilings, BeginTuning(ceiling)
    PROVE  TunerInv'
<1> DEFINE n == NewTuner(ceiling)
           t == Adopted(n)
<1>1. /\ tuner' = t /\ UNCHANGED worker_tuning
      /\ calibration' = [NoCalibration EXCEPT
                           !.due = IF tuner'.settled = 0 THEN WholeLadder(ceiling) ELSE 0]
  BY DEF BeginTuning
<1>2. /\ DOMAIN calibration' = {"taken", "due", "slow"} /\ calibration'.taken = 0
      /\ calibration'.slow = 0
      /\ calibration'.due = IF tuner'.settled = 0 THEN WholeLadder(ceiling) ELSE 0
  BY <1>1 DEF NoCalibration
<1>3. /\ DOMAIN n = TunerFields /\ n.ceiling = ceiling /\ n.cursor = 0 /\ n.settled = 0
      /\ n.drifting = 0 /\ n.probing = ceiling /\ n.batch = NoBatch
      /\ DOMAIN n.costs = Ladder(ceiling)
      /\ Cardinality(Lacking(ceiling, n.costs)) = WholeLadder(ceiling)
      /\ WholeLadder(ceiling) \in Nat \ {0}
  BY NewTunerFacts DEF CostsOK
<1>4. ceiling \in Ladder(ceiling)
  BY LadderFacts
<1>5. CASE /\ worker_tuning # NoTimings /\ worker_tuning.ceiling = ceiling
           /\ DOMAIN worker_tuning.costs = Ladder(ceiling)
  <2>1. TimingsOK(worker_tuning)
    BY <1>5 DEF TunerInv
  <2>2. /\ TunerOK(t) /\ t.ceiling = ceiling /\ t.drifting = 0 /\ t.settled # 0
        /\ worker_tuning.settled # 0 => t.settled = worker_tuning.settled
    BY <1>5, <2>1, AdoptedFacts
  <2> HIDE DEF t
  <2>3. CalibrationOK(calibration', tuner') /\ AdoptedOK(tuner', calibration', worker_tuning)
    BY <1>1, <1>2, <2>2 DEF CalibrationOK, AdoptedOK
  <2> QED BY <1>1, <2>1, <2>2, <2>3 DEF TunerInv
<1>6. CASE ~(/\ worker_tuning # NoTimings /\ worker_tuning.ceiling = ceiling
             /\ DOMAIN worker_tuning.costs = Ladder(ceiling))
  <2>1. t = n
    BY <1>3, <1>6 DEF Adopted
  <2>2. TunerOK(n)
    BY <1>3, <1>4, NewTunerOK
  <2> HIDE DEF t, n
  <2>3. CalibrationOK(calibration', tuner') /\ AdoptedOK(tuner', calibration', worker_tuning)
    BY <1>1, <1>2, <1>3, <2>1 DEF CalibrationOK, AdoptedOK
  <2> QED BY <1>1, <2>1, <2>2, <2>3 DEF TunerInv
<1> QED BY <1>5, <1>6

LEMMA MinOfTwo ==
    ASSUME NEW a \in Nat, NEW b \in Nat
    PROVE  Min({a, b}) = IF a <= b THEN a ELSE b
<1>1. {a, b} \in SUBSET Nat /\ {a, b} # {}
  OBVIOUS
<1>2. Min({a, b}) \in {a, b} /\ Min({a, b}) <= a /\ Min({a, b}) <= b
  BY <1>1, MinIsLeast
<1> QED BY <1>2

LEMMA MinOfThree ==
    ASSUME NEW a \in Nat, NEW b \in Nat, NEW c \in Nat, a <= c
    PROVE  Min({a, b, c}) = Min({a, b})
<1>1. {a, b, c} \in SUBSET Nat /\ {a, b, c} # {}
  OBVIOUS
<1>2. /\ Min({a, b, c}) \in {a, b, c} /\ Min({a, b, c}) <= a /\ Min({a, b, c}) <= b
      /\ Min({a, b, c}) <= c
  BY <1>1, MinIsLeast
<1>3. Min({a, b}) = IF a <= b THEN a ELSE b
  BY MinOfTwo
<1> QED BY <1>2, <1>3

(* What a calibration counts is not touched by the choice of a batch.        *)
LEMMA SameLadder ==
    ASSUME NEW t, NEW u, NEW c, NEW w,
           u.ceiling = t.ceiling, u.costs = t.costs, u.settled = t.settled,
           u.drifting = t.drifting
    PROVE  /\ CalibrationOK(c, t) => CalibrationOK(c, u)
           /\ AdoptedOK(t, c, w) => AdoptedOK(u, c, w)
  BY DEF CalibrationOK, AdoptedOK

LEMMA ChooseWorkersOK ==
    ASSUME TunerInv, NEW size \in BatchSizes, ChooseWorkers(size)
    PROVE  TunerInv'
<1> DEFINE small == size < MinBatch
           chosen == IF tuner.settled # 0 THEN tuner.settled
                     ELSE IF small THEN tuner.ceiling ELSE NextRung(tuner)
           probed == IF tuner.settled # 0 THEN tuner.probing ELSE IF small THEN 0 ELSE chosen
           batch == [size |-> size, workers |-> Min({chosen, size})]
           u == [tuner EXCEPT !.probing = probed, !.batch = batch]
           L == Ladder(tuner.ceiling)
<1>1. /\ tuner # NoTuner /\ tuner' = u /\ UNCHANGED <<worker_tuning, calibration>>
  BY DEF ChooseWorkers
<1>2. TunerOK(tuner)
  BY <1>1 DEF TunerInv
<1>3. /\ DOMAIN tuner = TunerFields /\ tuner.ceiling \in Ceilings
      /\ CostsOK(tuner.ceiling, tuner.costs) /\ tuner.cursor \in Nat
      /\ tuner.ceiling \in Nat \ {0} /\ tuner.ceiling \in L /\ L \subseteq 1 .. tuner.ceiling
  BY <1>2, LadderFacts DEF TunerOK
<1>4. (tuner.settled = 0 /\ ~small) => NextRung(tuner) \in Short(tuner)
  <2>1. tuner.settled = 0 => Short(tuner) # {}
    BY <1>2, <1>3, ShortIsLacking DEF TunerOK
  <2> QED BY <1>3, <2>1, NextRungFacts
<1>5. Short(tuner) \subseteq L
  BY <1>3 DEF Short, CostsOK
<1>6. tuner.settled # 0 => tuner.settled \in L
  <2>1. tuner.settled # 0 => \A r \in L : Len(tuner.costs[r]) > 0
    BY <1>2, <1>3, NothingLacking DEF TunerOK
  <2> QED BY <1>2, <1>3, <2>1, PricesOfLadder DEF TunerOK
<1>7. chosen \in L /\ probed \in {0} \cup L
  BY <1>2, <1>3, <1>4, <1>5, <1>6 DEF TunerOK
<1>8. size \in Nat \ {0}
  BY TunerAssumption
<1>9. BatchOK(batch, tuner.ceiling)
  <2>1. chosen \in Nat /\ chosen <= tuner.ceiling
    BY <1>3, <1>7
  <2>2. Min({chosen, size}) \in 0 .. tuner.ceiling
    BY <1>3, <1>8, <2>1, MinOfTwo
  <2> QED BY <1>8, <2>2 DEF BatchOK
<1>10. (tuner.settled = 0 /\ size >= MinBatch) =>
          probed \in Short(tuner) /\ batch.workers = Min({probed, size})
  <2>1. size >= MinBatch => ~small
    BY <1>8, TunerAssumption
  <2> QED BY <1>4, <2>1
<1>11. batch.size = size
  OBVIOUS
<1> HIDE DEF probed, chosen, batch, small
<1>12. /\ DOMAIN u = TunerFields /\ u.ceiling = tuner.ceiling /\ u.costs = tuner.costs
       /\ u.cursor = tuner.cursor /\ u.settled = tuner.settled /\ u.drifting = tuner.drifting
       /\ u.probing = probed /\ u.batch = batch
  BY <1>3 DEF TunerFields
<1> HIDE DEF u
<1>13. Short(u) = Short(tuner)
  BY <1>12 DEF Short
<1>14. TunerOK(u)
  BY <1>2, <1>7, <1>9, <1>10, <1>11, <1>12, <1>13 DEF TunerOK
<1>15. CalibrationOK(calibration, u)
  BY <1>1, <1>12, SameLadder DEF TunerInv
<1>16. worker_tuning # NoTimings => AdoptedOK(u, calibration, worker_tuning)
  BY <1>1, <1>12, SameLadder DEF TunerInv
<1> QED BY <1>1, <1>14, <1>15, <1>16 DEF TunerInv

(* A sample is one of those the ladder lacked.                               *)
LEMMA OneLess ==
    ASSUME NEW ceiling \in Ceilings, NEW costs, CostsOK(ceiling, costs),
           NEW p \in Ladder(ceiling), Len(costs[p]) < Wanted(ceiling, p), NEW cost \in Nat
    PROVE  LET more == [costs EXCEPT ![p] = Append(@, cost)]
           IN  /\ CostsOK(ceiling, more)
               /\ Cardinality(Lacking(ceiling, costs))
                    = Cardinality(Lacking(ceiling, more)) + 1
<1> DEFINE more == [costs EXCEPT ![p] = Append(@, cost)]
           L == Ladder(ceiling)
           k == Len(costs[p]) + 1
           old == Lacking(ceiling, costs)
           new == Lacking(ceiling, more)
<1>1. /\ costs[p] \in Seq(Nat) /\ k \in Nat \ {0} /\ k <= Wanted(ceiling, p)
      /\ Wanted(ceiling, p) \in 1 .. SamplesPerRung
  BY WantedFacts DEF CostsOK
<1>2. /\ DOMAIN more = L /\ more[p] = Append(costs[p], cost)
      /\ \A r \in L \ {p} : more[r] = costs[r]
  BY DEF CostsOK
<1>3. Append(costs[p], cost) \in Seq(Nat) /\ Len(Append(costs[p], cost)) = k
  BY <1>1
<1> HIDE DEF more
<1>4. CostsOK(ceiling, more)
  BY <1>1, <1>2, <1>3 DEF CostsOK
<1>5. <<p, k>> \in old
  <2>1. k \in 1 .. SamplesPerRung /\ Len(costs[p]) < k
    BY <1>1, TunerAssumption
  <2>2. <<p, k>> \in L \X (1 .. SamplesPerRung) /\ <<p, k>>[1] = p /\ <<p, k>>[2] = k
    BY <2>1
  <2> QED BY <1>1, <2>1, <2>2 DEF Lacking
<1>6. new = old \ {<<p, k>>}
  <2>1. ASSUME NEW s \in L \X (1 .. SamplesPerRung)
        PROVE  s \in new <=> s \in old /\ s # <<p, k>>
    <3>1. s = <<s[1], s[2]>> /\ s[1] \in L /\ s[2] \in Nat
      BY TunerAssumption
    <3>2. Len(costs[s[1]]) \in Nat
      BY <3>1 DEF CostsOK
    <3>3. CASE s[1] = p
      <4>1. Len(more[s[1]]) = Len(costs[s[1]]) + 1 /\ k = Len(costs[s[1]]) + 1
        BY <1>2, <1>3, <3>3
      <4>2. Len(more[s[1]]) < s[2] <=> Len(costs[s[1]]) < s[2] /\ s[2] # k
        BY <3>1, <3>2, <3>3, <4>1
      <4>3. s # <<p, k>> <=> s[2] # k
        BY <3>1, <3>3
      <4> QED BY <4>2, <4>3 DEF Lacking
    <3>4. CASE s[1] # p
      <4>1. more[s[1]] = costs[s[1]] /\ s # <<p, k>>
        BY <1>2, <3>1, <3>4
      <4> QED BY <4>1 DEF Lacking
    <3> QED BY <3>3, <3>4
  <2> QED BY <2>1 DEF Lacking
<1>7. Cardinality(new) = Cardinality(old) - 1
  <2>1. IsFiniteSet(old)
    BY LackingFacts
  <2> HIDE DEF old, new, k
  <2> QED BY <1>5, <1>6, <2>1, FS_RemoveElement
<1>8. Cardinality(old) \in Nat
  BY LackingFacts
<1> QED BY <1>4, <1>7, <1>8 DEF more

(* What a batch that says something makes of the tuner and of the count.     *)
Seen(t, cost) ==
    IF ~Measured(t, cost) THEN t
    ELSE IF t.settled # 0 THEN Watched(t, cost) ELSE Sampled(t, cost)

(* A tuner after a batch: the tuner and the count are sound, and one that    *)
(* has calibrated nothing since it adopted stands where it stood.            *)
SeenOK(t, c, u, d) ==
    /\ DOMAIN u = TunerFields /\ u.ceiling = t.ceiling
    /\ TunerOK([u EXCEPT !.batch = NoBatch])
    /\ CalibrationOK(d, u)
    /\ d.due = 0 => c.due = 0 /\ u.settled = t.settled

LEMMA Rested ==
    ASSUME NEW t, DOMAIN t = TunerFields, t.ceiling \in Ceilings, CostsOK(t.ceiling, t.costs),
           t.cursor \in Nat, t.drifting \in 0 .. DriftPatience - 1,
           t.settled = 0 => Lacking(t.ceiling, t.costs) # {} /\ t.drifting = 0,
           t.settled # 0 => Lacking(t.ceiling, t.costs) = {} /\ t.settled = Knee(t.costs),
           t.probing \in {0} \cup Ladder(t.ceiling)
    PROVE  TunerOK([t EXCEPT !.batch = NoBatch])
<1> DEFINE u == [t EXCEPT !.batch = NoBatch]
<1>1. /\ DOMAIN u = TunerFields /\ u.batch = NoBatch
      /\ \A f \in TunerFields \ {"batch"} : u[f] = t[f]
  BY DEF TunerFields
<1> HIDE DEF u
<1>2. /\ u.ceiling = t.ceiling /\ u.costs = t.costs /\ u.cursor = t.cursor
      /\ u.settled = t.settled /\ u.drifting = t.drifting /\ u.probing = t.probing
  BY <1>1 DEF TunerFields
<1>3. BatchOK(NoBatch, t.ceiling)
  BY LadderFacts DEF BatchOK, NoBatch
<1> QED BY <1>1, <1>2, <1>3 DEF TunerOK, u

LEMMA SampledOK ==
    ASSUME NEW t, TunerOK(t), NEW c, CalibrationOK(c, t), NEW cost \in Nat,
           t.batch # NoBatch, t.batch.size >= MinBatch, t.settled = 0
    PROVE  SeenOK(t, c, Sampled(t, cost), [c EXCEPT !.taken = @ + 1])
<1> DEFINE d == [c EXCEPT !.taken = @ + 1]
           p == t.probing
           L == Ladder(t.ceiling)
           more == [t.costs EXCEPT ![p] = Append(@, cost)]
           v == [t EXCEPT !.costs[t.probing] = Append(@, cost), !.cursor = @ + 1]
           u == Sampled(t, cost)
<1>1. /\ DOMAIN t = TunerFields /\ t.ceiling \in Ceilings /\ CostsOK(t.ceiling, t.costs)
      /\ t.cursor \in Nat /\ t.drifting = 0 /\ p \in Short(t)
      /\ t.batch.workers = Min({p, t.batch.size}) /\ t.batch.size \in Nat
  BY DEF TunerOK, BatchOK
<1>2. /\ p \in L /\ Len(t.costs[p]) < Wanted(t.ceiling, p) /\ p \in Nat \ {0} /\ p <= t.ceiling
      /\ t.ceiling \in Nat
  BY <1>1, LadderFacts DEF Short, CostsOK
<1>3. t.batch.workers = Min({p, t.batch.size, t.ceiling})
  BY <1>1, <1>2, MinOfThree
<1>4. /\ CostsOK(t.ceiling, more)
      /\ Cardinality(Lacking(t.ceiling, t.costs)) = Cardinality(Lacking(t.ceiling, more)) + 1
  <2> HIDE DEF p
  <2> QED BY <1>1, <1>2, OneLess
<1>5. v = [t EXCEPT !.costs = more, !.cursor = @ + 1]
  BY <1>1 DEF TunerFields
<1> HIDE DEF more, v
<1>6. /\ DOMAIN v = TunerFields /\ v.costs = more /\ v.cursor = t.cursor + 1
      /\ v.ceiling = t.ceiling /\ v.settled = 0 /\ v.drifting = 0 /\ v.probing = p
      /\ v.batch = t.batch
  BY <1>1, <1>5 DEF TunerFields
<1>7. u = IF Short(v) # {} THEN v ELSE [v EXCEPT !.settled = Knee(v.costs), !.drifting = 0]
  BY <1>2, <1>3 DEF Sampled, v
<1> HIDE DEF u
<1>8. /\ DOMAIN d = {"taken", "due", "slow"} /\ d.taken = c.taken + 1 /\ d.due = c.due
      /\ d.slow = 0 /\ c.taken \in Nat /\ c.due \in Nat
      /\ c.taken + Cardinality(Lacking(t.ceiling, t.costs)) = c.due
  BY <1>1 DEF CalibrationOK
<1> HIDE DEF d
<1>9. Short(v) = {} <=> Lacking(t.ceiling, more) = {}
  BY <1>1, <1>4, <1>6, ShortIsLacking
<1>10. /\ Cardinality(Lacking(t.ceiling, more)) \in Nat
       /\ Cardinality(Lacking(t.ceiling, more)) = 0 <=> Lacking(t.ceiling, more) = {}
  BY <1>1, LackingFacts
<1>11. d.due # 0 /\ 0 \in 0 .. DriftPatience - 1 /\ v.cursor \in Nat
  BY <1>1, <1>4, <1>6, <1>8, <1>10, TunerAssumption
<1>12. CASE Short(v) # {}
  <2>1. u = v
    BY <1>7, <1>12
  <2>2. TunerOK([v EXCEPT !.batch = NoBatch])
    BY <1>1, <1>2, <1>4, <1>6, <1>9, <1>11, <1>12, Rested
  <2>3. CalibrationOK(d, v)
    BY <1>4, <1>6, <1>8, <1>10 DEF CalibrationOK
  <2> QED BY <1>6, <1>11, <2>1, <2>2, <2>3 DEF SeenOK, d, u
<1>13. CASE Short(v) = {}
  <2>1. u = [v EXCEPT !.settled = Knee(v.costs), !.drifting = 0]
    BY <1>7, <1>13
  <2>2. /\ DOMAIN u = TunerFields /\ u.costs = more /\ u.cursor = v.cursor
        /\ u.ceiling = t.ceiling /\ u.settled = Knee(more) /\ u.drifting = 0 /\ u.probing = p
    BY <1>6, <2>1 DEF TunerFields
  <2>3. Lacking(t.ceiling, more) = {}
    BY <1>9, <1>13
  <2>4. Knee(more) # 0
    <3>1. \A r \in L : Len(more[r]) > 0
      BY <1>1, <1>4, <1>6, <2>3, NothingLacking
    <3> QED BY <1>1, <1>4, <3>1, PricesOfLadder
  <2>5. TunerOK([u EXCEPT !.batch = NoBatch])
    BY <1>1, <1>2, <1>4, <1>11, <2>2, <2>3, <2>4, Rested
  <2>6. CalibrationOK(d, u)
    BY <1>4, <1>8, <1>10, <2>2, <2>3, <2>4 DEF CalibrationOK
  <2> QED BY <1>11, <2>2, <2>5, <2>6 DEF SeenOK, d, u
<1> QED BY <1>12, <1>13

LEMMA WatchedOK ==
    ASSUME NEW t, TunerOK(t), NEW c, CalibrationOK(c, t), NEW cost, Measured(t, cost),
           t.settled # 0
    PROVE  SeenOK(t, c, Watched(t, cost), Accounted(c, t, cost))
<1> DEFINE d == Accounted(c, t, cost)
           u == Watched(t, cost)
           n == NewTuner(t.ceiling)
<1>1. /\ DOMAIN t = TunerFields /\ t.ceiling \in Ceilings /\ CostsOK(t.ceiling, t.costs)
      /\ t.cursor \in Nat /\ t.drifting \in 0 .. DriftPatience - 1
      /\ Lacking(t.ceiling, t.costs) = {} /\ t.settled = Knee(t.costs)
      /\ t.probing \in {0} \cup Ladder(t.ceiling)
  BY DEF TunerOK
<1>2. /\ DOMAIN c = {"taken", "due", "slow"} /\ c.taken \in Nat /\ c.due \in Nat
      /\ c.slow = t.drifting /\ c.taken = c.due
  BY DEF CalibrationOK
<1>3. DriftPatience \in Nat \ {0}
  BY TunerAssumption
<1>4. ASSUME Slow(t, cost), t.drifting + 1 >= DriftPatience
      PROVE  SeenOK(t, c, u, d)
  <2>1. u = [n EXCEPT !.probing = t.probing, !.batch = t.batch]
    BY <1>4 DEF Watched
  <2>2. c.slow + 1 = DriftPatience
    BY <1>1, <1>2, <1>3, <1>4
  <2>3. d = [c EXCEPT !.slow = 0, !.due = @ + WholeLadder(t.ceiling)]
    BY <1>4, <2>2 DEF Accounted
  <2>4. /\ DOMAIN n = TunerFields /\ n.ceiling = t.ceiling /\ n.cursor = 0 /\ n.settled = 0
        /\ n.drifting = 0 /\ CostsOK(t.ceiling, n.costs)
        /\ Cardinality(Lacking(t.ceiling, n.costs)) = WholeLadder(t.ceiling)
        /\ Lacking(t.ceiling, n.costs) # {} /\ WholeLadder(t.ceiling) \in Nat \ {0}
    BY <1>1, NewTunerFacts
  <2> HIDE DEF n, u, d
  <2>5. /\ DOMAIN u = TunerFields /\ u.ceiling = t.ceiling /\ u.cursor = 0 /\ u.settled = 0
        /\ u.drifting = 0 /\ u.costs = n.costs /\ u.probing = t.probing
    BY <2>1, <2>4 DEF TunerFields
  <2>6. /\ DOMAIN d = {"taken", "due", "slow"} /\ d.taken = c.taken /\ d.slow = 0
        /\ d.due = c.due + WholeLadder(t.ceiling)
    BY <1>2, <2>3
  <2>7. 0 \in 0 .. DriftPatience - 1 /\ 0 \in Nat
    BY <1>3
  <2>8. TunerOK([u EXCEPT !.batch = NoBatch])
    BY <1>1, <2>4, <2>5, <2>7, Rested
  <2>9. CalibrationOK(d, u) /\ d.due # 0
    BY <1>2, <2>4, <2>5, <2>6 DEF CalibrationOK
  <2> QED BY <2>5, <2>8, <2>9 DEF SeenOK, u, d
<1>5. ASSUME NEW k \in 0 .. DriftPatience - 1, u = [t EXCEPT !.drifting = k],
             d = [c EXCEPT !.slow = k]
      PROVE  SeenOK(t, c, u, d)
  <2> HIDE DEF u, d
  <2>1. /\ DOMAIN u = TunerFields /\ u.ceiling = t.ceiling /\ u.cursor = t.cursor
        /\ u.settled = t.settled /\ u.drifting = k /\ u.costs = t.costs
        /\ u.probing = t.probing
    BY <1>1, <1>5 DEF TunerFields
  <2>2. /\ DOMAIN d = {"taken", "due", "slow"} /\ d.taken = c.taken /\ d.slow = k
        /\ d.due = c.due
    BY <1>2, <1>5
  <2>3. TunerOK([u EXCEPT !.batch = NoBatch])
    BY <1>1, <2>1, Rested
  <2>4. CalibrationOK(d, u)
    BY <1>2, <2>1, <2>2 DEF CalibrationOK
  <2> QED BY <2>1, <2>2, <2>3, <2>4 DEF SeenOK, u, d
<1>6. ASSUME Slow(t, cost), ~(t.drifting + 1 >= DriftPatience)
      PROVE  SeenOK(t, c, u, d)
  <2>1. u = [t EXCEPT !.drifting = t.drifting + 1]
    BY <1>6 DEF Watched
  <2>2. c.slow + 1 # DriftPatience /\ t.drifting + 1 \in 0 .. DriftPatience - 1
    BY <1>1, <1>2, <1>3, <1>6
  <2>3. d = [c EXCEPT !.slow = t.drifting + 1]
    BY <1>2, <1>6, <2>2 DEF Accounted
  <2> HIDE DEF u, d
  <2> QED BY <1>5, <2>1, <2>2, <2>3 DEF u, d
<1>7. ASSUME ~Slow(t, cost), Usual(t, cost)
      PROVE  SeenOK(t, c, u, d)
  <2>1. u = [t EXCEPT !.drifting = 0] /\ d = [c EXCEPT !.slow = 0]
    BY <1>7 DEF Watched, Accounted
  <2>2. 0 \in 0 .. DriftPatience - 1
    BY <1>3
  <2> HIDE DEF u, d
  <2> QED BY <1>5, <2>1, <2>2 DEF u, d
<1>8. ASSUME ~Slow(t, cost), ~Usual(t, cost)
      PROVE  SeenOK(t, c, u, d)
  <2>1. u = t /\ d = c
    BY <1>8 DEF Watched, Accounted
  <2>2. TunerOK([t EXCEPT !.batch = NoBatch])
    BY <1>1, Rested
  <2> HIDE DEF u, d
  <2> QED BY <1>1, <2>1, <2>2 DEF SeenOK, u, d
<1> QED BY <1>4, <1>6, <1>7, <1>8

LEMMA ObserveBatchOK ==
    ASSUME TunerInv, NEW cost \in Costs, ObserveBatch(cost)
    PROVE  TunerInv'
<1> DEFINE u == Seen(tuner, cost)
           d == Accounted(calibration, tuner, cost)
<1>1. /\ tuner # NoTuner /\ tuner.batch # NoBatch /\ UNCHANGED worker_tuning
      /\ tuner' = [u EXCEPT !.batch = NoBatch] /\ calibration' = d
  BY DEF ObserveBatch, Seen
<1>2. TunerOK(tuner) /\ CalibrationOK(calibration, tuner) /\ cost \in Nat
  BY <1>1, TunerAssumption DEF TunerInv
<1>3. SeenOK(tuner, calibration, u, d)
  <2>1. CASE ~Measured(tuner, cost)
    <3>1. u = tuner /\ d = calibration
      BY <2>1 DEF Seen, Accounted
    <3>2. TunerOK([tuner EXCEPT !.batch = NoBatch])
      BY <1>2, Rested DEF TunerOK
    <3> HIDE DEF u, d
    <3> QED BY <1>2, <3>1, <3>2 DEF SeenOK, TunerOK
  <2>2. CASE Measured(tuner, cost) /\ tuner.settled = 0
    <3>1. u = Sampled(tuner, cost) /\ d = [calibration EXCEPT !.taken = @ + 1]
      BY <2>2 DEF Seen, Accounted
    <3>2. tuner.batch.size >= MinBatch
      BY <2>2 DEF Measured
    <3> HIDE DEF u, d
    <3> QED BY <1>1, <1>2, <2>2, <3>1, <3>2, SampledOK
  <2>3. CASE Measured(tuner, cost) /\ tuner.settled # 0
    <3>1. u = Watched(tuner, cost)
      BY <2>3 DEF Seen
    <3> HIDE DEF u
    <3> QED BY <1>2, <2>3, <3>1, WatchedOK
  <2> QED BY <2>1, <2>2, <2>3
<1> HIDE DEF u, d
<1>4. /\ tuner'.ceiling = tuner.ceiling /\ tuner'.costs = u.costs
      /\ tuner'.settled = u.settled /\ tuner'.drifting = u.drifting
      /\ TunerOK(tuner') /\ CalibrationOK(d, u)
      /\ d.due = 0 => calibration.due = 0 /\ u.settled = tuner.settled
  BY <1>1, <1>3 DEF SeenOK, TunerFields
<1>5. CalibrationOK(calibration', tuner')
  BY <1>1, <1>3, <1>4, SameLadder DEF SeenOK
<1>6. worker_tuning # NoTimings => AdoptedOK(tuner', calibration', worker_tuning)
  BY <1>1, <1>4 DEF TunerInv, AdoptedOK
<1> QED BY <1>1, <1>4, <1>5, <1>6 DEF TunerInv

(* What is kept of a tuner that has settled settles the next one alike.      *)
LEMMA SaveTuningOK ==
    ASSUME TunerInv, SaveTuning
    PROVE  TunerInv'
<1> DEFINE sampled == {r \in DOMAIN tuner.costs : tuner.costs[r] # <<>>}
           price == [r \in sampled |-> MedianCost(tuner.costs[r])]
           w == [ceiling |-> tuner.ceiling, settled |-> tuner.settled, costs |-> price]
           L == Ladder(tuner.ceiling)
<1>1. tuner # NoTuner /\ tuner' = NoTuner /\ worker_tuning' = w
  BY DEF SaveTuning
<1>2. TunerOK(tuner) /\ tuner.ceiling \in Ceilings /\ CostsOK(tuner.ceiling, tuner.costs)
  BY <1>1 DEF TunerInv, TunerOK
<1>3. ASSUME NEW r \in sampled PROVE MedianCost(tuner.costs[r]) \in Nat
  <2>1. tuner.costs[r] \in Seq(Nat) /\ tuner.costs[r] # <<>>
    BY <1>2 DEF CostsOK
  <2>2. Len(tuner.costs[r]) > 0
    BY <2>1
  <2> QED BY <2>1, <2>2, MedianFacts
<1>4. sampled \subseteq L
  BY <1>2 DEF CostsOK
<1>5. ASSUME tuner.settled # 0 PROVE sampled = L /\ tuner.settled = KneeOf(price)
  <2>1. \A r \in L : Len(tuner.costs[r]) > 0
    BY <1>2, <1>5, NothingLacking DEF TunerOK
  <2>2. \A r \in L : tuner.costs[r] # <<>>
    BY <2>1
  <2>3. sampled = L /\ DOMAIN tuner.costs = L
    BY <1>2, <2>2 DEF CostsOK
  <2>4. Knee(tuner.costs) = KneeOf([r \in DOMAIN tuner.costs |-> MedianCost(tuner.costs[r])])
    BY <1>2, <2>1, PricesOfLadder
  <2>5. tuner.settled = Knee(tuner.costs)
    BY <1>2, <1>5 DEF TunerOK
  <2> HIDE DEF sampled, L
  <2>6. price = [r \in DOMAIN tuner.costs |-> MedianCost(tuner.costs[r])]
    BY <2>3
  <2> QED BY <2>3, <2>4, <2>5, <2>6
<1>6. /\ w.ceiling = tuner.ceiling /\ w.settled = tuner.settled /\ w.costs = price
      /\ DOMAIN price = sampled /\ price \in [sampled -> Nat]
  BY <1>3
<1> HIDE DEF w, price, sampled, L
<1>7. TimingsOK(w)
  BY <1>2, <1>4, <1>5, <1>6 DEF TimingsOK, L
<1> QED BY <1>1, <1>7 DEF TunerInv

LEMMA TunerKept ==
    ASSUME TunerInv, [Next]_researchVars
    PROVE  TunerInv'
<1>1. ASSUME UNCHANGED tunerVars PROVE TunerInv'
  BY <1>1 DEF TunerInv, tunerVars
<1>2. ASSUME TunerStep PROVE TunerInv'
  <2>1. ASSUME NEW ceiling \in Ceilings, BeginTuning(ceiling) PROVE TunerInv'
    BY <2>1, BeginTuningOK
  <2>2. ASSUME NEW size \in BatchSizes, ChooseWorkers(size) PROVE TunerInv'
    BY <2>2, ChooseWorkersOK
  <2>3. ASSUME NEW cost \in Costs, ObserveBatch(cost) PROVE TunerInv'
    BY <2>3, ObserveBatchOK
  <2>4. CASE DropTuning
    BY <2>4 DEF DropTuning, TunerInv
  <2> QED BY <1>2, <2>1, <2>2, <2>3, <2>4, SaveTuningOK DEF TunerStep
<1>3. ASSUME NEW d \in Desks, DeskRequest(d) \/ DeskStep(d) PROVE UNCHANGED tunerVars
  BY <1>3 DEF DeskRequest, DeskStep, DeskAlone
<1>4. ASSUME SegmentStep \/ SearchRequest \/ GenerationStep \/ EvidenceRequest
             \/ EvidenceStep \/ UNCHANGED researchVars
      PROVE  UNCHANGED tunerVars
  BY <1>4 DEF SegmentStep, SearchRequest, GenerationStep, EvidenceRequest, EvidenceStep,
     DeskAlone, SearchAlone, ValidationAlone, researchVars
<1> QED BY <1>1, <1>2, <1>3, <1>4 DEF Next

LEMMA TunerInvariant == Spec => []TunerInv
<1>1. Init => TunerInv
  BY DEF Init, TunerInit, TunerInv
<1>2. TunerInv /\ [Next]_researchVars => TunerInv'
  BY TunerKept
<1> QED BY <1>1, <1>2, PTL DEF Spec

(* "Once every rung has enough samples it settles" (tuning.py 11), and a     *)
(* drift for several batches running walks the ladder again (36-38): a tuner *)
(* is settled exactly when each calibration that was due has had its         *)
(* samples, whatever sizes, clocks and restarts come in between, and one     *)
(* that adopted settled timings stands where the last one stood.             *)
THEOREM TunerCorrect == Spec => []CalibrationsArePaid
<1>1. TunerInv => CalibrationsArePaid
  <2> SUFFICES ASSUME TunerInv, tuner # NoTuner PROVE CalibrationsArePaid
    BY DEF CalibrationsArePaid
  <2>1. /\ TunerOK(tuner) /\ CalibrationOK(calibration, tuner)
        /\ worker_tuning # NoTimings => AdoptedOK(tuner, calibration, worker_tuning)
    BY DEF TunerInv
  <2>2. /\ Cardinality(Lacking(tuner.ceiling, tuner.costs)) \in Nat
        /\ Cardinality(Lacking(tuner.ceiling, tuner.costs)) = 0
              <=> Lacking(tuner.ceiling, tuner.costs) = {}
    BY <2>1, LackingFacts DEF TunerOK
  <2>3. tuner.settled = 0 => calibration.taken < calibration.due
    BY <2>1, <2>2 DEF TunerOK, CalibrationOK
  <2>4. tuner.settled # 0 => calibration.taken = calibration.due
    BY <2>1 DEF CalibrationOK
  <2>5. calibration.taken \in Nat /\ calibration.due \in Nat
    BY <2>1 DEF CalibrationOK
  <2>6. calibration.taken <= calibration.due
    BY <2>3, <2>4, <2>5
  <2>7. tuner.settled # 0 <=> calibration.taken = calibration.due
    BY <2>3, <2>4, <2>5
  <2> QED BY <2>1, <2>6, <2>7 DEF CalibrationsArePaid, AdoptedOK
<1> QED BY <1>1, TunerInvariant, PTL

-----------------------------------------------------------------------------
(* The types of the tuner and of the evidence.                               *)

(* A tuner measures and settles on rungs of its ladder, with no more workers *)
(* than its ceiling (WorkerTuner of tuning.py).                              *)
THEOREM TunerTypesCorrect == Spec => []TunerTypeOK
<1>1. TunerInv => TunerTypeOK
  <2> SUFFICES ASSUME TunerInv, tuner # NoTuner PROVE TunerTypeOK
    BY DEF TunerTypeOK
  <2>1. TunerOK(tuner)
    BY DEF TunerInv
  <2>2. /\ tuner.ceiling \in Ceilings /\ CostsOK(tuner.ceiling, tuner.costs)
        /\ DOMAIN tuner.costs = Ladder(tuner.ceiling)
        /\ tuner.probing \in {0} \cup Ladder(tuner.ceiling)
        /\ tuner.batch.workers \in 0 .. tuner.ceiling
        /\ tuner.drifting \in 0 .. DriftPatience - 1
    BY <2>1 DEF TunerOK, CostsOK, BatchOK
  <2>3. tuner.settled \in {0} \cup Ladder(tuner.ceiling)
    <3>1. CASE tuner.settled = 0
      BY <3>1
    <3>2. CASE tuner.settled # 0
      <4>1. Lacking(tuner.ceiling, tuner.costs) = {} /\ tuner.settled = Knee(tuner.costs)
        BY <2>1, <3>2 DEF TunerOK
      <4>2. \A r \in Ladder(tuner.ceiling) : Len(tuner.costs[r]) > 0
        BY <2>2, <4>1, NothingLacking
      <4>3. Knee(tuner.costs) \in Ladder(tuner.ceiling)
        BY <2>2, <4>2, PricesOfLadder
      <4> QED BY <4>1, <4>3
    <3> QED BY <3>1, <3>2
  <2> QED BY <2>2, <2>3 DEF TunerTypeOK
<1> QED BY <1>1, TunerInvariant, PTL

(* What a plan of strategies makes of all rounds.                            *)
PairsOfAll(rounds, plan) ==
    UNION {Range(PairsOf(rounds[r].trials, plan)) : r \in DOMAIN rounds}

(* Summaries are kept of trials that some round has.                         *)
FiledInv ==
    /\ market.days \in 10 .. MaxDays /\ market.revision \in Revisions
    /\ report # NoReport =>
          DOMAIN report.entries \subseteq PairsOfAll(judged_rounds, report.context.plan)
    /\ report_stats # Nothing =>
          DOMAIN report_stats.entries
             \subseteq PairsOfAll(judged_rounds, report_stats.context.plan)

LEMMA MoreRounds ==
    ASSUME NEW rounds, NEW others, DOMAIN rounds \subseteq DOMAIN others,
           \A r \in DOMAIN rounds : others[r] = rounds[r], NEW plan
    PROVE  PairsOfAll(rounds, plan) \subseteq PairsOfAll(others, plan)
  BY DEF PairsOfAll

LEMMA FiledStart ==
    ASSUME Init
    PROVE  FiledInv
  BY ValidationAssumption DEF Init, ValidationInit, FiledInv, Nothing

LEMMA FiledSelects ==
    ASSUME EvidenceInv, FiledInv, NEW pool, NEW run, SelectRound(pool, run)
    PROVE  FiledInv'
<1> DEFINE chosen == Selection(pool)
           entry == [best |-> chosen.best, polarity |-> chosen.polarity,
                     validated |-> chosen.validated, run |-> run, market |-> market,
                     trials |-> ReportTrials(pool), searched |-> Len(pool)]
           n == Len(judged_rounds)
<1>1. judged_rounds' = Append(judged_rounds, entry) /\ UNCHANGED <<market, report, report_stats>>
  BY DEF SelectRound, evidence
<1>2. IsList(judged_rounds) /\ n \in Nat /\ DOMAIN judged_rounds = 1 .. n
  BY DEF EvidenceInv, IsList
<1> HIDE DEF entry
<1>3. /\ DOMAIN judged_rounds' = 1 .. n + 1
      /\ \A i \in 1 .. n : judged_rounds'[i] = judged_rounds[i]
  BY <1>1, <1>2, Appended
<1> HIDE DEF n
<1>4. /\ DOMAIN judged_rounds \subseteq DOMAIN judged_rounds'
      /\ \A r \in DOMAIN judged_rounds : judged_rounds'[r] = judged_rounds[r]
  BY <1>2, <1>3
<1>5. \A plan : PairsOfAll(judged_rounds, plan) \subseteq PairsOfAll(judged_rounds', plan)
  BY <1>4, MoreRounds
<1> QED BY <1>1, <1>5 DEF FiledInv

LEMMA FiledStarts ==
    ASSUME FiledInv, NEW r, NEW plan, StartReport(r, plan)
    PROVE  FiledInv'
<1> DEFINE context == Context(r, plan)
           entries == LoadSummaries(context)
           next == [step |-> "combining", round |-> r, context |-> context,
                    entries |-> entries, taken |-> <<>>, stop |-> FALSE]
<1>1. report' = next /\ UNCHANGED <<market, judged_rounds, report_stats>>
  BY DEF StartReport
<1> HIDE DEF context
<1>2. DOMAIN entries \subseteq PairsOfAll(judged_rounds, context.plan)
  <2>1. CASE report_stats # Nothing /\ report_stats.context = context
    BY <2>1 DEF FiledInv, LoadSummaries
  <2>2. CASE ~(report_stats # Nothing /\ report_stats.context = context)
    <3>1. entries = <<>>
      BY <2>2 DEF LoadSummaries, Nothing
    <3> QED BY <3>1
  <2> QED BY <2>1, <2>2
<1> HIDE DEF entries
<1>3. next.entries = entries /\ next.context = context
  OBVIOUS
<1> HIDE DEF next
<1> QED BY <1>1, <1>2, <1>3 DEF FiledInv

LEMMA FiledTakes ==
    ASSUME EvidenceInv, FiledInv, TakeSummary
    PROVE  FiledInv'
<1> DEFINE pair == ReportPairs[Len(report.taken) + 1]
           summary == IF pair \in DOMAIN report.entries THEN report.entries[pair]
                      ELSE Summary(pair, report.context)
           more == Filed(report.entries, pair, summary)
           all == PairsOfAll(judged_rounds, report.context.plan)
<1>1. /\ report.step = "combining" /\ Len(report.taken) < Len(ReportPairs)
      /\ report' = [report EXCEPT !.taken = Append(report.taken, summary), !.entries = more]
      /\ UNCHANGED <<market, judged_rounds, report_stats>>
  BY DEF TakeSummary
<1>2. /\ report # NoReport /\ report.round \in DOMAIN judged_rounds
      /\ ReportOK(report, judged_rounds[report.round].trials)
      /\ IsList(judged_rounds[report.round].trials)
      /\ ReportPairs = PairsOf(judged_rounds[report.round].trials, report.context.plan)
  BY <1>1, NoReportFacts
<1>3. DOMAIN report = ReportFields /\ IsList(report.taken) /\ report.context.plan \in Plans
  BY <1>2 DEF ReportOK
<1>4. DOMAIN ReportPairs = 1 .. Len(ReportPairs) /\ Len(ReportPairs) \in Nat
  BY <1>2, <1>3, PairsFacts
<1>5. Len(report.taken) + 1 \in DOMAIN ReportPairs
  <2>1. Len(report.taken) \in Nat
    BY <1>3 DEF IsList
  <2> QED BY <1>1, <1>4, <2>1
<1>6. pair \in all
  <2>1. pair \in Range(ReportPairs)
    BY <1>5 DEF Range
  <2> QED BY <1>2, <2>1 DEF PairsOfAll
<1> HIDE DEF pair
<1>7. DOMAIN more = {pair} \cup DOMAIN report.entries
  BY DEF Filed
<1> HIDE DEF summary, more, all
<1>8. report'.entries = more /\ report'.context = report.context
  BY <1>1, <1>3 DEF ReportFields
<1>9. DOMAIN report.entries \subseteq all
  BY <1>2 DEF FiledInv, all
<1>10. DOMAIN report'.entries \subseteq PairsOfAll(judged_rounds', report'.context.plan)
  BY <1>1, <1>6, <1>7, <1>8, <1>9 DEF all
<1> QED BY <1>1, <1>10 DEF FiledInv

LEMMA FiledGoesOn ==
    ASSUME FiledInv, UNCHANGED <<market, judged_rounds, report_stats>>, report # NoReport,
           report'.entries = report.entries, report'.context = report.context
    PROVE  FiledInv'
  BY DEF FiledInv

LEMMA FiledStep ==
    ASSUME EvidenceInv, FiledInv, StopReport \/ CombineSummaries \/ StreamReturns
    PROVE  FiledInv'
<1>1. report.step # "idle" /\ UNCHANGED <<market, judged_rounds, report_stats>>
  BY DEF StopReport, CombineSummaries, StreamReturns
<1>2. report # NoReport /\ ReportOK(report, judged_rounds[report.round].trials)
  BY <1>1, NoReportFacts
<1>3. DOMAIN report = ReportFields
  BY <1>2 DEF ReportOK
<1>4. report'.entries = report.entries /\ report'.context = report.context
  <2>1. CASE StopReport
    BY <1>3, <2>1 DEF StopReport, ReportFields
  <2>2. CASE CombineSummaries
    BY <1>3, <2>2 DEF CombineSummaries, ReportFields
  <2>3. CASE StreamReturns
    BY <1>3, <2>3 DEF StreamReturns, ReportFields
  <2> QED BY <2>1, <2>2, <2>3
<1> QED BY <1>1, <1>2, <1>4, FiledGoesOn

LEMMA FiledLeaves ==
    ASSUME EvidenceInv, FiledInv, report.step # "idle", Leaves, UNCHANGED <<market, judged_rounds>>
    PROVE  FiledInv'
<1>1. /\ report' = NoReport
      /\ report_stats' = [context |-> report.context, entries |-> report.entries]
  BY DEF Leaves
<1>2. report # NoReport
  BY NoReportFacts
<1>3. report_stats'.context = report.context /\ report_stats'.entries = report.entries
  BY <1>1
<1> QED BY <1>1, <1>2, <1>3 DEF FiledInv

LEMMA FiledDamaged ==
    ASSUME EvidenceInv, FiledInv, DamageSummary
    PROVE  FiledInv'
<1> DEFINE entries == report_stats.entries
<1>1. PICK pair \in DOMAIN entries :
        report_stats' = [report_stats EXCEPT !.entries[pair] = Damaged]
  BY DEF DamageSummary
<1>2. /\ DOMAIN report_stats = {"context", "entries"} /\ report_stats # Nothing
      /\ UNCHANGED <<market, judged_rounds, report>>
  BY DEF EvidenceInv, DamageSummary
<1>3. /\ report_stats'.context = report_stats.context
      /\ report_stats'.entries = [entries EXCEPT ![pair] = Damaged]
  BY <1>1, <1>2
<1>4. DOMAIN report_stats'.entries = DOMAIN entries
  BY <1>3
<1> QED BY <1>2, <1>3, <1>4 DEF FiledInv

LEMMA FiledSyncs ==
    ASSUME FiledInv, SyncPrices
    PROVE  FiledInv'
<1>1. UNCHANGED <<judged_rounds, report, report_stats>>
  BY DEF SyncPrices, evidence
<1>2. /\ market'.days \in market.days .. Smaller(MaxDays, market.days + 1)
      /\ market'.revision \in Revisions
  BY DEF SyncPrices
<1>3. market.days \in 10 .. MaxDays /\ MaxDays \in Nat
  BY ValidationAssumption DEF FiledInv
<1>4. Smaller(MaxDays, market.days + 1) <= MaxDays /\ Smaller(MaxDays, market.days + 1) \in Int
  BY <1>3 DEF Smaller
<1>5. market'.days \in 10 .. MaxDays
  BY <1>2, <1>3, <1>4
<1> QED BY <1>1, <1>2, <1>5 DEF FiledInv

LEMMA FiledKept ==
    ASSUME EvidenceInv, FiledInv, [Next]_researchVars
    PROVE  FiledInv'
<1>1. ASSUME UNCHANGED <<market, judged_rounds, report, report_stats>> PROVE FiledInv'
  BY <1>1 DEF FiledInv
<1>2. ASSUME UNCHANGED validationVars PROVE FiledInv'
  BY <1>1, <1>2 DEF validationVars, evidence
<1>3. ASSUME EvidenceRequest PROVE FiledInv'
  <2>1. ASSUME NEW choice, NEW run, CreateSession(choice, run) PROVE FiledInv'
    BY <1>1, <2>1 DEF CreateSession, evidence
  <2>2. ASSUME NEW pool, NEW run, SelectRound(pool, run) PROVE FiledInv'
    BY <2>2, FiledSelects
  <2>3. ASSUME NEW r, NEW plan, StartReport(r, plan) PROVE FiledInv'
    BY <2>3, FiledStarts
  <2>4. ASSUME NEW r, NEW plan, CompareStrategies(r, plan) PROVE FiledInv'
    BY <1>1, <2>4 DEF CompareStrategies
  <2>5. CASE ExitReport
    BY <2>5 DEF ExitReport, FiledInv
  <2> QED BY <1>3, <2>1, <2>2, <2>3, <2>4, <2>5, FiledStep, FiledSyncs, FiledDamaged
          DEF EvidenceRequest
<1>4. ASSUME ReportStep PROVE FiledInv'
  <2>1. CASE FinishReport \/ CancelReport \/ ReportFails
    <3>1. report.step # "idle" /\ Leaves /\ UNCHANGED <<market, judged_rounds>>
      BY <2>1 DEF FinishReport, CancelReport, ReportFails
    <3> QED BY <3>1, FiledLeaves
  <2> QED BY <1>4, <2>1, FiledTakes, FiledStep DEF ReportStep
<1>5. ASSUME NEW d \in Desks, DeskRequest(d) \/ DeskStep(d) PROVE UNCHANGED validationVars
  BY <1>5 DEF DeskRequest, DeskStep, DeskAlone
<1>6. ASSUME SegmentStep \/ SearchRequest \/ GenerationStep \/ TunerStep
             \/ UNCHANGED researchVars
      PROVE  UNCHANGED validationVars
  BY <1>6 DEF SegmentStep, SearchRequest, GenerationStep, TunerStep,
     DeskAlone, SearchAlone, TunerAlone, researchVars
<1> QED BY <1>2, <1>3, <1>4, <1>5, <1>6 DEF Next, EvidenceStep

(* A report never takes more summaries than it has pairs, and keeps them     *)
(* only of trials that some round has (report_stats.json, pbo.py).           *)
THEOREM EvidenceTypesCorrect == Spec => []ValidationTypeOK
<1>1. Init => EvidenceInv /\ FiledInv
  BY EvidenceStart, FiledStart DEF Init
<1>2. EvidenceInv /\ FiledInv /\ [Next]_researchVars => FiledInv'
  BY FiledKept
<1>3. EvidenceInv /\ FiledInv => ValidationTypeOK
  <2> SUFFICES ASSUME EvidenceInv, FiledInv PROVE ValidationTypeOK
    OBVIOUS
  <2>1. report.step \in {"idle", "combining", "streaming", "combined"}
    BY DEF EvidenceInv, ReportOK, NoReport
  <2>2. ASSUME report.step # "idle"
        PROVE  /\ Len(report.taken) <= Len(ReportPairs)
               /\ DOMAIN report.entries \subseteq
                      UNION {Range(Pairs(r, report.context.plan)) : r \in DOMAIN judged_rounds}
    <3>1. /\ report # NoReport /\ ReportOK(report, judged_rounds[report.round].trials)
          /\ ReportPairs = PairsOf(judged_rounds[report.round].trials, report.context.plan)
      BY <2>2, NoReportFacts
    <3>2. Len(report.taken) <= Len(ReportPairs)
      BY <3>1 DEF ReportOK
    <3>3. DOMAIN report.entries \subseteq PairsOfAll(judged_rounds, report.context.plan)
      BY <3>1 DEF FiledInv
    <3>4. PairsOfAll(judged_rounds, report.context.plan)
            = UNION {Range(Pairs(r, report.context.plan)) : r \in DOMAIN judged_rounds}
      BY DEF PairsOfAll, Pairs, PairsOf
    <3> QED BY <3>2, <3>3, <3>4
  <2> QED BY <2>1, <2>2 DEF ValidationTypeOK, FiledInv
<1> QED BY <1>1, <1>2, <1>3, EvidenceInvariant, PTL DEF Spec

-----------------------------------------------------------------------------
(* The comparison: sums over dates.                                          *)

(* What a sum runs through: the sets of dates, from none to all.             *)
Taken(s) == CHOOSE x \in s : TRUE

LEMMA OneTaken ==
    ASSUME NEW D, IsFiniteSet(D), NEW s \in SUBSET D, s # {}
    PROVE  /\ Taken(s) \in s /\ s \ {Taken(s)} \in SUBSET D
           /\ Cardinality(s) \in Nat \ {0} /\ Cardinality(s \ {Taken(s)}) = Cardinality(s) - 1
<1> DEFINE x == Taken(s)
<1>1. x \in s
  BY DEF Taken
<1> HIDE DEF x
<1>2. IsFiniteSet(s)
  BY FS_Subset
<1>3. Cardinality(s \ {x}) = Cardinality(s) - 1
  BY <1>1, <1>2, FS_RemoveElement
<1>4. Cardinality(s) \in Nat /\ Cardinality(s) # 0
  BY <1>2, FS_CardinalityType, FS_EmptySet
<1> QED BY <1>1, <1>3, <1>4 DEF x

(* A sum is taken element by element.                                        *)
LEMMA SumExists ==
    ASSUME NEW f, IsFiniteSet(DOMAIN f)
    PROVE  \E h : h = [s \in SUBSET DOMAIN f |->
                          IF s = {} THEN 0 ELSE f[Taken(s)] + h[s \ {Taken(s)}]]
<1> DEFINE D == DOMAIN f
           N == Cardinality(D)
           Level(n) == {u \in SUBSET D : Cardinality(u) <= n}
           Gives(h, n) == h = [s \in Level(n) |->
                                  IF s = {} THEN 0 ELSE f[Taken(s)] + h[s \ {Taken(s)}]]
           Can == {n \in 0 .. N : \E h : Gives(h, n)}
<1>1. N \in Nat /\ IsFiniteSet(D)
  BY FS_CardinalityType
<1>2. 0 \in Can
  <2> DEFINE h == [s \in Level(0) |-> 0]
  <2>1. \A s \in Level(0) : s = {}
    <3>1. ASSUME NEW s \in SUBSET D, s # {} PROVE Cardinality(s) \in Nat \ {0}
      BY <1>1, <3>1, OneTaken
    <3>2. ASSUME NEW s \in Level(0), s # {} PROVE FALSE
      <4> DEFINE a == Cardinality(s)
      <4>1. a \in Nat \ {0} /\ a <= 0
        BY <3>1, <3>2
      <4> HIDE DEF a
      <4> QED BY <4>1
    <3> QED BY <3>2
  <2>2. Gives(h, 0)
    BY <2>1
  <2> HIDE DEF h
  <2>3. \E g : Gives(g, 0)
    BY <2>2
  <2> HIDE DEF Gives
  <2> QED BY <1>1, <2>3
<1>3. ASSUME NEW n \in 1 .. N, n - 1 \in Can PROVE n \in Can
  <2>1. PICK g : Gives(g, n - 1)
    BY <1>3
  <2> DEFINE h == [s \in Level(n) |->
                      IF s = {} THEN 0 ELSE f[Taken(s)] + g[s \ {Taken(s)}]]
  <2>2. ASSUME NEW s \in Level(n), s # {} PROVE s \ {Taken(s)} \in Level(n - 1)
    <3>1. /\ s \ {Taken(s)} \in SUBSET D /\ Cardinality(s) \in Nat
          /\ Cardinality(s \ {Taken(s)}) = Cardinality(s) - 1
      BY <1>1, <2>2, OneTaken
    <3>2. Cardinality(s) <= n
      OBVIOUS
    <3> DEFINE a == Cardinality(s)
               b == Cardinality(s \ {Taken(s)})
    <3>3. a \in Nat /\ b = a - 1 /\ a <= n
      BY <3>1, <3>2
    <3> HIDE DEF a, b
    <3>4. b <= n - 1
      BY <1>1, <3>3
    <3> QED BY <3>1, <3>4 DEF b
  <2>3. ASSUME NEW u \in Level(n - 1) PROVE h[u] = g[u]
    <3>1. u \in Level(n)
      <4>1. IsFiniteSet(u)
        BY <1>1, FS_Subset
      <4>2. Cardinality(u) \in Nat /\ Cardinality(u) <= n - 1
        BY <4>1, FS_CardinalityType
      <4> DEFINE a == Cardinality(u)
      <4>3. a \in Nat /\ a <= n - 1
        BY <4>2
      <4> HIDE DEF a
      <4>4. a <= n
        BY <1>1, <4>3
      <4>5. u \in SUBSET D /\ Cardinality(u) <= n
        BY <4>4 DEF a
      <4> QED BY <4>5
    <3> HIDE DEF Level
    <3>2. h[u] = IF u = {} THEN 0 ELSE f[Taken(u)] + g[u \ {Taken(u)}]
      BY <3>1
    <3>3. g[u] = IF u = {} THEN 0 ELSE f[Taken(u)] + g[u \ {Taken(u)}]
      BY <2>1, <2>3
    <3> QED BY <3>2, <3>3
  <2>4. h = [s \in Level(n) |-> IF s = {} THEN 0 ELSE f[Taken(s)] + h[s \ {Taken(s)}]]
    <3> HIDE DEF Level
    <3>1. \A s \in Level(n) : s # {} => h[s \ {Taken(s)}] = g[s \ {Taken(s)}]
      BY <2>2, <2>3
    <3> QED BY <3>1
  <2> HIDE DEF h
  <2>5. \E x : Gives(x, n)
    BY <2>4
  <2> HIDE DEF Gives
  <2> QED BY <2>5
<1> HIDE DEF Can
<1>4. N \in Can
  BY <1>1, <1>2, <1>3, UpToN
<1>5. PICK h : Gives(h, N)
  BY <1>4 DEF Can
<1>6. Level(N) = SUBSET D
  <2>1. ASSUME NEW u \in SUBSET D PROVE Cardinality(u) <= N
    BY <1>1, FS_Subset
  <2> QED BY <2>1
<1> QED BY <1>5, <1>6

(* A sum of whole numbers of one sign has it, unless all are zero.           *)
OfOneSign(f, s, total) ==
    /\ total \in Int
    /\ (\A x \in DOMAIN f : f[x] >= 0) =>
           total >= 0 /\ ((\E x \in s : f[x] > 0) => total > 0)
    /\ (\A x \in DOMAIN f : f[x] <= 0) =>
           total <= 0 /\ ((\E x \in s : f[x] < 0) => total < 0)

LEMMA OneMore ==
    ASSUME NEW f, \A x \in DOMAIN f : f[x] \in Int,
           NEW s \in SUBSET DOMAIN f, NEW x \in s, NEW rest,
           OfOneSign(f, s \ {x}, rest)
    PROVE  OfOneSign(f, s, f[x] + rest)
<1>1. f[x] \in Int /\ rest \in Int
  BY DEF OfOneSign
<1>2. ASSUME \A y \in DOMAIN f : f[y] >= 0
      PROVE  f[x] + rest >= 0 /\ ((\E y \in s : f[y] > 0) => f[x] + rest > 0)
  <2>1. f[x] >= 0 /\ rest >= 0 /\ ((\E y \in s \ {x} : f[y] > 0) => rest > 0)
    BY <1>2 DEF OfOneSign
  <2>2. (\E y \in s : f[y] > 0) => f[x] > 0 \/ \E y \in s \ {x} : f[y] > 0
    OBVIOUS
  <2>3. (\E y \in s : f[y] > 0) => f[x] > 0 \/ rest > 0
    BY <2>1, <2>2
  <2> QED BY <1>1, <2>1, <2>3
<1>3. ASSUME \A y \in DOMAIN f : f[y] <= 0
      PROVE  f[x] + rest <= 0 /\ ((\E y \in s : f[y] < 0) => f[x] + rest < 0)
  <2>1. f[x] <= 0 /\ rest <= 0 /\ ((\E y \in s \ {x} : f[y] < 0) => rest < 0)
    BY <1>3 DEF OfOneSign
  <2>2. (\E y \in s : f[y] < 0) => f[x] < 0 \/ \E y \in s \ {x} : f[y] < 0
    OBVIOUS
  <2>3. (\E y \in s : f[y] < 0) => f[x] < 0 \/ rest < 0
    BY <2>1, <2>2
  <2> QED BY <1>1, <2>1, <2>3
<1> QED BY <1>1, <1>2, <1>3 DEF OfOneSign

LEMMA SumFacts ==
    ASSUME NEW f, IsFiniteSet(DOMAIN f), \A x \in DOMAIN f : f[x] \in Int
    PROVE  OfOneSign(f, DOMAIN f, Sum(f))
<1> DEFINE D == DOMAIN f
           N == Cardinality(D)
           iter == CHOOSE h : h = [s \in SUBSET D |->
                                      IF s = {} THEN 0 ELSE f[Taken(s)] + h[s \ {Taken(s)}]]
           Can == {n \in 0 .. N :
                      \A s \in SUBSET D : Cardinality(s) = n => OfOneSign(f, s, iter[s])}
<1>0. Sum(f) = iter[D]
  BY DEF Sum, FoldFunction, FoldFunctionOnSet, MapThenFoldSet, Taken
<1>1. N \in Nat /\ IsFiniteSet(D)
  BY FS_CardinalityType
<1>2. iter = [s \in SUBSET D |-> IF s = {} THEN 0 ELSE f[Taken(s)] + iter[s \ {Taken(s)}]]
  BY SumExists
<1> HIDE DEF iter
<1>3. 0 \in Can
  <2>1. ASSUME NEW s \in SUBSET D, Cardinality(s) = 0 PROVE OfOneSign(f, s, iter[s])
    <3>1. s = {}
      BY <1>1, <2>1, FS_Subset, FS_EmptySet
    <3>2. iter[s] = 0
      BY <1>2, <3>1
    <3> QED BY <3>1, <3>2 DEF OfOneSign
  <2> QED BY <1>1, <2>1
<1>4. ASSUME NEW n \in 1 .. N, n - 1 \in Can PROVE n \in Can
  <2>1. ASSUME NEW s \in SUBSET D, Cardinality(s) = n PROVE OfOneSign(f, s, iter[s])
    <3> DEFINE x == Taken(s)
    <3>1. s # {}
      BY <1>1, <2>1, FS_EmptySet
    <3>2. x \in s /\ s \ {x} \in SUBSET D /\ Cardinality(s \ {x}) = n - 1
      BY <1>1, <2>1, <3>1, OneTaken
    <3>3. iter[s] = f[x] + iter[s \ {x}]
      BY <1>2, <3>1
    <3> HIDE DEF x
    <3>4. OfOneSign(f, s \ {x}, iter[s \ {x}])
      BY <1>4, <3>2
    <3> DEFINE rest == iter[s \ {x}]
    <3> HIDE DEF rest
    <3>5. OfOneSign(f, s \ {x}, rest)
      BY <3>4 DEF rest
    <3>6. OfOneSign(f, s, f[x] + rest)
      BY <3>2, <3>5, OneMore
    <3> QED BY <3>3, <3>6 DEF rest
  <2> QED BY <2>1
<1> HIDE DEF Can
<1>5. N \in Can
  BY <1>1, <1>3, <1>4, UpToN
<1> QED BY <1>0, <1>5 DEF Can

(* Finitely many whole numbers have a least and a greatest.                  *)
Bounded(T) == (\E x \in T : \A y \in T : x <= y) /\ (\E x \in T : \A y \in T : y <= x)

LEMMA ExtremesExist ==
    ASSUME NEW S \in SUBSET Int, IsFiniteSet(S), S # {}
    PROVE  Bounded(S)
<1> DEFINE N == Cardinality(S)
           Can == {n \in 0 .. N :
                      \A T \in SUBSET S : Cardinality(T) = n /\ T # {} => Bounded(T)}
<1>1. N \in Nat
  BY FS_CardinalityType
<1>2. 0 \in Can
  <2>1. ASSUME NEW T \in SUBSET S, Cardinality(T) = 0, T # {} PROVE Bounded(T)
    BY <2>1, FS_Subset, FS_EmptySet
  <2> HIDE DEF N
  <2> QED BY <1>1, <2>1
<1>3. ASSUME NEW n \in 1 .. N, n - 1 \in Can PROVE n \in Can
  <2>1. ASSUME NEW T \in SUBSET S, Cardinality(T) = n, T # {} PROVE Bounded(T)
    <3> DEFINE x == Taken(T)
    <3>1. x \in T /\ T \ {x} \in SUBSET S /\ Cardinality(T \ {x}) = n - 1
      BY <2>1, OneTaken
    <3> HIDE DEF x
    <3>2. T \ {x} # {} => Bounded(T \ {x})
      BY <1>3, <3>1
    <3>3. CASE T \ {x} = {}
      <4>1. T = {x} /\ x \in Int
        BY <3>1, <3>3
      <4> QED BY <4>1 DEF Bounded
    <3>4. CASE T \ {x} # {}
      <4>1. PICK a \in T \ {x} : \A y \in T \ {x} : a <= y
        BY <3>2, <3>4 DEF Bounded
      <4>2. PICK b \in T \ {x} : \A y \in T \ {x} : y <= b
        BY <3>2, <3>4 DEF Bounded
      <4>3. \A y \in T : y = x \/ y \in T \ {x}
        OBVIOUS
      <4>4. \E u \in T : \A y \in T : u <= y
        <5>1. CASE x <= a
          BY <3>1, <4>1, <4>3, <5>1
        <5>2. CASE ~(x <= a)
          BY <3>1, <4>1, <4>3, <5>2
        <5> QED BY <5>1, <5>2
      <4>5. \E u \in T : \A y \in T : y <= u
        <5>1. CASE b <= x
          BY <3>1, <4>2, <4>3, <5>1
        <5>2. CASE ~(b <= x)
          BY <3>1, <4>2, <4>3, <5>2
        <5> QED BY <5>1, <5>2
      <4> QED BY <4>4, <4>5 DEF Bounded
    <3> QED BY <3>3, <3>4
  <2> QED BY <2>1
<1> HIDE DEF Can
<1>4. N \in Can
  BY <1>1, <1>2, <1>3, UpToN
<1> QED BY <1>4 DEF Can

LEMMA LeastOfFinite ==
    ASSUME NEW S \in SUBSET Int, IsFiniteSet(S), S # {}
    PROVE  Min(S) \in S /\ \A y \in S : Min(S) <= y
  BY ExtremesExist DEF Min, Bounded

(* The folds' means in order, from the least to the greatest.                *)
LEMMA NthIsNumber ==
    ASSUME NEW n \in Nat \ {0}, NEW means \in [1 .. n -> Int], NEW k \in 1 .. n
    PROVE  Nth(means, k) \in Int /\ Min(Range(means)) \in Int
<1> DEFINE R == Range(means)
           S == {v \in R : Cardinality({j \in DOMAIN means : means[j] <= v}) >= k}
<1>1. DOMAIN means = 1 .. n /\ IsFiniteSet(1 .. n) /\ Cardinality(1 .. n) = n
  BY FS_Interval
<1>2. R \in SUBSET Int /\ R # {}
  BY <1>1 DEF Range
<1>3. IsFiniteSet(R)
  <2>1. means \in Surjection(1 .. n, R)
    <3>1. means = [i \in 1 .. n |-> means[i]] /\ R = {means[i] : i \in 1 .. n}
      BY <1>1 DEF Range
    <3> HIDE DEF R
    <3> QED BY <3>1 DEF Surjection
  <2> QED BY <1>1, <2>1, FS_Surjection
<1>4. PICK g \in R : \A y \in R : y <= g
  BY <1>2, <1>3, ExtremesExist DEF Bounded
<1>5. g \in S
  <2>1. \A j \in 1 .. n : means[j] \in R
    BY <1>1 DEF Range
  <2>2. {j \in DOMAIN means : means[j] <= g} = 1 .. n
    BY <1>1, <1>4, <2>1
  <2>3. Cardinality({j \in DOMAIN means : means[j] <= g}) = n
    BY <1>1, <2>2
  <2>4. n >= k
    OBVIOUS
  <2> QED BY <2>3, <2>4
<1>6. IsFiniteSet(S)
  BY <1>3, FS_Subset
<1> HIDE DEF S
<1>7. Min(S) \in S
  BY <1>2, <1>5, <1>6, LeastOfFinite DEF S
<1>8. Min(R) \in R
  BY <1>2, <1>3, LeastOfFinite
<1> QED BY <1>2, <1>7, <1>8 DEF S, Nth

LEMMA MedianIsNumber ==
    ASSUME NEW n \in Nat \ {0}, NEW means \in [1 .. n -> Int]
    PROVE  Median(means) \in Int
<1>1. Len(means) = n
  OBVIOUS
<1>2. CASE n % 2 = 1
  <2>1. (n + 1) \div 2 \in 1 .. n
    OBVIOUS
  <2> QED BY <1>1, <1>2, <2>1, NthIsNumber DEF Median
<1>3. CASE n % 2 # 1
  <2>1. n \div 2 \in 1 .. n /\ n \div 2 + 1 \in 1 .. n
    BY <1>3
  <2>2. Nth(means, n \div 2) \in Int /\ Nth(means, n \div 2 + 1) \in Int
    BY <2>1, NthIsNumber
  <2> QED BY <1>1, <1>3, <2>2 DEF Median
<1> QED BY <1>2, <1>3

(* Of two keys that differ, one precedes; and precedence is transitive.      *)
LEMMA PrecedesTotal ==
    ASSUME NEW n \in Nat \ {0}, NEW a \in [1 .. n -> Int], NEW b \in [1 .. n -> Int],
           a[n] # b[n]
    PROVE  Precedes(a, b) \/ Precedes(b, a)
<1> DEFINE Differ == {k \in 1 .. n : a[k] # b[k]}
<1>1. Differ \in SUBSET Nat /\ n \in Differ
  OBVIOUS
<1>2. PICK k \in Differ : \A j \in Differ : k <= j
  BY <1>1, LeastExists
<1>3. k \in 1 .. n /\ a[k] # b[k] /\ a[k] \in Int /\ b[k] \in Int
  OBVIOUS
<1>4. ASSUME NEW j \in 1 .. k - 1 PROVE a[j] = b[j]
  <2>1. j \in 1 .. n /\ ~(k <= j)
    BY <1>3
  <2> QED BY <1>2, <2>1
<1>5. DOMAIN a = 1 .. n /\ DOMAIN b = 1 .. n
  OBVIOUS
<1>6. a[k] > b[k] \/ b[k] > a[k]
  BY <1>3
<1> QED BY <1>3, <1>4, <1>5, <1>6 DEF Precedes

LEMMA PrecedesTransitive ==
    ASSUME NEW n \in Nat \ {0}, NEW a \in [1 .. n -> Int], NEW b \in [1 .. n -> Int],
           NEW c \in [1 .. n -> Int], Precedes(a, b), Precedes(b, c)
    PROVE  Precedes(a, c)
<1>1. PICK k \in 1 .. n : a[k] > b[k] /\ \A j \in 1 .. k - 1 : a[j] = b[j]
  BY DEF Precedes
<1>2. PICK l \in 1 .. n : b[l] > c[l] /\ \A j \in 1 .. l - 1 : b[j] = c[j]
  BY DEF Precedes
<1>3. \A j \in 1 .. n : a[j] \in Int /\ b[j] \in Int /\ c[j] \in Int
  OBVIOUS
<1>4. ASSUME NEW m \in 1 .. n, m <= k, m <= l, m = k \/ m = l
      PROVE  a[m] > c[m] /\ \A j \in 1 .. m - 1 : a[j] = c[j]
  <2>1. \A j \in 1 .. m - 1 : j \in 1 .. k - 1 /\ j \in 1 .. l - 1
    BY <1>4
  <2>2. \A j \in 1 .. m - 1 : a[j] = c[j]
    BY <1>1, <1>2, <2>1
  <2>3. a[m] >= b[m] /\ b[m] >= c[m] /\ (a[m] > b[m] \/ b[m] > c[m])
    <3>1. CASE m = k /\ m = l
      BY <1>1, <1>2, <1>3, <3>1
    <3>2. CASE m = k /\ m # l
      <4>1. m \in 1 .. l - 1
        BY <1>4, <3>2
      <4> QED BY <1>1, <1>2, <1>3, <3>2, <4>1
    <3>3. CASE m # k /\ m = l
      <4>1. m \in 1 .. k - 1
        BY <1>4, <3>3
      <4> QED BY <1>1, <1>2, <1>3, <3>3, <4>1
    <3> QED BY <1>4, <3>1, <3>2, <3>3
  <2> QED BY <1>3, <2>2, <2>3
<1>5. DOMAIN a = 1 .. n
  OBVIOUS
<1>6. ASSUME NEW m \in 1 .. n, a[m] > c[m], \A j \in 1 .. m - 1 : a[j] = c[j]
      PROVE  Precedes(a, c)
  BY <1>5, <1>6 DEF Precedes
<1>7. CASE k <= l
  <2>1. k <= k
    OBVIOUS
  <2>2. a[k] > c[k] /\ \A j \in 1 .. k - 1 : a[j] = c[j]
    BY <1>4, <1>7, <2>1
  <2> QED BY <1>6, <2>2
<1>8. CASE ~(k <= l)
  <2>1. l <= k /\ l <= l
    BY <1>8
  <2>2. a[l] > c[l] /\ \A j \in 1 .. l - 1 : a[j] = c[j]
    BY <1>4, <2>1
  <2> QED BY <1>6, <2>2
<1> QED BY <1>7, <1>8

(* So there is a best of any that are there.                                 *)
LEMMA BestExists ==
    ASSUME NEW m \in Nat, NEW T \in SUBSET (1 .. m), T # {}, NEW n \in Nat \ {0},
           NEW key \in [T -> [1 .. n -> Int]], \A i, j \in T : i # j => key[i][n] # key[j][n]
    PROVE  \E i \in T : \A j \in T \ {i} : Precedes(key[i], key[j])
<1> DEFINE Best(i, k) == \A j \in (T \cap (1 .. k)) \ {i} : Precedes(key[i], key[j])
           Can == {k \in 0 .. m :
                      T \cap (1 .. k) # {} => \E i \in T \cap (1 .. k) : Best(i, k)}
<1>0. \A i \in T : key[i] \in [1 .. n -> Int]
  OBVIOUS
<1>1. 0 \in Can
  OBVIOUS
<1>2. ASSUME NEW k \in 1 .. m, k - 1 \in Can PROVE k \in Can
  <2>0. k - 1 \in Nat /\ k \in Nat
    OBVIOUS
  <2>1. CASE k \notin T
    <3>1. T \cap (1 .. k) = T \cap (1 .. k - 1)
      BY <2>0, <2>1
    <3> HIDE DEF Best
    <3>2. T \cap (1 .. k - 1) # {} => \E i \in T \cap (1 .. k - 1) : Best(i, k - 1)
      BY <1>2
    <3>3. \A i \in T : Best(i, k - 1) => Best(i, k)
      BY <3>1 DEF Best
    <3>4. T \cap (1 .. k) # {} => \E i \in T \cap (1 .. k) : Best(i, k)
      BY <3>1, <3>2, <3>3
    <3>5. k \in 0 .. m
      OBVIOUS
    <3> QED BY <3>4, <3>5
  <2>2. CASE k \in T
    <3>1. T \cap (1 .. k) = (T \cap (1 .. k - 1)) \cup {k}
      BY <2>0, <2>2
    <3>2. CASE T \cap (1 .. k - 1) = {}
      <4>1. Best(k, k)
        BY <3>1, <3>2
      <4> QED BY <2>0, <2>2, <4>1
    <3>3. CASE T \cap (1 .. k - 1) # {}
      <4>1. PICK i \in T \cap (1 .. k - 1) : Best(i, k - 1)
        BY <1>2, <3>3
      <4>2. i # k /\ i \in T
        BY <2>0
      <4>3. Precedes(key[i], key[k]) \/ Precedes(key[k], key[i])
        BY <1>0, <2>2, <4>2, PrecedesTotal
      <4>4. CASE Precedes(key[i], key[k])
        <5>1. Best(i, k)
          BY <3>1, <4>1, <4>4
        <5> QED BY <3>1, <5>1
      <4>5. CASE Precedes(key[k], key[i])
        <5>1. ASSUME NEW j \in T \cap (1 .. k - 1) PROVE Precedes(key[k], key[j])
          <6>1. CASE j = i
            BY <4>5, <6>1
          <6>2. CASE j # i
            <7>1. Precedes(key[i], key[j])
              BY <4>1, <6>2
            <7> QED BY <1>0, <2>2, <4>2, <4>5, <7>1, PrecedesTransitive
          <6> QED BY <6>1, <6>2
        <5>2. Best(k, k)
          BY <3>1, <5>1
        <5> QED BY <3>1, <5>2
      <4> QED BY <4>3, <4>4, <4>5
    <3> QED BY <3>2, <3>3
  <2> QED BY <2>1, <2>2
<1> HIDE DEF Can
<1>3. 0 .. m \subseteq Can
  BY <1>1, <1>2, UpToN
<1>4. T \cap (1 .. m) = T
  OBVIOUS
<1> HIDE DEF Best
<1>5. m \in Can
  <2>1. m \in 0 .. m
    OBVIOUS
  <2> QED BY <1>3, <2>1
<1>6. PICK i \in T : Best(i, m)
  BY <1>4, <1>5 DEF Can
<1> QED BY <1>4, <1>6 DEF Best

-----------------------------------------------------------------------------
(* The comparison: what a selection found out about its winner.              *)

(* The market of a session, within its bounds.                               *)
MarketOK(m) == m.days \in Nat /\ m.days <= MaxDays /\ m.revision \in Revisions

(* Adequate, of the prices and the formula it reads.                         *)
AdequateAt(revision, key, dates) ==
    LET usable == {t \in dates : DailyIC(revision, key, t) # NoIC}
    IN  /\ Cardinality(usable) >= MinFoldDates
        /\ Covers(usable, dates)
        /\ Covers({t \in dates : Varies(revision, key, t)}, dates)
        /\ Covers({t \in dates : TwoSided(Weights(revision, key, Primary, t))}, dates)

LEMMA AdequateIs ==
    ASSUME NEW candidate, NEW dates
    PROVE  Adequate(candidate, dates) <=> AdequateAt(market.revision, candidate.key, dates)
  BY DEF Adequate, AdequateAt, Measurable, Usable

(* Every fold lies in what the session judges, before its test.              *)
FoldsOK(folds) ==
    /\ folds = [k \in 1 .. FoldCount |-> folds[k]]
    /\ \A k \in 1 .. FoldCount :
          /\ folds[k] \in SUBSET (1 .. market.days) /\ IsFiniteSet(folds[k])
          /\ \A t \in folds[k] : t + frozen.embargo < market.days

LEMMA FoldsFacts ==
    ASSUME SplitInv, frozen # Nothing
    PROVE  FoldsOK(SessionFolds)
<1> DEFINE folds == SessionFolds
<1>1. FrozenOK(frozen) /\ frozen.test_start <= market.days /\ market.days \in Nat
      /\ FoldCount \in Nat \ {0}
  BY ValidationAssumption DEF SplitInv
<1> DEFINE n == FoldCount
           e == frozen.embargo
<1>2. /\ DOMAIN folds = 1 .. n
      /\ \A i \in 1 .. n : \A t \in folds[i] :
            t \in Int /\ frozen.valid_start <= t /\ t <= frozen.valid_end
      /\ \A i, j \in 1 .. n : i < j => \A t \in folds[i], u \in folds[j] : t + e < u
  BY <1>1, FoldsApart DEF SessionFolds, FrozenOK
<1>3. folds = [k \in 1 .. FoldCount |-> folds[k]]
  BY <1>2 DEF SessionFolds, Folds
<1> HIDE DEF folds
<1>4. ASSUME NEW k \in 1 .. FoldCount, NEW t \in folds[k]
      PROVE  t \in 1 .. market.days /\ t + frozen.embargo < market.days
  BY <1>1, <1>2 DEF FrozenOK
<1>5. \A k \in 1 .. FoldCount : folds[k] \in SUBSET (1 .. market.days)
  BY <1>4
<1>6. IsFiniteSet(1 .. market.days)
  BY <1>1, FS_Interval
<1>7. \A k \in 1 .. FoldCount : IsFiniteSet(folds[k])
  BY <1>5, <1>6, FS_Subset
<1> QED BY <1>3, <1>4, <1>5, <1>7 DEF FoldsOK, folds

(* Where all candidates' values are numbers, so are the means.               *)
LEMMA MeanIsNumber ==
    ASSUME MarketOK(market), NEW pool \in Pools, NEW i \in DOMAIN pool,
           NEW dates \in SUBSET (1 .. market.days), IsFiniteSet(dates)
    PROVE  MeanIC(pool[i], dates) \in Int
<1> DEFINE candidate == pool[i]
           usable == Usable(candidate, dates)
           values == [t \in usable |-> DailyIC(market.revision, candidate.key, t)]
           n == Cardinality(usable)
<1>1. usable \in SUBSET dates /\ IsFiniteSet(usable)
  BY FS_Subset DEF Usable
<1>2. ASSUME NEW t \in usable PROVE values[t] \in Int
  <2>1. t \in 1 .. market.days
    BY <1>1
  <2>2. t \in 1 .. MaxDays /\ market.revision \in Revisions
    BY <2>1, ValidationAssumption DEF MarketOK
  <2>3. DailyIC(market.revision, candidate.key, t) \in Int \cup {NoIC}
    BY <2>2, CandidatesAssumption
  <2>4. DailyIC(market.revision, candidate.key, t) # NoIC
    BY DEF Usable
  <2> QED BY <2>3, <2>4
<1>3. Sum(values) \in Int
  <2>1. DOMAIN values = usable
    OBVIOUS
  <2> HIDE DEF values, usable
  <2> QED BY <1>1, <1>2, <2>1, SumFacts DEF OfOneSign
<1>4. usable # {} => n \in Nat \ {0}
  BY <1>1, FS_CardinalityType, FS_EmptySet
<1>5. Polarity(candidate) \in Int
  BY DEF Polarity
<1>6. MeanIC(candidate, dates) =
          IF usable = {} THEN 0 ELSE Polarity(candidate) * ((Unit * Sum(values)) \div n)
  BY DEF MeanIC
<1> HIDE DEF n, usable, values, candidate
<1>7. Unit * Sum(values) \in Int
  BY <1>3, CandidatesAssumption
<1>8. usable # {} => (Unit * Sum(values)) \div n \in Int
  BY <1>4, <1>7
<1>9. usable # {} => Polarity(candidate) * ((Unit * Sum(values)) \div n) \in Int
  BY <1>5, <1>8
<1> QED BY <1>6, <1>9 DEF candidate

(* The rank of a candidate is a list of five numbers, the last its own.      *)
LEMMA JudgementFacts ==
    ASSUME SplitInv, frozen # Nothing, MarketOK(market), NEW pool \in Pools,
           NEW i \in DOMAIN pool, i \in Int
    PROVE  /\ Judgement(pool, i).validation \in [1 .. 5 -> Int]
           /\ Judgement(pool, i).validation[5] = -i
           /\ Judgement(pool, i).qualified =>
                 \A k \in 1 .. FoldCount : Adequate(pool[i], SessionFolds[k])
<1> DEFINE folds == SessionFolds
           means == [k \in DOMAIN folds |-> MeanIC(pool[i], folds[k])]
           objective == Median(means) - Deduction(pool[i].nodes)
           worst == Min(Range(means))
           judged == Judgement(pool, i)
<1>1. FoldsOK(folds) /\ FoldCount \in Nat \ {0}
  BY FoldsFacts, ValidationAssumption
<1>2. DOMAIN folds = 1 .. FoldCount
  BY <1>1 DEF FoldsOK
<1>3. /\ judged.validation = <<objective, worst, pool[i].fitness, -pool[i].nodes, -i>>
      /\ judged.qualified => \A k \in DOMAIN folds : Adequate(pool[i], folds[k])
  BY DEF Judgement
<1> HIDE DEF folds
<1>4. \A k \in 1 .. FoldCount : MeanIC(pool[i], folds[k]) \in Int
  BY <1>1, MeanIsNumber DEF FoldsOK
<1>5. means \in [1 .. FoldCount -> Int]
  BY <1>2, <1>4
<1> HIDE DEF means
<1>6. Median(means) \in Int
  BY <1>1, <1>5, MedianIsNumber
<1>7. worst \in Int
  <2>1. 1 \in 1 .. FoldCount
    BY <1>1
  <2> QED BY <1>1, <1>5, <2>1, NthIsNumber
<1>8. /\ Deduction(pool[i].nodes) \in Int /\ pool[i].fitness \in Int
      /\ pool[i].nodes \in Int
  BY CandidatesAssumption
<1>9. objective \in Int /\ -pool[i].nodes \in Int /\ -i \in Int
  BY <1>6, <1>8
<1> DEFINE nodes == -pool[i].nodes
           place == -i
           fitness == pool[i].fitness
<1>10. judged.validation = <<objective, worst, fitness, nodes, place>>
       /\ objective \in Int /\ worst \in Int /\ fitness \in Int /\ nodes \in Int
       /\ place \in Int
  BY <1>3, <1>7, <1>8, <1>9
<1> HIDE DEF objective, worst, fitness, nodes, place, judged
<1>11. judged.validation \in [1 .. 5 -> Int] /\ judged.validation[5] = place
  BY <1>10
<1> QED BY <1>2, <1>3, <1>11 DEF judged, place, folds

(* A validated winner has the floors in every fold: the best of the          *)
(* qualified is one of them, as their ranks differ.                          *)
LEMMA WinnerIsAdequate ==
    ASSUME SplitInv, frozen # Nothing, MarketOK(market), NEW pool \in Pools,
           Selection(pool).validated
    PROVE  \E i \in DOMAIN pool :
              /\ Selection(pool).best = pool[i].key
              /\ \A k \in 1 .. FoldCount : Adequate(pool[i], SessionFolds[k])
<1> DEFINE judged == [i \in Unique(pool) |-> Judgement(pool, i)]
           qualified == {i \in DOMAIN judged : judged[i].qualified}
           Best(of, key) ==
              CHOOSE i \in of : \A j \in of \ {i} : Precedes(judged[i][key], judged[j][key])
           winner == IF qualified # {} THEN Best(qualified, "validation")
                     ELSE Best(DOMAIN judged, "training")
           rank == [i \in qualified |-> Judgement(pool, i).validation]
           m == Len(pool)
<1>1. Selection(pool) = [best |-> pool[winner].key, polarity |-> Polarity(pool[winner]),
                         validated |-> qualified # {}]
  BY DEF Selection
<1>2. qualified # {} /\ winner = Best(qualified, "validation")
      /\ Selection(pool).best = pool[winner].key
  <2> HIDE DEF qualified, Best
  <2>1. Selection(pool).validated = (qualified # {})
        /\ Selection(pool).best = pool[winner].key
    <3> DEFINE b == pool[winner].key
               p == Polarity(pool[winner])
               q == (qualified # {})
    <3>1. Selection(pool) = [best |-> b, polarity |-> p, validated |-> q]
      BY <1>1
    <3> HIDE DEF b, p, q
    <3>2. Selection(pool).validated = q /\ Selection(pool).best = b
      BY <3>1
    <3> QED BY <3>2 DEF b, q
  <2> QED BY <2>1
<1>3. m \in Nat /\ DOMAIN pool = 1 .. m
  <2>1. pool \in Seq(Range(pool))
    BY ValidationAssumption
  <2> QED BY <2>1
<1>4. /\ DOMAIN judged = Unique(pool)
      /\ \A i \in Unique(pool) : judged[i] = Judgement(pool, i)
  OBVIOUS
<1>5. qualified \in SUBSET (1 .. m) /\ \A i \in qualified : judged[i] = Judgement(pool, i)
                                                           /\ Judgement(pool, i).qualified
  BY <1>3 DEF Unique
<1> HIDE DEF m, qualified, judged
<1>6. ASSUME NEW i \in qualified
      PROVE  /\ rank[i] \in [1 .. 5 -> Int] /\ rank[i][5] = -i /\ rank[i] = judged[i].validation
             /\ i \in DOMAIN pool /\ i \in Int
             /\ \A k \in 1 .. FoldCount : Adequate(pool[i], SessionFolds[k])
  <2>1. i \in DOMAIN pool /\ i \in Int
    BY <1>3, <1>5
  <2> QED BY <1>5, <2>1, JudgementFacts
<1>7. rank \in [qualified -> [1 .. 5 -> Int]]
  BY <1>6
<1> HIDE DEF rank
<1>8. \A i, j \in qualified : i # j => rank[i][5] # rank[j][5]
  BY <1>6
<1>9. \E i \in qualified : \A j \in qualified \ {i} : Precedes(rank[i], rank[j])
  <2> DEFINE n == 5
  <2>1. n \in Nat \ {0}
    OBVIOUS
  <2>2. rank \in [qualified -> [1 .. n -> Int]]
        /\ \A i, j \in qualified : i # j => rank[i][n] # rank[j][n]
    BY <1>7, <1>8
  <2>3. m \in Nat /\ qualified \in SUBSET (1 .. m) /\ qualified # {}
    BY <1>2, <1>3, <1>5
  <2> HIDE DEF n
  <2> QED BY <2>1, <2>2, <2>3, BestExists
<1>10. \E i \in qualified : \A j \in qualified \ {i} :
          Precedes(judged[i]["validation"], judged[j]["validation"])
  BY <1>6, <1>9
<1>11. winner \in qualified
  BY <1>2, <1>10
<1> HIDE DEF winner
<1> QED BY <1>2, <1>6, <1>11

-----------------------------------------------------------------------------
(* The comparison: what a strategy holds.                                    *)

(* What covers dates, and more of them, covers them; all dates cover them.   *)
LEMMA MoreCovers ==
    ASSUME NEW all, IsFiniteSet(all), NEW some \in SUBSET all, NEW more \in SUBSET all,
           some \subseteq more
    PROVE  /\ Covers(some, all) => Covers(more, all)
           /\ Covers(all, all)
           /\ all # {} /\ Covers(some, all) => some # {}
<1> DEFINE a == Cardinality(some)
           b == Cardinality(more)
           n == Cardinality(all)
           floor == MinCoverage * n
<1>1. IsFiniteSet(some) /\ IsFiniteSet(more)
  BY FS_Subset
<1>2. a \in Nat /\ b \in Nat /\ n \in Nat /\ a <= b
  BY <1>1, FS_CardinalityType, FS_Subset
<1>3. all # {} => n # 0
  BY FS_EmptySet
<1>4. some = {} => a = 0
  BY FS_EmptySet
<1> HIDE DEF a, b, n
<1>5. floor \in Nat /\ floor <= 100 * n /\ (n # 0 => floor # 0)
  <2>1. MinCoverage \in 1 .. 100
    BY ValidationAssumption
  <2>2. \A x \in 1 .. 100 : x * n \in Nat /\ x * n <= 100 * n /\ (n # 0 => x * n # 0)
    BY <1>2
  <2> QED BY <2>1, <2>2
<1> HIDE DEF floor
<1>6. 100 * a >= floor => 100 * b >= floor
  BY <1>2, <1>5
<1>7. n # 0 /\ 100 * a >= floor => a # 0
  BY <1>2, <1>5
<1> QED BY <1>3, <1>4, <1>5, <1>6, <1>7 DEF Covers, a, b, n, floor

(* What a signal holds on a side does not cancel out of the book, where no    *)
(* signal of that book holds it on the other.                                *)
LEMMA NameIsHeld ==
    ASSUME NEW f, IsFiniteSet(DOMAIN f), NEW t \in DOMAIN f,
           \A c \in DOMAIN f : f[c] \in Int /\ ~(f[c] > 0 /\ f[t] < 0) /\ ~(f[c] < 0 /\ f[t] > 0)
    PROVE  (f[t] > 0 => Sum(f) > 0) /\ (f[t] < 0 => Sum(f) < 0)
<1>1. OfOneSign(f, DOMAIN f, Sum(f))
  BY SumFacts
<1>2. ASSUME f[t] > 0 PROVE Sum(f) > 0
  <2>1. \A c \in DOMAIN f : f[c] >= 0
    BY <1>2
  <2> QED BY <1>1, <1>2, <2>1 DEF OfOneSign
<1>3. ASSUME f[t] < 0 PROVE Sum(f) < 0
  <2>1. \A c \in DOMAIN f : f[c] <= 0
    BY <1>3
  <2> QED BY <1>1, <1>3, <2>1 DEF OfOneSign
<1> QED BY <1>2, <1>3

(* Whole numbers of each name, on any date.                                  *)
WeightsOK(entry, m) ==
    \A t \in 1 .. m.days : Weights(m.revision, entry.best, Primary, t) \in [Names -> Int]

LEMMA BookIsTwoSided ==
    ASSUME NEW entry, entry.run.horizon \in Nat \ {0}, MarketOK(entry.market),
           WeightsOK(entry, entry.market), ~HeldBothWays(entry),
           NEW t \in 1 .. entry.market.days,
           TwoSided(Weights(entry.market.revision, entry.best, Primary, t))
    PROVE  TwoSided(Book(entry, Primary, t, entry.market))
<1> DEFINE cohorts == Cohorts(entry, t)
           At(c) == Weights(entry.market.revision, entry.best, Primary, c)
           f(n) == [c \in cohorts |-> At(c)[n]]
           book == Book(entry, Primary, t, entry.market)
           days == entry.market.days
           first == Larger(1, (t + 1) - entry.run.horizon)
<1>1. days \in Nat /\ t \in Nat /\ t <= days
  BY DEF MarketOK
<1>2. first \in Nat \ {0} /\ first <= t
  BY <1>1 DEF Larger
<1>3. cohorts = first .. t
  BY DEF Cohorts
<1> HIDE DEF first
<1>4. IsFiniteSet(cohorts) /\ t \in cohorts /\ \A c \in cohorts : c \in 1 .. days
  <2>1. IsFiniteSet(first .. t)
    BY <1>1, <1>2, FS_Interval
  <2>2. t \in first .. t /\ \A c \in first .. t : c \in 1 .. days
    BY <1>1, <1>2
  <2> QED BY <1>3, <2>1, <2>2
<1>5. ASSUME NEW c \in cohorts PROVE At(c) \in [Names -> Int] /\ ~Opposite(At(c), At(t))
  <2>1. At(c) \in [Names -> Int]
    BY <1>4 DEF WeightsOK
  <2>2. ~Opposite(At(c), At(t))
    BY DEF HeldBothWays
  <2> QED BY <2>1, <2>2
<1>6. book = [n \in Names |-> Sum(f(n))]
  BY DEF Book
<1> HIDE DEF cohorts, book
<1>7. ASSUME NEW n \in Names
      PROVE  (At(t)[n] > 0 => book[n] > 0) /\ (At(t)[n] < 0 => book[n] < 0)
  <2> DEFINE g == f(n)
  <2>1. DOMAIN g = cohorts /\ g[t] = At(t)[n] /\ \A c \in cohorts : g[c] = At(c)[n]
    BY <1>4
  <2>2. book[n] = Sum(g)
    BY <1>6
  <2>3. \A c \in cohorts : /\ At(c)[n] \in Int
                           /\ ~(At(c)[n] > 0 /\ At(t)[n] < 0) /\ ~(At(c)[n] < 0 /\ At(t)[n] > 0)
    BY <1>5 DEF Opposite
  <2> HIDE DEF g
  <2>4. (g[t] > 0 => Sum(g) > 0) /\ (g[t] < 0 => Sum(g) < 0)
    BY <1>4, <2>1, <2>3, NameIsHeld
  <2> QED BY <2>1, <2>2, <2>4
<1>8. (\E n \in Names : At(t)[n] > 0) /\ (\E n \in Names : At(t)[n] < 0)
  BY DEF TwoSided
<1>9. (\E n \in Names : book[n] > 0) /\ (\E n \in Names : book[n] < 0)
  BY <1>7, <1>8
<1> QED BY <1>9 DEF TwoSided, book

(* A fold with the floors of the selection has those of the comparison.      *)
LEMMA FoldAgrees ==
    ASSUME NEW entry, MarketOK(market), entry.market = market,
           entry.run.horizon \in Nat \ {0}, WeightsOK(entry, market), ~HeldBothWays(entry),
           NEW dates \in SUBSET (1 .. market.days), IsFiniteSet(dates),
           NEW embargo \in Nat, \A t \in dates : t + embargo < market.days,
           LabelSpan(entry.run.horizon, entry.run.execution) <= embargo,
           AdequateAt(market.revision, entry.best, dates)
    PROVE  /\ Measurable([key |-> entry.best], dates)
           /\ Covers(Realized(entry, dates, market), dates)
           /\ Healthy(entry, Primary, dates, market)
<1> DEFINE realized == Realized(entry, dates, market)
           held == {t \in realized : TwoSided(Book(entry, Primary, t, market))}
           sided == {t \in dates : TwoSided(Weights(market.revision, entry.best, Primary, t))}
           usable == {t \in dates : DailyIC(market.revision, entry.best, t) # NoIC}
<1>1. Measurable([key |-> entry.best], dates)
  BY DEF Measurable, Usable, AdequateAt
<1>2. realized = dates
  <2>1. Delay(entry.run.execution) \in Nat
    BY SpanFacts
  <2>2. market.days \in Nat
    BY DEF MarketOK
  <2>3. ASSUME NEW t \in dates PROVE t + 1 + Delay(entry.run.execution) <= market.days
    <3> DEFINE d == Delay(entry.run.execution)
               h == entry.run.horizon
    <3>1. h + d <= embargo /\ t + embargo < market.days /\ t \in Nat
      BY DEF LabelSpan
    <3>2. d \in Nat /\ h \in Nat \ {0}
      BY <2>1
    <3> HIDE DEF d, h
    <3>3. t + 1 + d <= market.days
      BY <2>2, <3>1, <3>2
    <3> QED BY <3>3 DEF d
  <2> QED BY <2>3 DEF Realized
<1> HIDE DEF realized
<1>3. \A t \in sided : TwoSided(Book(entry, Primary, t, market))
  BY BookIsTwoSided
<1>4. sided \in SUBSET dates /\ held \in SUBSET dates /\ sided \subseteq held
  BY <1>2, <1>3
<1>5. Covers(sided, dates)
  BY DEF AdequateAt
<1>6. dates # {}
  <2>1. Cardinality(usable) >= MinFoldDates /\ MinFoldDates \in Nat \ {0}
    BY ValidationAssumption DEF AdequateAt
  <2>2. ASSUME dates = {} PROVE FALSE
    <3>1. usable = {}
      BY <2>2
    <3>2. Cardinality(usable) = 0
      BY <3>1, FS_EmptySet
    <3> HIDE DEF usable
    <3> QED BY <2>1, <3>2
  <2> QED BY <2>2
<1> HIDE DEF held, sided, usable
<1>7. Covers(held, dates) /\ Covers(dates, dates) /\ sided # {}
  BY <1>4, <1>5, <1>6, MoreCovers
<1>8. held # {}
  BY <1>4, <1>7
<1>9. Healthy(entry, Primary, dates, market) <=> held # {} /\ Covers(held, realized)
  BY DEF Healthy, held, realized
<1>10. Covers(Realized(entry, dates, market), dates)
  BY <1>2, <1>7 DEF realized
<1> QED BY <1>1, <1>2, <1>7, <1>8, <1>9, <1>10

-----------------------------------------------------------------------------
(* The comparison and the selection.                                         *)

(* What a validated round knows of its winner: it was a candidate, and had   *)
(* the floors in every fold, on the prices of its selection.                 *)
KnownOK(entry, folds) ==
    entry.validated =>
        /\ \E pool \in Pools : \E i \in DOMAIN pool : entry.best = pool[i].key
        /\ \A k \in 1 .. FoldCount : AdequateAt(entry.market.revision, entry.best, folds[k])

(* Rejected only where a book holds a name both ways.                        *)
AgreesOK(c, entry) ==
    /\ entry.validated /\ c.market = entry.market /\ Primary \in c.strategies
    /\ ~HeldBothWays(entry)
    => Primary \in c.eligible

ComparisonInv ==
    /\ MarketOK(market)
    /\ \A r \in DOMAIN judged_rounds : KnownOK(judged_rounds[r], SessionFolds)
    /\ comparison # Nothing =>
          /\ comparison.round \in DOMAIN judged_rounds
          /\ AgreesOK(comparison, judged_rounds[comparison.round])

LEMMA ComparisonStart ==
    ASSUME Init
    PROVE  ComparisonInv
<1>1. MarketOK(market)
  BY ValidationAssumption DEF Init, ValidationInit, MarketOK
<1>2. judged_rounds = <<>> /\ comparison = Nothing
  BY DEF Init, ValidationInit
<1>3. DOMAIN judged_rounds = {}
  BY <1>2
<1> QED BY <1>1, <1>2, <1>3 DEF ComparisonInv

LEMMA ComparisonSteps ==
    ASSUME [Next]_researchVars
    PROVE  \/ UNCHANGED comparison
           \/ \E r \in DOMAIN judged_rounds, plan \in Plans : CompareStrategies(r, plan)
<1>1. ASSUME EvidenceStep PROVE UNCHANGED comparison
  BY <1>1 DEF EvidenceStep, ReportStep, TakeSummary, CombineSummaries, StreamReturns,
     FinishReport, CancelReport, ReportFails
<1>2. ASSUME NEW d \in Desks, DeskRequest(d) \/ DeskStep(d) PROVE UNCHANGED validationVars
  BY <1>2 DEF DeskRequest, DeskStep, DeskAlone
<1>3. ASSUME SegmentStep \/ SearchRequest \/ GenerationStep \/ TunerStep
             \/ UNCHANGED researchVars
      PROVE  UNCHANGED validationVars
  BY <1>3 DEF SegmentStep, SearchRequest, GenerationStep, TunerStep,
     DeskAlone, SearchAlone, TunerAlone, researchVars
<1>4. ASSUME NEW r, NEW plan, StartReport(r, plan) PROVE UNCHANGED comparison
  BY <1>4 DEF StartReport
<1>5. ASSUME StopReport \/ ExitReport \/ DamageSummary \/ SyncPrices PROVE UNCHANGED comparison
  BY <1>5 DEF StopReport, ExitReport, DamageSummary, SyncPrices, evidence
<1>6. ASSUME NEW a, NEW run, CreateSession(a, run) \/ SelectRound(a, run)
      PROVE  UNCHANGED comparison
  BY <1>6 DEF CreateSession, SelectRound, evidence
<1> QED BY <1>1, <1>2, <1>3, <1>4, <1>5, <1>6 DEF Next, EvidenceRequest, validationVars, evidence

(* The end of a segment: what it says of its winner is so.                   *)
LEMMA SelectedKnown ==
    ASSUME SplitInv, ComparisonInv, NEW pool \in Pools, NEW run, SelectRound(pool, run)
    PROVE  \A r \in DOMAIN judged_rounds' : KnownOK(judged_rounds'[r], SessionFolds)
<1> DEFINE chosen == Selection(pool)
           entry == [best |-> chosen.best, polarity |-> chosen.polarity,
                     validated |-> chosen.validated, run |-> run, market |-> market,
                     trials |-> ReportTrials(pool), searched |-> Len(pool)]
           n == Len(judged_rounds)
           folds == SessionFolds
<1>1. judged_rounds' = Append(judged_rounds, entry) /\ frozen # Nothing
  BY DEF SelectRound
<1>2. IsList(judged_rounds) /\ n \in Nat /\ DOMAIN judged_rounds = 1 .. n
  BY DEF SplitInv, IsList
<1>3. entry.best = chosen.best /\ entry.validated = chosen.validated /\ entry.market = market
  OBVIOUS
<1> HIDE DEF entry
<1>4. /\ DOMAIN judged_rounds' = 1 .. n + 1 /\ judged_rounds'[n + 1] = entry
      /\ \A i \in 1 .. n : judged_rounds'[i] = judged_rounds[i]
  BY <1>1, <1>2, Appended
<1> HIDE DEF n, chosen
<1>5. KnownOK(entry, folds)
  <2> SUFFICES ASSUME chosen.validated
               PROVE  /\ \E p \in Pools : \E i \in DOMAIN p : entry.best = p[i].key
                      /\ \A k \in 1 .. FoldCount :
                            AdequateAt(entry.market.revision, entry.best, folds[k])
    BY <1>3 DEF KnownOK
  <2>1. PICK i \in DOMAIN pool :
           /\ chosen.best = pool[i].key
           /\ \A k \in 1 .. FoldCount : Adequate(pool[i], folds[k])
    BY <1>1, WinnerIsAdequate DEF ComparisonInv, chosen
  <2>2. \A k \in 1 .. FoldCount : AdequateAt(market.revision, pool[i].key, folds[k])
    BY <2>1, AdequateIs
  <2> QED BY <1>3, <2>1, <2>2
<1>6. ASSUME NEW r \in DOMAIN judged_rounds' PROVE KnownOK(judged_rounds'[r], folds)
  <2>1. CASE r = n + 1
    BY <1>4, <1>5, <2>1
  <2>2. CASE r # n + 1
    <3>1. r \in 1 .. n
      BY <1>2, <1>4, <2>2
    <3> QED BY <1>2, <1>4, <3>1 DEF ComparisonInv
  <2> QED BY <2>1, <2>2
<1> QED BY <1>6 DEF folds

(* The comparison: a winner that no book holds both ways is eligible.        *)
LEMMA ComparedAgrees ==
    ASSUME SplitInv, ComparisonInv, NEW r \in DOMAIN judged_rounds, NEW plan,
           CompareStrategies(r, plan)
    PROVE  AgreesOK(comparison', judged_rounds[r])
<1> DEFINE entry == judged_rounds[r]
           c == comparison'
           folds == SessionFolds
<1>1. /\ c.market = market /\ c.strategies = Range(plan)
      /\ c.eligible = {strategy \in Range(plan) : Eligible(entry, strategy)}
  BY DEF CompareStrategies
<1> HIDE DEF c
<1> SUFFICES ASSUME entry.validated, c.market = entry.market, Primary \in c.strategies,
                    ~HeldBothWays(entry)
             PROVE  Primary \in c.eligible
  BY DEF AgreesOK, c
<1>2. frozen # Nothing /\ Covered(entry.run, frozen.embargo) /\ frozen.embargo \in Nat
  <2>1. judged_rounds # <<>>
    OBVIOUS
  <2> QED BY <2>1 DEF SplitInv, FrozenOK
<1>3. MarketOK(market) /\ KnownOK(entry, folds) /\ entry.market = market
  BY <1>1 DEF ComparisonInv
<1>4. FoldsOK(folds)
  BY <1>2, FoldsFacts
<1> HIDE DEF entry, folds
<1>5. WeightsOK(entry, market)
  <2>1. PICK pool \in Pools : \E i \in DOMAIN pool : entry.best = pool[i].key
    BY <1>3 DEF KnownOK
  <2>2. PICK i \in DOMAIN pool : entry.best = pool[i].key
    BY <2>1
  <2>3. ASSUME NEW t \in 1 .. market.days
        PROVE  Weights(market.revision, entry.best, Primary, t) \in [Names -> Int]
    <3>1. t \in 1 .. MaxDays /\ market.revision \in Revisions
      BY <1>3, ValidationAssumption DEF MarketOK
    <3> QED BY <2>2, <3>1, CandidatesAssumption
  <2> QED BY <2>3 DEF WeightsOK
<1>6. ASSUME NEW k \in 1 .. FoldCount
      PROVE  /\ Measurable([key |-> entry.best], folds[k])
             /\ Covers(Realized(entry, folds[k], market), folds[k])
             /\ Healthy(entry, Primary, folds[k], market)
  <2> DEFINE dates == folds[k]
             embargo == frozen.embargo
  <2>1. /\ dates \in SUBSET (1 .. market.days) /\ IsFiniteSet(dates)
        /\ \A t \in dates : t + embargo < market.days
    BY <1>4 DEF FoldsOK
  <2>2. AdequateAt(market.revision, entry.best, dates)
    BY <1>3 DEF KnownOK
  <2>3. /\ entry.run.horizon \in Nat \ {0} /\ embargo \in Nat
        /\ LabelSpan(entry.run.horizon, entry.run.execution) <= embargo
    BY <1>2 DEF Covered
  <2> HIDE DEF dates, embargo
  <2>4. /\ Measurable([key |-> entry.best], dates)
        /\ Covers(Realized(entry, dates, market), dates)
        /\ Healthy(entry, Primary, dates, market)
    BY <1>3, <1>5, <2>1, <2>2, <2>3, FoldAgrees
  <2> QED BY <2>4 DEF dates
<1>7. \A dates \in Range(folds) : \E k \in 1 .. FoldCount : dates = folds[k]
  BY <1>4 DEF FoldsOK, Range
<1>8. Eligible(entry, Primary)
  BY <1>6, <1>7 DEF Eligible, folds
<1> QED BY <1>1, <1>8

LEMMA ComparisonKept ==
    ASSUME SplitInv, ComparisonInv, [Next]_researchVars
    PROVE  ComparisonInv'
<1>1. ASSUME UNCHANGED <<market, frozen, judged_rounds>>, UNCHANGED comparison
      PROVE  ComparisonInv'
  BY <1>1 DEF ComparisonInv, SessionFolds
<1>2. ASSUME UNCHANGED <<market, frozen, judged_rounds>>,
             NEW r \in DOMAIN judged_rounds, NEW plan \in Plans, CompareStrategies(r, plan)
      PROVE  ComparisonInv'
  <2>1. comparison'.round = r
    BY <1>2 DEF CompareStrategies
  <2>2. AgreesOK(comparison', judged_rounds[r])
    BY <1>2, ComparedAgrees
  <2>3. SessionFolds' = SessionFolds
    BY <1>2 DEF SessionFolds
  <2> QED BY <1>2, <2>1, <2>2, <2>3 DEF ComparisonInv
<1>3. ASSUME NEW choice, NEW run, CreateSession(choice, run) PROVE ComparisonInv'
  <2>1. judged_rounds = <<>> /\ UNCHANGED <<market, judged_rounds, comparison>>
    BY <1>3 DEF CreateSession, SplitInv, evidence
  <2>2. DOMAIN judged_rounds = {}
    BY <2>1
  <2> QED BY <2>1, <2>2 DEF ComparisonInv
<1>4. ASSUME NEW pool \in Pools, NEW run, SelectRound(pool, run) PROVE ComparisonInv'
  <2>1. UNCHANGED <<market, frozen, comparison>> /\ SessionFolds' = SessionFolds
    BY <1>4 DEF SelectRound, evidence, SessionFolds
  <2>2. \A r \in DOMAIN judged_rounds' : KnownOK(judged_rounds'[r], SessionFolds)
    BY <1>4, SelectedKnown
  <2>3. \A r \in DOMAIN judged_rounds :
           r \in DOMAIN judged_rounds' /\ judged_rounds'[r] = judged_rounds[r]
    <3> DEFINE n == Len(judged_rounds)
    <3>1. IsList(judged_rounds) /\ n \in Nat /\ DOMAIN judged_rounds = 1 .. n
      BY DEF SplitInv, IsList
    <3>2. PICK e : judged_rounds' = Append(judged_rounds, e)
      BY <1>4 DEF SelectRound
    <3>3. /\ DOMAIN judged_rounds' = 1 .. n + 1
          /\ \A i \in 1 .. n : judged_rounds'[i] = judged_rounds[i]
      BY <3>1, <3>2, Appended
    <3> HIDE DEF n
    <3> QED BY <3>1, <3>3
  <2> QED BY <2>1, <2>2, <2>3 DEF ComparisonInv
<1>5. ASSUME SyncPrices PROVE ComparisonInv'
  <2>1. UNCHANGED <<frozen, judged_rounds, comparison>> /\ SessionFolds' = SessionFolds
    BY <1>5 DEF SyncPrices, evidence, SessionFolds
  <2>2. /\ market'.days \in market.days .. Smaller(MaxDays, market.days + 1)
        /\ market'.revision \in Revisions
    BY <1>5 DEF SyncPrices
  <2>3. MarketOK(market') /\ market'.days >= market.days /\ market.days \in Nat
    BY <2>2, ValidationAssumption DEF ComparisonInv, MarketOK, Smaller
  <2> QED BY <2>1, <2>3 DEF ComparisonInv
<1>6. ASSUME NEW r, NEW plan, CompareStrategies(r, plan)
      PROVE  UNCHANGED <<market, frozen, judged_rounds>>
  BY <1>6 DEF CompareStrategies
<1> QED BY <1>1, <1>2, <1>3, <1>4, <1>5, <1>6, OtherSteps, ComparisonSteps

(* "Applies the same fold-level exposure floor used during candidate         *)
(* selection" (selection.py 557-558): for any candidates, floors, horizons   *)
(* and prices, the strategy a winner was selected under is eligible on the   *)
(* prices it was selected on, unless signals of one book hold a name on      *)
(* opposite sides.                                                           *)
THEOREM ComparisonCorrect == Spec => []ComparisonAgreesWithSelection
<1>1. Init => SplitInv /\ ComparisonInv
  BY SplitStart, ComparisonStart
<1>2. SplitInv /\ ComparisonInv /\ [Next]_researchVars => ComparisonInv'
  BY ComparisonKept
<1>3. ComparisonInv => ComparisonAgreesWithSelection
  BY DEF ComparisonInv, AgreesOK, ComparisonAgreesWithSelection
<1> QED BY <1>1, <1>2, <1>3, SplitInvariant, PTL DEF Spec
=============================================================================
