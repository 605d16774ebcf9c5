--------------------------- MODULE SearchVariation ---------------------------
(***************************************************************************)
(* One generation of the genetic search (class GP) as a function of the    *)
(* search's state: who survives, which lanes breed the rest, under a limit *)
(* of copies of one tree.  A tree is the name of its canonical form.  The  *)
(* random generator is a position in a fixed stream, and what an operation *)
(* makes of its parents is any fixed function of the parents and the draw; *)
(* where no legal tree results, that function gives the first parent back. *)
(* Fractions and rates are in percent; novelty_mode is "off", its default. *)
(***************************************************************************)
EXTENDS Integers, SequencesExt

CONSTANTS
    Trees,
    PopulationSize, Elitism, TournamentSize, CrossoverRate, SubtreeRate, PointRate,
    NeighborPercent,    \* parameter_neighbor_fraction
    Profile,            \* ExplorationSettings
    CopyLimit,          \* MAX_CANONICAL_COPIES
    RetryLimit,         \* DUPLICATE_RETRY_LIMIT
    BoostAfter,         \* STAGNATION_BOOST_AFTER
    ImmigrantLimit,     \* attempts at an immigrant
    Defaults,           \* the published default of each enabled formula, in order
    Niche,              \* per tree: formula, category and size band
    Formula,            \* per tree: the tunable formula it calls, or NoFormula
    NoFormula,
    Tuple,              \* per tree: its parameters, as a number that orders them
    Draw(_),            \* the stream
    Crossed(_, _, _), Composed(_, _, _), Subtree(_, _), Pointed(_, _), Inserted(_, _),
    Grown(_),           \* a tree grown from a draw
    AxisMoves(_), AllMoves(_) \* neighbours of a tree: one step on one axis; all of them

ASSUME VariationAssumption ==
    /\ PopulationSize \in Nat \ {0} /\ Elitism \in 0 .. PopulationSize - 1
    /\ TournamentSize \in Nat \ {0} /\ CopyLimit \in Nat \ {0} /\ RetryLimit \in Nat \ {0}
    /\ ImmigrantLimit \in Nat /\ Defaults \in Seq(Trees)
    /\ {"name", "stones", "guided", "two_edit"} \subseteq DOMAIN Profile
    /\ Profile.stones \in Nat
    /\ \A t \in Trees :
          /\ AxisMoves(t) \in Seq(Trees) /\ AllMoves(t) \in Seq(Trees)
          /\ Formula[t] # NoFormula => Formula[t] \in Int
          /\ Tuple[t] \in Int

Least(a, b) == IF a < b THEN a ELSE b

(* Half-way cases go to the even neighbour, as Python's round does.          *)
Rounded(n, percent) ==
    LET whole == (n * percent) \div 100
        rest == (n * percent) % 100
    IN  IF rest > 50 \/ (rest = 50 /\ whole % 2 = 1) THEN whole + 1 ELSE whole

(* with_stagnation_boost.                                                    *)
Boosted(stale) ==
    IF Profile.name = "classic" \/ stale < BoostAfter THEN Profile
    ELSE [Profile EXCEPT !.guided = Least(50, @ + 10), !.two_edit = Least(30, @ + 10)]

(* Cursors and draws only grow; cache gives every searched tree its score.   *)
NewSearch ==
    [generation |-> 0, rng |-> 0, population |-> <<>>, cache |-> <<>>, prior |-> 0,
     pending |-> <<>>, beam |-> 0, frontier |-> 0, lane |-> 0, guide |-> 0,
     best |-> -1, stale |-> 0]

TreeAt(s, i) == s.population[i].tree
FitnessAt(s, i) == s.population[i].fitness
Tick(s) == [s EXCEPT !.rng = @ + 1]

-----------------------------------------------------------------------------
(* Lists.                                                                    *)

(* Those of S in the order of the relation R.                                *)
InOrder(S, R) ==
    [n \in 1 .. Cardinality(S) |->
        CHOOSE x \in S : Cardinality({y \in S : <<y, x>> \in R}) = n - 1]

(* What a list has at some of its places.                                    *)
Picked(list, places) ==
    LET at == InOrder(places, {p \in places \X places : p[1] < p[2]})
    IN  [n \in 1 .. Cardinality(places) |-> list[at[n]]]

Unseen(trees, cache) == Picked(trees, {k \in DOMAIN trees : trees[k] \notin DOMAIN cache})

Copies(trees, t) == Cardinality({k \in DOMAIN trees : trees[k] = t})
CountsOf(trees) == [t \in Trees |-> Copies(trees, t)]
Adds(counts, t) == [counts EXCEPT ![t] = @ + 1]

(* The places of a list where a tree is taken: its copies, with those among  *)
(* others, are not used up there.                                            *)
UnderLimit(trees, others) ==
    {k \in DOMAIN trees : Copies(others, trees[k]) + Copies(SubSeq(trees, 1, k - 1), trees[k])
                             < CopyLimit}

-----------------------------------------------------------------------------
(* Fittest first, and the earlier of two as fit.                             *)
Ahead(s, i, j) ==
    \/ FitnessAt(s, i) > FitnessAt(s, j)
    \/ FitnessAt(s, i) = FitnessAt(s, j) /\ i < j

Ranked(s, S) == InOrder(S, {p \in S \X S : Ahead(s, p[1], p[2])})

TreesAt(s, indices) == [k \in DOMAIN indices |-> TreeAt(s, indices[k])]
Survivors(s, indices, others) == Picked(indices, UnderLimit(TreesAt(s, indices), others))

(* _stepping_stone_indices: the young by niche, each niche's fittest first,  *)
(* then the newest tree beside each.                                         *)
Stones(s, excluded, target) ==
    LET young == {i \in DOMAIN s.population \ excluded :
                    s.generation - s.population[i].birth < Profile.ttl}
        Kin(i) == {j \in young : Niche[TreeAt(s, j)] = Niche[TreeAt(s, i)]}
        leading == {i \in young : \A j \in Kin(i) \ {i} : Ahead(s, i, j)}
        Others(i) == {j \in Kin(i) : TreeAt(s, j) # TreeAt(s, i)}
        Newer(i, j) == \/ s.population[i].birth > s.population[j].birth
                       \/ s.population[i].birth = s.population[j].birth /\ i <= j
        Second(i) == CHOOSE j \in Others(i) : \A k \in Others(i) : Newer(j, k)
        followed == Ranked(s, {i \in leading : Others(i) # {} /\ Profile.cap > 1})
        all == Ranked(s, leading) \o [k \in DOMAIN followed |-> Second(followed[k])]
    IN  SubSeq(all, 1, Least(target, Len(all)))

-----------------------------------------------------------------------------
(* Operations: the search after its draws, a tree and whose child it is.     *)

(* The fittest of a few drawn, the first drawn of those as fit.              *)
Tournament(s, pool) ==
    LET drawn == [k \in 1 .. TournamentSize |->
                     pool[1 + (Draw(s.rng + k - 1) % Len(pool))]]
        wins(k) == \A m \in DOMAIN drawn :
                       \/ FitnessAt(s, drawn[k]) > FitnessAt(s, drawn[m])
                       \/ FitnessAt(s, drawn[k]) = FitnessAt(s, drawn[m]) /\ k <= m
    IN  [s |-> [s EXCEPT !.rng = @ + TournamentSize],
         i |-> drawn[CHOOSE k \in DOMAIN drawn : wins(k)]]

Everyone(s) == [i \in DOMAIN s.population |-> i]
Happens(s, percent) == Draw(s.rng) % 100 < percent

Mated(how, s, t, at) ==
    IF how = "composition" THEN Composed(s, t, at) ELSE Crossed(s, t, at)

Rewritten(how, t, at) ==
    CASE how = "subtree" -> Subtree(t, at)
      [] how = "point" -> Pointed(t, at)
      [] how = "insertion" -> Inserted(t, at)

Pair(s, pool, how) ==
    LET a == Tournament(s, pool)
        b == Tournament(a.s, Everyone(s))
    IN  [s |-> Tick(b.s), parents |-> <<a.i, b.i>>, move |-> FALSE,
         tree |-> Mated(how, TreeAt(s, a.i), TreeAt(s, b.i), b.s.rng)]

Single(s, pool) ==
    LET a == Tournament(s, pool)
    IN  [s |-> a.s, parents |-> <<a.i>>, move |-> FALSE, tree |-> TreeAt(s, a.i)]

Edited(child, how) ==
    [child EXCEPT !.s = Tick(@), !.tree = Rewritten(how, @, child.s.rng)]

Perhaps(child, percent, how) ==
    LET after == [child EXCEPT !.s = Tick(@)]
    IN  IF Happens(child.s, percent) THEN Edited(after, how) ELSE after

(* _offspring.                                                               *)
Standard(s, pool) ==
    LET bred == IF Happens(s, CrossoverRate) THEN Pair(Tick(s), pool, "crossover")
                ELSE Single(Tick(s), pool)
    IN  Perhaps(Perhaps(bred, SubtreeRate, "subtree"), PointRate, "point")

TwoEdits(s, pool) ==
    LET Edit(child) ==
            LET after == [child EXCEPT !.s = Tick(@)]
            IN  CASE Draw(child.s.rng) % 3 = 0 -> Edited(after, "point")
                  [] Draw(child.s.rng) % 3 = 1 -> Edited(after, "subtree")
                  [] OTHER -> Edited(after, "insertion")
    IN  Edit(Edit(Single(s, pool)))

(* Sources of parameter moves: no tuple twice; in the beam, only the fittest *)
(* few of a formula.                                                         *)
Sources(s, eligible, beam) ==
    LET calls == {i \in eligible : Formula[TreeAt(s, i)] # NoFormula}
        First(j, i) == IF beam THEN Ahead(s, j, i) ELSE j < i
        Call(i) == <<Formula[TreeAt(s, i)], Tuple[TreeAt(s, i)]>>
        fresh == {i \in calls : \A j \in calls : First(j, i) => Call(j) # Call(i)}
        Rivals(i) == {Call(j) : j \in {k \in calls : First(k, i) /\ Call(k)[1] = Call(i)[1]}}
        Before(i, j) ==
            LET a == Call(i)
                b == Call(j)
            IN  IF a[1] # b[1] THEN a[1] < b[1]
                ELSE IF beam THEN First(i, j)
                ELSE a[2] < b[2] \/ (a[2] = b[2] /\ i < j)
        best == {i \in fresh : ~beam \/ Cardinality(Rivals(i)) < Profile.width}
    IN  InOrder(best, {p \in best \X best : Before(p[1], p[2])})

Moves(s, sources, beam) ==
    LET Of(i) == IF beam THEN AxisMoves(TreeAt(s, i)) ELSE AllMoves(TreeAt(s, i))
    IN  FlattenSeq([k \in DOMAIN sources |->
            [m \in DOMAIN Of(sources[k]) |->
                [tree |-> Of(sources[k])[m], parent |-> sources[k]]]])

(* From a cursor on, the next move to a tree not searched yet, if any.       *)
NextMove(s, beam, moves, cursor) ==
    LET At(offset) == moves[1 + ((cursor + offset) % Len(moves))]
        unseen == {k \in 0 .. Len(moves) - 1 : At(k).tree \notin DOMAIN s.cache}
        next == IF unseen = {} THEN cursor + Len(moves) ELSE cursor + Min(unseen) + 1
        after == IF beam THEN [s EXCEPT !.lane = @ + 1, !.beam = next]
                 ELSE [s EXCEPT !.lane = @ + 1, !.frontier = next]
    IN  IF unseen = {} THEN [s |-> after, move |-> FALSE]
        ELSE [s |-> after, move |-> TRUE, tree |-> At(Min(unseen)).tree,
              parents |-> <<At(Min(unseen)).parent>>]

(* _parameter_neighbor: from beam and frontier in turn.                      *)
Neighbor(s, eligible) ==
    LET beam == s.lane % 2 = 0
    IN  NextMove(s, beam, Moves(s, Sources(s, eligible, beam), beam),
                 IF beam THEN s.beam ELSE s.frontier)

OrElse(move, other) == IF move.move THEN move ELSE other

(* A neighbour of the guided parents, of anyone, or a standard child.        *)
ParameterChild(s, pool) ==
    LET first == Neighbor(s, Range(pool))
        second == OrElse(first, Neighbor(first.s, DOMAIN s.population))
    IN  OrElse(second, Standard(second.s, pool))

Child(s, lane, pool) ==
    CASE lane = "parameter" -> ParameterChild(s, pool)
      [] lane = "two_edit" -> TwoEdits(s, pool)
      [] lane = "composition" -> Pair(s, pool, "composition")
      [] lane = "insertion" -> Edited(Single(s, pool), "insertion")
      [] OTHER -> Standard(s, pool)

(* The first grown tree whose copies are not used up; none may be left.      *)
Immigrant(s, counts) ==
    LET fits == {k \in 0 .. ImmigrantLimit - 1 : counts[Grown(s.rng + k)] < CopyLimit}
    IN  IF fits = {} THEN [found |-> FALSE]
        ELSE [found |-> TRUE, s |-> [s EXCEPT !.rng = @ + Min(fits) + 1],
              tree |-> Grown(s.rng + Min(fits)), parents |-> <<>>]

-----------------------------------------------------------------------------
Lanes == <<"parameter", "two_edit", "composition", "insertion">>

(* _lane_targets.                                                            *)
LaneTargets(slots, settings) ==
    [parameter |-> Least(slots, Rounded(slots, NeighborPercent)),
     two_edit |-> Least(slots, Rounded(slots, settings.two_edit)),
     composition |-> Least(slots, Rounded(slots, settings.composition)),
     insertion |-> Least(slots, Rounded(slots, settings.insertion))]

(* _next_lane: in turn, those short of their target; then the standard one.  *)
NextLane(scheduled, targets, cursor) ==
    LET At(k) == Lanes[1 + ((cursor + k) % Len(Lanes))]
        short == {k \in 0 .. Len(Lanes) - 1 : scheduled[At(k)] < targets[At(k)]}
    IN  IF short = {} THEN [lane |-> "standard", cursor |-> cursor + 1]
        ELSE [lane |-> At(Min(short)), cursor |-> cursor + Min(short) + 1]

(* _take_pending_formula_default: those already searched are dropped, those  *)
(* out of copies go to the end of the list.                                  *)
TakeDefault(s, counts) ==
    LET unseen(t) == t \notin DOMAIN s.cache
        ready == {k \in DOMAIN s.pending : unseen(s.pending[k]) /\ counts[s.pending[k]] < CopyLimit}
        passed(k) == Unseen(SubSeq(s.pending, 1, k), s.cache)
    IN  IF ready = {} THEN [found |-> FALSE, s |-> [s EXCEPT !.pending = passed(Len(@))]]
        ELSE LET k == Min(ready)
             IN  [found |-> TRUE, tree |-> s.pending[k],
                  s |-> [s EXCEPT !.pending = SubSeq(@, k + 1, Len(@)) \o passed(k - 1)]]

(* A faulty variant: the copies of a bred tree are not counted.              *)
Joins_Uncounted(g, child) ==
    [g EXCEPT !.s = child.s,
              !.offspring = Append(@, [tree |-> child.tree, parents |-> child.parents])]

(* A tree bred for the next generation.                                      *)
Joins(g, child) ==
    [g EXCEPT !.s = child.s, !.counts = Adds(@, child.tree),
              !.offspring = Append(@, [tree |-> child.tree, parents |-> child.parents])]

WithDefaults(g, budget) ==
    LET Given[k \in 0 .. budget] ==
            IF k = 0 THEN [g |-> g, more |-> TRUE]
            ELSE LET last == Given[k - 1]
                     next == TakeDefault(last.g.s, last.g.counts)
                 IN  IF ~last.more THEN last
                     ELSE IF next.found
                     THEN [last EXCEPT !.g = Joins(last.g, [s |-> next.s, tree |-> next.tree,
                                                            parents |-> <<>>])]
                     ELSE [last EXCEPT !.g.s = next.s, !.more = FALSE]
    IN  Given[budget].g

(* A few tries at a tree whose copies are not used up, and an immigrant.     *)
Bred(s, lane, pool, counts) ==
    LET Offered(child) ==
            IF counts[child.tree] < CopyLimit
            THEN [found |-> TRUE, s |-> child.s, tree |-> child.tree, parents |-> child.parents]
            ELSE [found |-> FALSE, s |-> child.s]
        Tried[k \in 0 .. RetryLimit] ==
            IF k = 0 THEN [s |-> s, found |-> FALSE]
            ELSE IF Tried[k - 1].found THEN Tried[k - 1]
            ELSE Offered(Child(Tried[k - 1].s, lane, pool))
        Otherwise(bred) == IF bred.found THEN bred ELSE Immigrant(bred.s, counts)
    IN  Otherwise(Tried[RetryLimit])

Fills(g, turn, child, guides, stone) ==
    LET own == guides /\ child.parents # <<>> /\ Head(child.parents) = stone
    IN  IF ~child.found THEN [g EXCEPT !.stuck = TRUE]
        ELSE [Joins(g, child) EXCEPT
                 !.cursor = turn.cursor,
                 !.scheduled = Adds(@, turn.lane),
                 !.guided = @ + (IF own THEN 1 ELSE 0)]

(* One slot: its lane, and perhaps a stepping stone for a parent.            *)
FillSlot(g, targets, guided) ==
    LET turn == NextLane(g.scheduled, targets, g.cursor)
        guides == g.guided < guided /\ g.stones # <<>>
        stone == g.stones[1 + (g.s.guide % Len(g.stones))]
        pool == IF guides THEN <<stone>> ELSE Everyone(g.s)
        start == IF guides THEN [g.s EXCEPT !.guide = @ + 1] ELSE g.s
    IN  Fills(g, turn, Bred(start, turn.lane, pool, g.counts), guides, stone)

(* The slots that survivors and defaults leave.                              *)
AllSlots(g, settings) ==
    LET slots == PopulationSize - (Len(g.elite) + Len(g.stones) + Len(g.offspring))
        targets == LaneTargets(slots, settings)
        guided == Least(slots, Rounded(slots, settings.guided))
        Filled[k \in 0 .. slots] ==
            IF k = 0 THEN g
            ELSE IF Filled[k - 1].stuck THEN Filled[k - 1]
            ELSE FillSlot(Filled[k - 1], targets, guided)
    IN  Filled[slots]

(* _step up to the scoring: the survivors, and the offspring to score.       *)
Variation(s) ==
    LET settings == Boosted(s.stale)
        order == Ranked(s, DOMAIN s.population)
        elite == Survivors(s, SubSeq(order, 1, Least(Elitism, Len(order))), <<>>)
        room == PopulationSize - Len(elite)
        stones == Survivors(s, Stones(s, Range(elite),
                                      Least(room, Rounded(PopulationSize, settings.stones))),
                            TreesAt(s, elite))
        open == room - Len(stones)
        budget == Min({Len(s.pending), Max({1, PopulationSize \div 2}), open})
    IN  AllSlots(WithDefaults(
            [s |-> s, counts |-> CountsOf(TreesAt(s, elite) \o TreesAt(s, stones)),
             offspring |-> <<>>, elite |-> elite, stones |-> stones, cursor |-> 0,
             scheduled |-> [lane \in Range(Lanes) \cup {"standard"} |-> 0],
             guided |-> 0, stuck |-> FALSE], budget),
            settings)
=============================================================================
