SPECIFICATION Spec
CONSTANTS
    Upper <- Small
    MaxEvaluations = 32
    FormulaNames = {"band", "cross"}
    Desks = {1, 2, 3}
    MaxToolCalls = 3
    MaxScores = 2
    MaxTokens = 3
    MaxSteps = 1
    Replies <- AllReplies
    ReplyTokens = {1}
    plain = plain
    macro = macro
    mistyped = mistyped
    Expressions = {plain, macro, mistyped}
    NamesIn <- Named
    Typed = {plain, macro}
    StartConfig <- Start
    MaxListed = 4
    Embargo = 2
    Trees <- AllTrees
    PopulationSize = 5
    Elitism = 1
    TournamentSize = 2
    CrossoverRate = 60
    SubtreeRate = 30
    PointRate = 30
    NeighborPercent = 30
    Profile <- Balanced
    CopyLimit = 2
    RetryLimit = 2
    BoostAfter = 1
    ImmigrantLimit = 20
    Defaults <- PublishedDefaults
    Niche <- ByThree
    Formula <- Calls
    NoFormula = 0
    Tuple <- Parameters
    Draw <- Stream
    Crossed <- Cross
    Composed <- Compose
    Subtree <- Sub
    Pointed <- Point
    Inserted <- Insert
    Grown <- Grow
    AxisMoves <- OneAxis
    AllMoves <- EveryMove
    Measures = {"first", "second"}
    FirstMeasure = "first"
    Score <- Fitnesses
    Kernels = {"native", "python"}
    KernelFor <- Own
    MaxGenerations = 3
    ChunkSize = 2
    NoCheckpoint = NoCheckpoint
    Ceilings = {2, 3}
    BatchSizes = {1, 2, 3}
    Costs = {0, 20, 22, 40}
    MinBatch = 2
    SamplesPerRung = 2
    DriftPatience = 2
    NoTuner = NoTuner
    NoTimings = NoTimings
    MinInnerDates = 1
    HoldoutPercent = 25
    FoldCount = 2
    MinFoldDates = 1
    MinCoverage = 60
    Pools <- TwoPools
    DailyIC <- IC
    Varies <- Telling
    Names <- ThreeNames
    Weights <- Holding
    Primary = "quantile"
    NoIC = 99
    Deduction <- PerNode
    Unit = 2
    Palette = 1
    Plans <- TwoPlans
    Blocks = {1, 2, 3, 4}
    Sharpe <- Ratio
    Genuine <- Deflated
    MaxDays = 20
    MaxRounds = 2
    Revisions = {1, 2}
    Budgets <- Spread
INVARIANTS
    ResearchTypeOK
    PatchesStayLegal
    RoundsCarryTheirSearch
    ResumeReproducesRun
    KernelsDoNotMix
    NoLabelCrosses
    ReportMatchesReference
    ComparisonAgreesWithSelection
    CalibrationsArePaid
PROPERTIES
    TrialsNeverShrink
CHECK_DEADLOCK FALSE
