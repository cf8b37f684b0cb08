SPECIFICATION LabSpec
CONSTANTS
    Parents = {1, 2, 3, 4, 5, 6}
    ParentTokens <- MCTokens
    MaxDenseDepth = 3
    Tiers = {0, 1, 2, 3}
    Graphs <- MCGraphs
    Queries <- MCQueries
    Rankings <- MCRankings
    Lanes <- MCLanes
    Policies <- MCPolicies
    Labels <- MCLabels
    Traits <- MCTraits
    ProtectedPrimaryK = 2
    RelatedParentLimit = 2
    RelatedBodyLimit = 1
    FrontierBucketLimit = 2
    FrontierGlobalLimit = 32
    None = None
    ClosureCountBudgets = {1, 2}
    ClosureByteBudgets = {1, 2}
    HintCountBudgets = {1, 2}
    HintByteBudgets = {1, 2}
    Segments <- MCSegments
    Units <- MCUnits
    Contracts <- MCContracts
    NoFile = NoFile
    Contract <- MCContract
    Completions <- MCCompletions
    Inputs <- MCInputs
    Bodies <- MCBodies
    Cells <- MCCells
    ProtectedK = 1
    Gradings <- MCGradings
    Rulings <- MCRulings
    Reviewers <- MCReviewers
    MaxSteps = 9
INVARIANTS
    SelectionRestsOnOneChain
    FrozenLabelsEvaluate
    EitherSideSettles
    EvaluationNeverFails
    CapsKeepBridgesAndBest
    ReportExact
CHECK_DEADLOCK FALSE
