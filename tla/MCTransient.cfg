SPECIFICATION TransientSpec
CONSTANTS
    r1 = r1
    r2 = r2
    MaxSegments = 3
    Taxonomy <- MCTaxonomy
    MaxFindings = 4
    LongIds = {"long"}
    MaxCandidates = 2
    MaxComparisons = 4
    Reviews <- MCReviews
    Comparisons <- MCComparisons
    Dimensions <- MCDimensions
    Durations <- MCDurations
    Ages <- MCAges
    Epsilon = 2
    SteepestChange = 19900
    MaxLatest = 2
    MaxTrends = 1
    MaxContradictions = 1
    MaxGaps = 2
    MaxBindings = 2
    MaxDimensions = 2
    MaxEntities = 2
    MaxRows = 2
    ProfileMetrics = 1
    ProfileBindings = 2
    ComparisonBindings = 1
    BindingBudget = 8
    Researches <- MCResearches
    Landscapes <- MCResearches
    Requests = {r1, r2}
    Policies <- MCPolicies
    Inputs <- MCInputs
    Answers <- MCAnswers
    Notes <- MCNotes
    MaxNotes = 2
INVARIANTS
    EveryClauseAccounted
    TwinsPaired
    LegalOmissionsDisclosed
    DisputesAgree
    CountsAgree
    RestoreUndoesTokenize
CHECK_DEADLOCK FALSE
