SPECIFICATION Spec
CONSTANTS
  MaxChars = 8
  MaxTokens = 6
  Headroom = 0
  Overlap = 1
  MinContent = 2
  MinProgress = 1
  CheckLines = 3
  LongLine = 2
  Corpus <- MCCorpus
  UnitParent <- MCUnitParent
  RrfK = 2
  TopFinal = 5
  MaxAnchors = 2
  MaxChildren = 1
  MaxAdded = 2
  PrefixLimit = 8
  Evidence = {"1"}
  Documents <- MCDocuments
  Rankings <- MCRankings
  SubQueries <- MCSubQueries
  Budgets = {4, 13, 40}
  Categories = {0, 1, 4}
  Headings = {1, 4}
  ModelTexts <- MCModelTexts
  Requests <- MCRequests
  Attempts <- MCAttempts
  HttpRequests <- MCHttpRequests
  Articles = {1, 4}
  PerAnchor = 2
  PoolLimit = 5
  Spread = 4
  Golden <- MCGolden
  Earlier <- MCEarlier
INVARIANTS
    ChunkContract
    RepairedPathsAreTrue
    ContextKeepsItsBudget
    CoverageSurvives
    StreamTellsTheAnswer
    EvidenceStaysHome
    GateIsExact
    BlameIsFair
CHECK_DEADLOCK FALSE
