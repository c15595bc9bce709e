SPECIFICATION FairSpec
CONSTANTS
  Grammar = "forks"
  MaxHeight = 7
  MaxCount = 100
  StateId <- MCStateId
  StartState = 0
  TermIndex <- MCTermIndex
  NtIndex <- MCNtIndex
  ProdIndex <- MCProdIndex
  FinalProduction = 0
  ProdInfo <- MCProdInfo
  ActionTable <- MCActionTable
  GotoTable <- MCGotoTable
  NontermOrder <- MCNontermOrder
  Texts <- ForksTexts
  Lexeme <- MCLexeme
  Reclassify <- MCReclassify
  ToInternalType <- MCToInternalType
  SVal <- MCSVal
  TokenVal <- MCTokenVal
  ReductionAction <- MCReductionAction
  MergeAlternativeParses <- MCMerge
  KeepNontermValue <- Keep
  EnableEEF = FALSE
  NDebug = FALSE
  MaxYieldThenMerge = 1
  Meaning <- MCMeaning
  Items <- MCItems
  Nonterminals <- MCNtIndex
  Productions <- MCProductions
INVARIANTS
  TypeOK
  UniqueState
  RefCountExact
  EverythingReleased
  NoYieldThenMerge
  DeterminDepthExact
  QueuedPathsExist
PROPERTIES
  ImplementsParser
  ParseEnds
