SPECIFICATION FairSpec
CONSTANTS
  Grammar = "cycles"
  MaxHeight = 5
  MaxCount = 1
  StateId <- MCStateId
  StartState = 0
  TermIndex <- MCTermIndex
  NtIndex <- MCNtIndex
  ProdIndex <- MCProdIndex
  FinalProduction = 0
  ProdInfo <- MCProdInfo
  ActionTable <- MCActionTable
  GotoTable <- MCGotoTable
  NontermOrder <- MCNontermOrder
  Texts <- CyclesTexts
  Lexeme <- ExtraLexeme
  Reclassify <- SplitReclassify
  ToInternalType <- MCToInternalType
  SVal <- RecognizerVal
  TokenVal <- MCTokenVal
  ReductionAction <- RecognizerAction
  MergeAlternativeParses <- RecognizerMerge
  KeepNontermValue <- Keep
  EnableEEF = FALSE
  NDebug = TRUE
  MaxYieldThenMerge = 1
  Meaning <- MCMeaning
  Items <- MCItems
  Nonterminals <- MCNtIndex
  Productions <- MCProductions
INVARIANTS
  ReductionsComplete
PROPERTIES
  OldNodesFrozen
  ImplementsParser
