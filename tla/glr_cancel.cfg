SPECIFICATION FairSpec
CONSTANTS
  Grammar = "cycles"
  MaxHeight = 6
  MaxCount = 100
  StateId <- MCStateId
  StartState = 0
  TermIndex <- MCTermIndex
  NtIndex <- MCNtIndex
  ProdIndex <- MCProdIndex
  FinalProduction = 0
  ProdInfo <- MCProdInfo
  ActionTable <- MCActionTable
  GotoTable <- MCGotoTable
  NontermOrder <- MCNontermOrder
  Texts <- CancelTexts
  Lexeme <- ExtraLexeme
  Reclassify <- KeywordReclassify
  ToInternalType <- MCToInternalType
  SVal <- MCSVal
  TokenVal <- MCTokenVal
  ReductionAction <- MCReductionAction
  MergeAlternativeParses <- MCMerge
  KeepNontermValue <- KeepOrCancel
  EnableEEF = TRUE
  NDebug = FALSE
  MaxYieldThenMerge = 1
  Meaning <- MCMeaning
  Items <- MCItems
  Nonterminals <- MCNtIndex
  Productions <- MCProductions
INVARIANTS
  AssertionsHold
  ValuesOwnedOnce
