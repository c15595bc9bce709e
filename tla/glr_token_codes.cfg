SPECIFICATION FairSpec
CONSTANTS
  Grammar = "sums"
  MaxHeight = 5
  MaxCount = 100
  StateId <- MCStateId
  StartState = 0
  TermIndex <- MCTermIndex
  NtIndex <- MCNtIndex
  ProdIndex <- MCProdIndex
  FinalProduction = 0
  ProdInfo <- MCProdInfo
  ActionTable <- MCActionTable
  GotoTable <- MCGotoTable
  NontermOrder <- MCNontermOrder
  Texts <- DeclaredTexts
  Lexeme <- DeclaredLexeme
  Reclassify <- DeclaredReclassify
  ToInternalType <- DeclaredToInternalType
  SVal <- MCSVal
  TokenVal <- MCTokenVal
  ReductionAction <- MCReductionAction
  MergeAlternativeParses <- MCMerge
  KeepNontermValue <- Keep
  EnableEEF = FALSE
  NDebug = FALSE
  MaxYieldThenMerge = 1
  Meaning <- MCMeaning
  Items <- MCItems
  Nonterminals <- MCNtIndex
  Productions <- MCProductions
PROPERTIES
  ImplementsParser
