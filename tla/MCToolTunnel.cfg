SPECIFICATION FairSpec
CONSTANTS
  N = 3
  Ids <- MCIds
  IdChoices <- MCIdChoices
  DepChoices <- MCDepChoices
  DocRag = "doc_rag"
INVARIANTS DependenciesFirst SortedOrRefused NumberingStable
PROPERTIES ExecuteEnds
CHECK_DEADLOCK FALSE
