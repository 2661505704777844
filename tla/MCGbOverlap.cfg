CONSTANTS
  NumPages = 5
  NoHash = NoHash
  Reqs <- MCReqs
  Prompt <- MCPrompt
  OutLen <- MCOutLen
  Eos = 2
  PageSize = 2
  MaxP = 4
  MaxD = 8
  PP = 1
  SplitPd = FALSE
  Ratios <- MCRatios
  Tokens <- MCTokens
  Abortable = {1}
SPECIFICATION FairSpec
INVARIANTS
  EngineExact
  OutputTrue
PROPERTY RequestEndsUnpreempted
