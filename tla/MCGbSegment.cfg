CONSTANTS
  NumPages = 4
  NoHash = NoHash
  Seqs <- MCSeqs
  Hashes <- MCHashes
  Chain <- MCChain
  Start <- MCStart
SPECIFICATION Spec
INVARIANTS
  PoolExact
  OwnPrefixOnly
PROPERTY ImplementsOwners
