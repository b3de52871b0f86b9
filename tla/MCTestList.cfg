CONSTANTS
  F0 = F0  F1 = F1  F2 = F2  s1 = s1  s2 = s2  sbad = sbad  s9 = s9  c1 = c1  c2 = c2  c9 = c9
  Files <- MCFiles
  Root = F0
  BadNames <- MCBadNames
  MAX_EXPANSION_DEPTH = 1
  MAX_INCLUSION_DEPTH = 1
  Docs <- MCDocFns
  Tags <- MCTags
  PlatFiles <- MCSkipPlat
  ArchFiles <- MCSkipArch
SPECIFICATION Spec
INVARIANT TypeOK
INVARIANT DepthTracksNesting
PROPERTY ImplementsTestListSpec
PROPERTY Terminates
