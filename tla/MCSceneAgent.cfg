CONSTANTS
  Node = {1, 2, 3}
  None = None
  Name <- MCName
  Key = {1, 2}
  Capacity = 2
  MaxGeneration = 6
  Vertex = {1, 2, 3, 4}
  MatchGraphs <- MCMatchGraphs
  Patterns <- MCPatterns
  WalkGraphs <- MCWalkGraphs
  Walks <- MCWalks
  SearchGraphs <- MCSearchGraphs
  Searches <- MCSearches
  MaxSiblings = 8
  Scenes <- MCScenes
  MaxChanges = 1
  SpokenPaths <- MCSpokenPaths
  HeardTexts <- MCHeardTexts
SPECIFICATION AgentSpec
CHECK_DEADLOCK FALSE
INVARIANT MirrorTracksScene
INVARIANT RemovalsAreNamed
INVARIANT HandlesResolve
INVARIANT MatchesAreExact
INVARIANT TraversalsAreExact
INVARIANT KeysSeparate
