CONSTANTS
  Frame = {1, 2}
  Edge <- MCEdge
  None = None
  MaxInputs = 2
  MaxRemote = 1
  Layer = {"Signal", "Power"}
  Unassigned = Unassigned
  Part <- MCPart
  Wire <- MCEdge
  MaxActs <- MCActs
  GridPart = {1, 2}
  NoPart = NoPart
  MaxPointer = 3
  MaxToggles = 1
  Cell = {1}
  MaxOthers = 1
SPECIFICATION EditorsSpec
INVARIANT EventsTellTheScene
INVARIANT ToolStateIsMeant
INVARIANT CommandsReachTheirTool
INVARIANT LayersAreShown
INVARIANT DragsEnd
INVARIANT PartsLieAsTold
