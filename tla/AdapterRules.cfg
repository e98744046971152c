SPECIFICATION Spec
CONSTANTS
  TableSizes <- MCTables
  RankCounts <- MCRanks
  HostCounts <- MCHosts
  CacheBudgets <- MCBudgets
  WayCounts <- MCWays
  ReadOffsets <- MCOffsets
  ReadLengths <- MCLengths
  Vocab = 2
  Gamma = 2
  Unit = 3
  CompressRatio = 2
  Contexts = {0, 1, 2, 5, 9, 10}
  Budgets = {16, 32, 48, 64}
  Picks <- MCPicks
  GroupCounts = {1, 2, 3, 4, 6, 8, 12, 16}
  PerGroup = {1, 2, 4, 8}
  TpSizes = {2, 3, 4, 5, 6, 7, 8}
  BlockRows = {1, 2, 3, 5, 8, 9, 16}
  Newline = "nl"
  Blank = " "
  Letters = {"a", "b"}
  LineWindow = 4
  MaxOutput = 5
  LoopConfigs <- MCLoops
  TokenCaps = {0, 1, 7, 32768, 40000}
  Unset = Unset
  Switches = {"true", "false", "yes", "none"}
  TrueLike = {"true", "yes"}
  CheckpointFiles = {"config.json", "weights"}
  Revisions = {"r1", "r2"}
  MaxStat = 4
  Missing = Missing
INVARIANTS
  ShardsPartition
  CacheFits
  HostBudgetUsed
  ReadCovered
  Lossless
  ChunksExact
  PaddedExact
  ScalesAccepted
  LoopFound
  ChatCapped
  PrepareHonest
