SPECIFICATION SearchSpec
CONSTANTS
  None = None
  RRF_K = 60
  RankScale = 15249024
  LaneWeight <- MCLaneWeight
  MinCandidates = 1
  Overfetch = 2
  EntityInputs <- MCEntities
  TimeInputs <- MCTimes
  ManifestInputs <- MCManifests
  FieldInputs <- MCFields
  FusionInputs <- MCFusions
  SourceInputs <- MCSources
  TextInputs <- MCTexts
  TableInputs <- MCTables
  WindowInputs <- MCWindows
  MutationInputs <- MCMutations
  BundleInputs <- MCBundles
  RECALL_CANDIDATE_CAP = 3
  DEFAULT_PAGE_SIZE = 2
  Width = 4
  PAGE_SIZE = 2
  DEFAULT_BUDGET = 1000
  Fraction = 10
  MAX_RAW = 2
  FilterInputs <- MCFilters
  RecallInputs <- MCRecalls
  SearchInputs <- MCSearches
  FloatInputs <- MCFloats
  SidecarInputs <- MCSidecars
  ListingInputs <- MCListings
INVARIANTS
  RowsSurviveStorage
  ReopenKeepsManifest
  FieldsKeepApart
  RankingIsFair
  StoredTextIsWhole
  DrawerReadsAgree
  TiersMeanTheirFilter
  RecallIsComplete
  SearchIsExact
  TableScansAreExact
