SPECIFICATION Spec
CONSTANTS
  Lookback = 1  Overlap = 1  Day = 2  Lag = 1  PageSize = 1  PageBudget = 2  LastMinute = 5  MaxListed = 3
  Pauses = {1, 5, 99}  Jitters = {0, 1}  TooLong = 9  TotalTimeout = 5  RequestTries = 3  JobTries = 2  LastSecond = 9
  Rows = 5  Limit = 1  BatchRows = 2  Batches = 2
  Texts <- MCTexts  AnswersTo <- MCAnswersTo  UpstreamRecords <- MCUpstreamRecords
  Tenders <- MCTenders  ViewsOf <- MCViewsOf  Bidders <- MCBidders  Completions <- MCCompletions
  Days <- MCDays  Histories <- MCHistories  BidderHistories <- MCBidderHistories  ReplayDays = {1, 2, 3}
  NoValue = NoValue  NoSha = NoSha
  Snapshots <- MCSnapshots  TrueManifests <- MCTrueManifests  Companies <- MCCompanies
INVARIANTS
  NothingIsSkipped PagesCoverTheFeed AcceptedMeansGrounded RecommendationIsCertain NoHindsight DeltaIsHonest
PROPERTIES CooldownIsKept
CHECK_DEADLOCK FALSE
