CONSTANTS
  Owners = {o1}
  Values = {"broad", "narrow"}
  Facts = {1, 2, 3}
  Meaning <- MCMeaning
  Bare = 1
  Matches <- MCMatches
  Notifier = notifier
  DeltaWorker = deltaworker
  Reader = reader
  MaxVersions = 2
  MaxEdits = 3
  None = None
SPECIFICATION FairSpec
INVARIANTS
  InsertsAreFresh
PROPERTIES
  AnnouncementsAreCurrent
  ChangeIsAnnounced
