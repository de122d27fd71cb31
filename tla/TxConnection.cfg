\* Two rates, the slower one for binding; the counters as small as they can be.
CONSTANTS
  Rates = {0, 1}
  BindRate = 1
  SpamAmount = 2
  SpamAfter = 2
  BindingSpam = 1
  LostTimeout = 0
  Disconnect = 0
SPECIFICATION FairSpec
INVARIANTS RateFollowsConfig
PROPERTIES RateAnnounced ConfigApplied
