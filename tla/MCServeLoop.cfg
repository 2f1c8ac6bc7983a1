SPECIFICATION FairSpec
CONSTANTS
  Values = {v1, v2}
  Initial = Initial
  Configs <- MCConfigs
  AdvMax = 31
  ExtMax = 255
  GapEnd = 9
  NoIndex = 65535
INVARIANTS TypeOK AppKnowsTable
PROPERTY AdvertisesAgain
