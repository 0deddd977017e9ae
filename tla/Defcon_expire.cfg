SPECIFICATION FairSpec
CONSTANTS
  Channels = {c1, c2}
  Params = {0, 1, 2, 3, 4, 5, 6}
  DefconTimeout = 3
PROPERTY SettingExpires
