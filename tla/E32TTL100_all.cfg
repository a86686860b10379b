SPECIFICATION FairSpec
CONSTANTS
  TimeOutCount = 2
  SendEvery = 2
  CountSize = 4
  ConfigSize = 2
  VersionSize = 1
  RxLimit = 4
  RadioLimit = 2
INVARIANTS TypeOK RunsInNormalMode RunsConfigured
PROPERTIES CommandsInSleepMode ReadsOwnAnswer SetupEnds
