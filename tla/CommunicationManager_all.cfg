SPECIFICATION FairSpec
CONSTANTS
  ClockSize = 5
  Interval = 2
INVARIANTS TypeOK FlagsNested
PROPERTIES AttemptsSpaced ClimbsLadder LinkRecovers MqttReconnects
