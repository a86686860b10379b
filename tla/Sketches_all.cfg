SPECIFICATION SketchesSpec
CONSTANTS
  Files = {f1, f2}
  Exact = {f1}
  Factory = f0
  NoFile = none
  Buffers = 2
  Space = 5
  EventLimit = 2
  RiffWords = 3
  FmtWords = 6
  Samples = 3
  Period = 3
  Messages = 3
  Bytes = 6
  FifoSize = 3
  Threshold = 2
  QueueSize = 2
  LedButtons = {auto, speed}
  Debounce = 1
  BeepTicks = 3
  Lengths <- MCLengths
  BuffSize = 2
  LEDS <- MCLEDS
INVARIANTS
  SketchesTypeOK
  FreshOkRunsUpload SoundIsHeard ShowsWhatWasAsked
PROPERTIES
  UploadIsAtomic OtaReconnects
  FailedAttemptsAreSpaced SessionComesBack FixIsEarned
  PrintedInOrder PressIsBeeped DownloadTells
CHECK_DEADLOCK FALSE
