SPECIFICATION Spec
CONSTANTS
  Commands <- SketchCommands
  Servers = {s1, s2}
  NoServer = NoServer
  AutoValues = {FALSE,TRUE}
  MixedAnswers = TRUE
  QueueCapacity = 2
INVARIANTS TypeOK ConnectingIsPending ServerIsCurrent
SYMMETRY AnyServer
