SPECIFICATION Spec
CONSTANTS
  Commands <- LinkCommands
  Servers = {}
  NoServer = NoServer
  AutoValues = {FALSE, TRUE}
  MixedAnswers = FALSE
  QueueCapacity = 2
INVARIANTS NoOrphanSession
