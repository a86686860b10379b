SPECIFICATION FairSpec
CONSTANTS
  Commands <- LiveCommands
  Servers = {}
  NoServer = NoServer
  AutoValues = {FALSE, TRUE}
  MixedAnswers = FALSE
  QueueCapacity = 1

PROPERTIES LostLinkReconnected
