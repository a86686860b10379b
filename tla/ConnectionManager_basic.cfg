SPECIFICATION Spec
CONSTANTS
  Commands <- ConnectionCommands
  Servers = {s1}
  NoServer = NoServer
  AutoValues = {FALSE}
  MixedAnswers = TRUE
  QueueCapacity = 2
INVARIANTS OneConnectOutstanding ModemExclusive
PROPERTY KeepsService
