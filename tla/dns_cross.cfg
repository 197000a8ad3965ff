SPECIFICATION FairSpec
CONSTANTS
  alice = alice
  bob = bob
  n1 = n1
  n2 = n2
  s1 = s1
  w1 = w1
  w2 = w2
  NoJob = NoJob
  Clients <- TwoClients
  Names <- TwoNames
  Slots <- OneSlot
  SlotOf <- Collide
  Workers <- TwoWorkers
  QueueDepth = 1
  LateAnswers = FALSE
INVARIANTS RepliesMatch
PROPERTIES WorkersReturn
