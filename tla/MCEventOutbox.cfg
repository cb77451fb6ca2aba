\* Two machines that share a fact, a fact that passes, batches that overflow in
\* two ways, a second registration, and a crash, a lost answer or a trouble.
SPECIFICATION FairSpec
CONSTANTS
  m1 = m1
  m2 = m2
  f1 = f1
  f2 = f2
  f3 = f3
  Machines = {m1, m2}
  Facts = {f1, f2, f3}
  Sees <- SharedFact
  NoConnector = NoConnector
  NoFact = NoFact
  Lasting = {f1, f2}
  MaxBatch = 2
  WithinBody <- NotBothLarge
  MaxRegistrations <- OneRegistersAgain
  MaxFaults = 1
INVARIANTS
  TypeOK
  SubmittedIsIngested
  IngestedIsPrefix
  NoSequenceConflict
PROPERTIES
  FactsAreSubmitted
CHECK_DEADLOCK FALSE
