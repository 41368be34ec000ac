SPECIFICATION FairServingSpec
CONSTANTS
  n1 = n1  BAD = BAD
  Name = {n1}
  Request = {1, 2, 3}
  pool_size = 1
  max_overflow = 1
  Calls <- ServingCalls
INVARIANTS ServingTypeOK PoolSound StrangersKeptOut OneAccountPerName
PROPERTIES ServerErrorsExplained HealthTruthful EveryRequestServed
