SPECIFICATION FairSpec
CONSTANTS
  e1 = e1
  e2 = e2
  r1 = r1
  r2 = r2
  NoMark = NoMark
  Events <- MCEvents
  Relays <- MCRelays
  CreatedAt <- MCCreatedAt
  BatchSize = 2
  MaxRetries = 2
  MaxFaults = 2
  MaxEarlyExpiries = 1
INVARIANT TypeOK
INVARIANT SentWasDelivered
INVARIANT RetryBudget
INVARIANT LeaseBound
INVARIANT DuplicateBound
PROPERTY ImplementsDelivery
PROPERTY SettledForGood
PROPERTY EventuallySettled
CHECK_DEADLOCK FALSE
