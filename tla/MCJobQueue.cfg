\* Two job loops, three jobs, three attempts (the code has 5), one fault.
CONSTANTS
  Workers = {w1, w2}
  Payloads = {p}
  MaxAttempts = 3
  MaxJobs = 3
  MaxFaults = 1
SPECIFICATION FairSpec
INVARIANTS
  TypeOK
  ExclusiveClaim
  HeldRowIsOwn
  RetryBudget
  NoSilentLoss
PROPERTIES
  SettledStays
  EveryJobSettles
