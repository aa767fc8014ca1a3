CONSTANTS
  first = first
  second = second
  change = change
  job1 = job1
  job2 = job2
  Rows = {1, 2}
  Readable = {2}
  Jobs = {job1, job2}
  Requests = {first, second, change}
  Kind <- MCKind
  Intent <- MCIntent
SPECIFICATION FairSpec
INVARIANTS
  TypeOK
  
  RefusalIsFinal
  
  TwiceOnlyInDoubt
PROPERTIES
  
  SyncDecides
  EveryRequestAnswered
