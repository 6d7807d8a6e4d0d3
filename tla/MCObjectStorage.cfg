SPECIFICATION FairSpec
CONSTANTS
  i1 = i1
  i2 = i2
  t1 = t1
  t2 = t2
  t3 = t3
  k1 = k1
  NoThread = NoThread
  NoKey = NoKey
  Instances <- MCInstances
  Threads <- MCThreads
  InstanceOf <- MCInstanceOf
  Keys <- MCKeys
  MaxFailures = 2
  MaxRestarts = 1
INVARIANTS ReadyMeansBucket OneInitializer
PROPERTIES CallsEnd CreatedBecomesPublic
