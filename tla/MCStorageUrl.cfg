SPECIFICATION Spec
CONSTANTS
  i1 = i1
  i2 = i2
  t1 = t1
  t2 = t2
  t3 = t3
  k1 = k1
  NoThread = NoThread
  NoKey = NoKey
  Instances <- MCOneInstance
  Threads <- MCThreads
  InstanceOf <- MCSameInstance
  Keys <- MCKeys
  MaxFailures = 1
  MaxRestarts = 0
INVARIANT ReturnedUrlIsPublic
