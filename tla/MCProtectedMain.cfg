SPECIFICATION Spec
CONSTANTS
  app = app
  admin = admin
  dev = dev
  App <- app
  Admin <- admin
  Others <- MCOthers
  MaxEdits = 2
  MaxPushes = 1
PROPERTIES TrustedMainGrows IntendedIsAccepted
CHECK_DEADLOCK FALSE
