SPECIFICATION FairTransferSpec
CONSTANTS
  Devices = {d1, d2}
  MaxSessions = 2
  Attempts = 2
INVARIANTS ListenerIsArmed
PROPERTIES RevokedCodesAreDead ReceiveEnds
