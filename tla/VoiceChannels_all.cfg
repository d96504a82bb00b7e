SPECIFICATION FairSpec
CONSTANTS
  alice = alice
  bob = bob
  lobby = lobby
  den = den
  c3 = c3
  Users = {alice, bob}
  Conns = {c1, c2, c3}
  Channels = {lobby, den}
  NoChannel = NoChannel
  UserOf <- AliceTwice
  Limit <- TightLobby
CHECK_DEADLOCK FALSE
INVARIANTS OneChannelPerUser NoGhostParticipants CapacityRespected
PROPERTY DepartedIsOut
