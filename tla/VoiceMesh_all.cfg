SPECIFICATION FairMeshSpec
CONSTANTS
  Clients <- TwoClients
  Nameless = {1}
  lobby = lobby
  den = den
  Rooms = {lobby, den}
  Nowhere = none
  Seats <- DenForOne
  Joins <- JoinsOf
  Leaves <- LeavesOf
  Mishaps = 1
INVARIANTS NoGlare RosterComplete RoomFollowsClient
PROPERTIES NewcomerLinks
CHECK_DEADLOCK FALSE
