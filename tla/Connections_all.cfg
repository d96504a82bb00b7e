SPECIFICATION MCFairSpec
CONSTANTS
  alice = alice
  k1 = k1
  Users = {alice, owner}
  Conns = {c1, c2}
  Requests = {r1}
  PublicKeys = {k1, k2}
  Owners = {owner}
  Asked = {"online"}
  MaxRenamings = 1
  NoBan = NoBan
  NoName = NoName
  UserOf <- OneUserConns
  FirstKey <- SharedKey
INVARIANTS OnlineIsExplained BanMissesOnlyInFlight
PROPERTY ClosingStops
