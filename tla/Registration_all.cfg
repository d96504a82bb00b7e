SPECIFICATION Spec
CONSTANTS
  i1 = i1
  Requests = {r1, r2, r3}
  Fingerprints = {f1, f2, f3}
  Names = {n1, n2, n3}
  Invites = {i1}
  MaxUses <- OneUse
  InviteOnly = TRUE
  MaxBoots = 2
  NoInvite = NoInvite
  Free = Free
SYMMETRY Symmetry
CHECK_DEADLOCK FALSE
INVARIANTS OwnersShareToken ReplyMeansComplete InviteAdmitsItsUses
PROPERTY SetupNeverReopens
