SPECIFICATION Spec
CONSTANTS
  Channels = {c1, c2}
  Files = {f1, f2}
  None = None
  MaxFiles = 2
  MaxSends = 1
INVARIANTS RepliesStayHome 
