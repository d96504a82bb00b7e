SPECIFICATION Spec
CONSTANTS
  Fetches = {f1, f2}
  Stored = 1
  MaxWrites = 2
  PageSize = 2
  PrefetchSize = 1
  Cap = 3
SYMMETRY Symmetry
INVARIANTS ShownOnce LoadingIsOwned Faithful
