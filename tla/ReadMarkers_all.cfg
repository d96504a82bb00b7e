SPECIFICATION MarkersSpec
CONSTANTS
  busy = busy
  calm = calm
  TextChannels <- BusyAndCalm
  NoChannel = NoChannel
  Stored <- MCStored
  Writes <- MCWrites
  Hovered = {busy}
  Most = 2
  MaxPuts = 2
  MaxFetches = 2
  PageSize = 1
INVARIANTS BottomIsRead ScrollNotStuck
PROPERTIES MarkerAdvances
