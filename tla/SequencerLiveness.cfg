SPECIFICATION SignalledSpec
CONSTANTS
  e1 = e1
  e2 = e2
  TaskNbr = 3
  PrioNbr = 2
  Event = {e1}
  Registered = {0, 1, 2}
  Requests <- MCRequests
  Pausable = {}
  Clearable = {}
  Waits <- MCWaits
PROPERTIES NoStarvation
