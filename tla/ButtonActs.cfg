SPECIFICATION ButtonSpec
CONSTANTS
  b1 = b1
  b2 = b2
  Button = {b1, b2}
  B1 = b1
  Threshold = 10
CHECK_DEADLOCK FALSE
INVARIANTS OneActionPerPress
