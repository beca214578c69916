SPECIFICATION MCSpec
CONSTANTS
  MaxTransfers = 2
  MaxNodes = 1
  Node = {1, 2, 3, 4}
  Region <- MCRegion
  Kind <- MCKind
  MaxSteps = 6
  Fractions = {0, 2048}
  MaxCalls = 4
  Subjects = {"SAI1"}
  FifoDepth = 2
  Wide = FALSE
  Parity = FALSE
  MaxPortCalls = 3
  MaxWords = 3
  MaxErrors = 1
  MaxEvents = 4
CHECK_DEADLOCK FALSE
INVARIANTS DmaEndsCleanly QueuesAreKept ClockStaysUsable ClocksAreAsAsked UartTransmitEnds UartReceiveEnds UartLossIsTold ConsoleListens
