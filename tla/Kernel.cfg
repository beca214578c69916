SPECIFICATION KernelSpec
CONSTANTS
  led = led
  key = key
  tick = tick
  Timer = {led, key, tick}
  Periodic = {tick}
  FirstPeriod <- Created
  Period = {3}
  Users <- OneStarter
  Stoppers <- Stopping
  MinTimeout = 2
  MaxLatency = 1
  MaxElapsed = 4
  e1 = e1
  e2 = e2
  TaskNbr = 3
  PrioNbr = 2
  Event = {e1, e2}
  Registered = {0, 1}
  Requests <- KernelRequests
  Waits <- KernelWaits
  Pausable = {1}
  Clearable = {e1}
  ListNode = {n1, n2, n3, n4}
  listHead = head
  n1 = n1 n2 = n2 n3 = n3 n4 = n4
  QueueKind <- MCQueueKind
  ElementSize = {0, 1, 2, 4}
  ByteValues = 256
  RX_BUFF_SIZE = 5
  LastDay = 49709
  SecondsModulus = 4
  MsModulus = 2500
  TickMs = 250
INVARIANTS PrioritiesCoverTaskSet SearchTerminates ClaimedTaskIsPending NestedRunsRestore NeverIdleWithWork TimersAreServed ContainersKeepOrder TimeIsRight
PROPERTIES ImplementsTaskScheduler NeverEarly
