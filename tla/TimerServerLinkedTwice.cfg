SPECIFICATION TimersSpec
CONSTANTS
  led = led
  key = key
  tick = tick
  Timer = {led, key, tick}
  Periodic = {tick}
  FirstPeriod <- Created
  Period = {3}
  Users <- PatternStarters
  Stoppers <- PatternStarters
  MinTimeout = 1
  MaxLatency = 1
  MaxElapsed = 4
INVARIANTS
  NeverLinkedTwice
