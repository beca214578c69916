SPECIFICATION MCSpec
CONSTANTS
  b1 = b1
  b2 = b2
  Button = {b1, b2}
  B1 = b1
  Threshold = 10
  TaskPatterns <- TaskStarts
  ButtonPatterns <- ButtonStarts
  TimerPatterns <- TimerStarts
  FieldNbr = 4
  Size <- MCSize
  Byte = {0, 1, 2, 3}
  Payload <- MCPayload
  Header <- MCHeader
  BlockBytes = 2
  CipherKey = {"k1", "k2"}
  CipherLength = 5
  PkaUser = {u1, u2}
  PoolSize = 2
  MaxGets = 3
  MaxStarts = 2
  MaxPkaEnables = 2
  VM = {1, 2}
  Shared = 0
  Config <- MCConfig
  InfoSize = 1
  Buffer = {m1, m2, m3}
  MaxSize = 3
  Modulus = 64
  Callback = {r1, r2}
  NoCallback = none
  m1 = m1 m2 = m2 m3 = m3 r1 = r1 r2 = r2
  Pool <- MCPool
  Wanted = {0, 1, 8, 9, 24, 200}
CHECK_DEADLOCK FALSE
INVARIANTS SignalsAreRight AcceptsEncodings CipherIsSound PoolIsSound AccountsAreKept HeapIsTiled
PROPERTIES BlinksForever Refills RetriesCalled
