SPECIFICATION Spec
CONSTANTS
  \* two messages of two fields: mixtures of messages, or of a message and a
  \* cleared field, and incomplete copies can be told apart
  m1 = m1
  m2 = m2
  Blank = Blank
  Failure = {"NO_NETWORK"}
  Message = {m1, m2}
  FieldNbr = 2
INVARIANTS ResetClearsData
