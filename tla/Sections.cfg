SPECIFICATION PlatformSpec
CONSTANTS
  MaxSections <- MCSections
  MaskedAtOnce = {{"high"}, {"low", "sys"}}
  Together <- MCTogether
  LastPage = 2
  LastSlot = 1
  Erased = "ones"
  Data = {"ones", "mac"}
  Index = {"1", "2"}
  FifoSize = 7
  MessageLength = {1, 2, 3}
  Writer = {0, 1, 3}
  Uart = 2
INVARIANTS SectionsExclude
