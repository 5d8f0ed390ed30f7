CONSTANTS
  NULL = NULL
  EP_MAX_PACKET = 2
  WORD = 2
  FIFO_WORDS = 4
  ENDPOINT = 0
  DescLen <- MCDescLen
  Addresses = {0, 1}
  WLengths = {0, 2, 4}
  LineCodings = {8, 9}
  LineStates = {0, 1}
  LINE_CODING_LEN = 2
  ResetWhenBusy = TRUE
SPECIFICATION FairSpec
INVARIANTS OnePacketAtATime
