CONSTANTS
  NULL = NULL
  EP_MAX_PACKET = 2
  WORD = 2
  FIFO_WORDS = 4
  ENDPOINT = 2
  VCP_BUF_LEN = 4
  Lengths = {1, 3}
  NumBytes = 6
  NumRxBytes = 2
  ResetPoints = "idle"
  ReceptionPoints = "any"
  Applications = {{"rx"}}
SPECIFICATION Spec
INVARIANTS ReadsWhatWasReceived
