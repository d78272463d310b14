SPECIFICATION ChannelSpec
CONSTANTS
  MaxReq = 3
  MaxLines = 2
INVARIANTS AnswersLagByTimeouts ReadsAreAnsweredByReads
PROPERTIES EveryCallReturns CloseStopsSim
