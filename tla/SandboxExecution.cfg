CONSTANTS
  Limit = 2
  MaxChunk = 2
  MaxOutput = 4
SPECIFICATION BoxSpec
INVARIANTS
  BoxTypeOK
  NoChildLeftBehind
  OutputKeptToTheByte
  SuccessIsGenuine
  LimitsAreReported
  RunsWhatItCompiled
PROPERTIES
  ExecuteReturns
