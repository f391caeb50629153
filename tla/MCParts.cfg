SPECIFICATION Spec
CONSTANTS
  Lines <- MCLines
  MaxFile <- MCMaxFile
  IntMax = 32767
  LongMax = 100000
  Names = {"g", "h"}
  Chars = {"/", "a"}
  Tables <- MCTables
  Requests <- MCRequests
  dictionary <- MCDictionary
  sensitivity = 3
  SizeMax = 65535
  Typed <- MCTyped
  SendBuf = 2
  MaxSent = 6
INVARIANTS LoadedAsWritten MostSpecific NearestCommand SlipCorrected EchoedWhole EchoAwake
CHECK_DEADLOCK FALSE
