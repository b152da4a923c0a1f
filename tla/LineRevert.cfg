SPECIFICATION SpecAny
CONSTANTS
  BufSize = 4
  MaxChange = 3
  MaxKill = 2
  Newline = "n"
  Space = "s"
  Chars = {"a", ";"}
  Triggers = {";"}
  Pastes <- MCPastes
  Abbreviations <- MCAbbr
  Completions <- MCCompletions
  History <- MCHistory
  MaxHist = 3
  MaxKeys = 5
PROPERTY RevertRestores
CHECK_DEADLOCK FALSE
