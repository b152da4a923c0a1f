SPECIFICATION Spec
CONSTANTS
  BufSize = 4
  MaxChange = 3
  MaxKill = 2
  Newline = "n"
  Space = "s"
  Chars = {"a", ";"}
  Triggers = {";"}
  Pastes <- MCPastes
  Abbreviations <- MCAbbr
  Completions <- MCCompletions
  History <- MCHistory
  MaxHist = 3
  MaxKeys = 5
INVARIANTS TypeOK HistoryKept RotatingUndoable PagerShowsCandidate
PROPERTIES ImplementsUndo YankPopReplaces
CHECK_DEADLOCK FALSE
