SPECIFICATION MCSpec
CONSTANTS
  FirstTab = q1
  FirstSchema = public
  Tabs = {q1, q2}
  Schemas = {public, other}
  Texts <- MCTexts
  Typed = {"W"}
  MaxLen = 4
  MaxEdits = 2
  MaxAsks = 1
CHECK_DEADLOCK FALSE
INVARIANTS BufferInv DocIsSaved UndisturbedAnswerFits
PROPERTIES SettledRunIsExact EditorSettles
