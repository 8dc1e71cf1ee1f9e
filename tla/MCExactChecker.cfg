SPECIFICATION Spec
CONSTANTS
  LF = LF
  CR = CR
  Blank = Blank
  Visible = {a}
  MaxLength = 4
INVARIANT OutcomeIsRight
CHECK_DEADLOCK FALSE
