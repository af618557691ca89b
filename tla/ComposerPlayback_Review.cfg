\* Expected to fail: playNum is never set back.
SPECIFICATION FairSpec
CONSTANTS
  lineA = lineA
  lineB = lineB
  None = None
  Dialogue <- MCDialogue
  MaxChosen <- MCMaxChosen
PROPERTIES
  ReviewBeginsAtTheTop
