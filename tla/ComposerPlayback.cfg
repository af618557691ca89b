SPECIFICATION FairSpec
CONSTANTS
  lineA = lineA
  lineB = lineB
  None = None
  Dialogue <- MCDialogue
  MaxChosen <- MCMaxChosen
INVARIANTS
  TypeOK
  HeardIsShown
PROPERTIES
  FallsSilent
