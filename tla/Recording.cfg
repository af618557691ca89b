SPECIFICATION Spec
CONSTANTS
  Page <- MCPage
  NoPage = NoPage
  View <- MCView
  NoView = NoView
  PageOf <- MCPageOf
  NoTake = NoTake
  MaxTakes = 2
  MaxFailures = 1
  MaxDismissals = 1
  MaxCrashes = 1
  character = character
  dialogue = dialogue
  c1 = c1
  c2 = c2
  d1 = d1
SYMMETRY Symm
INVARIANTS CorrectionStays LastTakeIsUploaded
CHECK_DEADLOCK FALSE
