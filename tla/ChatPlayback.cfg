SPECIFICATION FairSpec
CONSTANTS
  NumLines = 3
  Screens <- MCScreens
  Silent = Silent
INVARIANTS
  TypeOK
  PulseMarksSpeaker
  ButtonTellsTheTruth
PROPERTIES
  FallsSilent
  ImplementsRecital
\* A closed screen takes no further step.
CHECK_DEADLOCK FALSE
