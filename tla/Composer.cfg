SPECIFICATION Spec
CONSTANTS
  woody = woody
  buzz = buzz
  bo = bo
  woodyFirst = woodyFirst
  woodySecond = woodySecond
  buzzFirst = buzzFirst
  boFirst = boFirst
  None = None
  Blank = Blank
  Character <- MCCharacter
  Line <- MCLine
  CharacterOf <- MCCharacterOf
  FirstLine <- MCFirstLine
  NameOf <- MCNameOf
  Early <- MCEarly
INVARIANTS
  RowsAreTrue
  OneCharacterAtATime
  OfferedOnce
  SelectedIsOffered
\* A process that ended takes no further step.
CHECK_DEADLOCK FALSE
