\* Expected to fail: updateCharacter compares names, and keeps the rows when none matches.
SPECIFICATION Spec
CONSTANTS
  woody = woody
  buzz = buzz
  bo = bo
  woodyFirst = woodyFirst
  woodySecond = woodySecond
  buzzFirst = buzzFirst
  boFirst = boFirst
  None = None
  Blank = Blank
  Character <- MCCharacter
  Line <- MCLine
  CharacterOf <- MCCharacterOf
  FirstLine <- MCFirstLine
  NameOf <- MCNameOf
  Early <- MCEarly
INVARIANTS
  OffersLinesOfSelected
CHECK_DEADLOCK FALSE
