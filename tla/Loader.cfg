SPECIFICATION LoaderSpec
CONSTANTS
  CharacterPage <- MCCharacterPage
  LinePage <- MCLinePage
  NoPage = NoPage
  MaxTaps = 2
  MaxDismissals = 2
  c1 = c1
  c2 = c2
  l1 = l1
INVARIANT BusyIsCovered
PROPERTY LoaderGoes
CHECK_DEADLOCK FALSE
