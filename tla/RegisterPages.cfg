SPECIFICATION Spec
CONSTANTS
  Cell <- MCCell
  NoCell = NoCell
  NoItem = NoItem
  MaxEdits = 1
  MaxTimers = 2
  c1 = c1
  c2 = c2
  c3 = c3
SYMMETRY CellSymmetry
INVARIANTS TypeOK TitleTellsTheTap LastPageShowsCharacter
CHECK_DEADLOCK FALSE
