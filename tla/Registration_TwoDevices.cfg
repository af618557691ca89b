\* Safety of registration between devices.
SPECIFICATION Spec
CONSTANTS
  c1 = c1
  c2 = c2
  l1 = l1
  l2 = l2
  d1 = d1
  d2 = d2
  Devices = {d1, d2}
  CharacterJobs = {c1, c2}
  LineJobs = {l1}
  Home <- HomeTwoDevices
  NoCharacter = NoCharacter
INVARIANTS
  MediaBehindDocs
  NoOrphanLine
  NoHalfCharacter
  CompletionShowsOwn
