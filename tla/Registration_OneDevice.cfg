\* Liveness of registration, and its refinement of Catalogue, on one device.
SPECIFICATION FairSpec
CONSTANTS
  c1 = c1
  c2 = c2
  l1 = l1
  l2 = l2
  d1 = d1
  d2 = d2
  Devices = {d1}
  CharacterJobs = {c1}
  LineJobs = {l1, l2}
  Home <- HomeOneDevice
  NoCharacter = NoCharacter
PROPERTIES
  Settles
  FirstLineFollows
  ImplementsCatalogue
