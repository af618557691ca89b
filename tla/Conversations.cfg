SPECIFICATION Spec
CONSTANTS
  line = line
  party = party
  work = work
  party_ = party_
  blank = blank
  Line <- MCLine
  Title <- MCTitle
  OwnTitle <- MCOwnTitle
  OtherTitle <- MCOtherTitle
  Text <- MCText
  Blank = blank
  Matching <- MCMatching
  Launch = Launch
  None = None
  FirstColor = 5
  MaxLines = 2
  MaxUploads = 2
  MaxOthers = 1
  MaxCrashes = 1
INVARIANTS TypeOK ListIsComplete LongerOnlyAfterRefusal OpensNoOlder
PROPERTIES ListKeepsWhatItShowed 
