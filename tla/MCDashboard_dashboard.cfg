CONSTANTS
  Clients = {c1, c2}
  NoClient = NoClient
  MaxVersion = 2
  MaxLeaves = 1
  MaxCalls = 2
  Users = {u1, u2}
  NoUser = NoUser
  Owner = u2
  Last = 2
  Hits = {2}
  Protected = {}
  PageSize = 1
  Names = {n1, n2}
  Slots = {s1, s2}
  MaxURLs = 3
  MaxBlobs = 2
SPECIFICATION Spec
SYMMETRY Symmetry
VIEW ReadOnly
INVARIANTS
  TypeOK
  NothingShownUnattended
  CardsFollowRows
  CandidateWasTyped
  OneSaveInFlight
  ListIsTheOneAsked
  
  RemovedStaysUnlisted
  ShownURLIsLive
  SavedProfileIsShown
PROPERTIES
  LateSecretIsDropped
