SPECIFICATION Spec
INVARIANTS
  AdmittedIsAnnounced
SYMMETRY SameRequests
CHECK_DEADLOCK FALSE
CONSTANTS
  member1 = member1
  owner1 = owner1
  w1 = w1
  w2 = w2
  r1 = r1
  r2 = r2
  Users <- OwnerAndMember
  Owner = owner1
  Requests <- TwoRequests
  Workers <- NoWorkers
  MaxAttempts = 1
  MaxEvents = 5
  MaxInterventions = 1
  Queued = 1
