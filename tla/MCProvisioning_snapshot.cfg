SPECIFICATION Spec
INVARIANTS
  DisabledUserIsNoMember
CHECK_DEADLOCK FALSE
CONSTANTS
  member1 = member1
  owner1 = owner1
  w1 = w1
  w2 = w2
  r1 = r1
  r2 = r2
  Users <- MemberOnly
  Owner = owner1
  Workers <- TwoWorkers
  MaxAttempts = 2
  MaxInterventions = 1
  Requests <- OneRequest
  MaxEvents = 3
  Queued = 1
