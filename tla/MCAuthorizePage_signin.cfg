CONSTANTS
  Users = {u1, u2}
  Tabs = {t1}
  Nobody = Nobody
SPECIFICATION FairSpec
INVARIANTS
  TypeOK
  OneDecisionInFlight
PROPERTIES
  ConsentNeedsItsCard
  DecisionSettles
  SkeletonEnds
