CONSTANTS
  Emails = {e1, e2}
  NewEmails = {e1}
  Delay = 1
SPECIFICATION FairSpec
INVARIANTS
  TypeOK
  SuccessIsTrue
PROPERTIES
  RefusedTokenIsDropped
  ButtonComesBack
  SubmissionSettles
