CONSTANTS
  member = member
  owner = owner
  app = app
  opened = opened
  Opening = {"all_active_users", "assigned_only"}
  Users = {member, owner}
  Clients = {app}
  Scopes = {"openid"}
  Redirects = {"cb1"}
  Sessions = {opened, s2}
  Codes = {}
  Tokens = {}
  Provisioned = {app}
  AuthorizeRequests = {}
  TokenRequests = {}
  RevokeRequests = {r1}
  AccountRequests = {p1}
  AdminUsers = {member}
  AdminClients = {app}
  MaxVersion = 1
SPECIFICATION FairSpec
INVARIANTS
  OwnerStaysAdmitted
PROPERTIES
  EveryAccountRequestIsAnswered
CHECK_DEADLOCK FALSE
