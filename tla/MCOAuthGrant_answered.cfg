CONSTANTS
  member = member
  owner = owner
  app = app
  opened = opened
  Opening = {"all_active_users", "assigned_only"}
  Users = {member, owner}
  Clients = {app}
  Scopes = {"openid"}
  Redirects = {"cb1"}
  Sessions = {opened}
  Codes = {k1}
  Tokens = {t1, t2}
  Provisioned = {}
  AuthorizeRequests = {a1}
  TokenRequests = {g1}
  RevokeRequests = {r1}
  AccountRequests = {}
  AdminUsers = {owner}
  AdminClients = {}
  MaxVersion = 0
SPECIFICATION MCFairSpec
PROPERTIES
  ImplementsGrantLifecycle
  EveryRequestIsAnswered
CHECK_DEADLOCK FALSE
