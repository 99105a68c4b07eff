CONSTANTS
  member = member
  owner = owner
  app = app
  opened = opened
  Opening = {"all_active_users", "assigned_only", "none"}
  Users = {member, owner}
  Clients = {app}
  Scopes = {"openid"}
  Redirects = {"cb1"}
  Sessions = {opened, s2}
  Codes = {k1}
  Tokens = {t1, t2}
  Provisioned = {}
  AuthorizeRequests = {a1}
  TokenRequests = {g1}
  RevokeRequests = {}
  AccountRequests = {p1, p2}
  AdminUsers = {member}
  AdminClients = {}
  MaxVersion = 1
SPECIFICATION MCSpec
SYMMETRY Symmetry
VIEW WithoutHistory
INVARIANTS
  DisabledUserHasNoGrant
  DeletedUserLeavesNothing
  NoGrantFromOldPassword
CHECK_DEADLOCK FALSE
