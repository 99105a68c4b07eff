CONSTANTS
  member = member
  owner = owner
  app = app
  opened = opened
  Opening = {"all_active_users", "assigned_only"}
  Users = {member, owner}
  Clients = {app}
  Scopes = {"openid"}
  Redirects = {"cb1"}
  Sessions = {opened}
  Codes = {k1}
  Tokens = {t1, t2, t3}
  Provisioned = {}
  AuthorizeRequests = {a1}
  TokenRequests = {g1}
  RevokeRequests = {r1}
  AccountRequests = {}
  AdminUsers = {owner}
  AdminClients = {app}
  MaxVersion = 1
SPECIFICATION MCSpec
SYMMETRY Symmetry
VIEW WithoutHistory
INVARIANTS
  TypeOK
  OneLiveTokenPerFamily
  CodeIsSingleUse
  LiveTokenIsAdmitted
  LiveTokenHasCurrentSecret
  OwnerStaysAdmitted
CHECK_DEADLOCK FALSE
