CONSTANTS
  Users = {u1, u2}
  Roles <- MCRoles
  Perms <- MCPerms
  Clients <- MCOneClient
  MaxRequests = 4
  User = User
  Unknown = Unknown
  NoCreds = NoCreds
  Missing = Missing
SPECIFICATION Spec
PROPERTY ChangesWhileEnabledByRoot ChangedOnlyWhenAnswered2xx
CHECK_DEADLOCK FALSE
