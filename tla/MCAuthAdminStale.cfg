CONSTANTS
  Users = {u1}
  Roles <- MCRoles
  Perms <- MCPerms
  Clients <- MCTwoClients
  MaxRequests = 2
  User = User
  Unknown = Unknown
  NoCreds = NoCreds
  Missing = Missing
SPECIFICATION Spec
PROPERTY ChangesWhileEnabledByRoot
CHECK_DEADLOCK FALSE
