CONSTANTS
  User = User
  Unknown = Unknown
  NoCreds = NoCreds
  Missing = Missing
  Stores <- MCUserStores
  Requests <- MCRequests

SPECIFICATION Spec

INVARIANT UserAccessIsSound
