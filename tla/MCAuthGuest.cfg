CONSTANTS
  User = User
  Unknown = Unknown
  NoCreds = NoCreds
  Missing = Missing
  Stores <- MCGuestStores
  Requests <- MCRequests

SPECIFICATION Spec

INVARIANT GuestAccessIsSound
