CONSTANTS
  i1 = i1
  i2 = i2
  i3 = i3
  u1 = u1
  u2 = u2
  r1 = r1
  r2 = r2
  r3 = r3
  NoResult = NoResult
  IDs <- MCIDs
  URLs <- MCURLs
  Reqs <- MCReqs
  InitMembers <- MCInitMembers

SYMMETRY ReqSymmetry

SPECIFICATION Spec

INVARIANT TypeOK
INVARIANT PeerURLsDisjoint
INVARIANT RemovedNeverActive
INVARIANT AttributesOnlyOfActive
INVARIANT SuccessMeansApplied
 

PROPERTY AbstractSpec

CHECK_DEADLOCK FALSE
