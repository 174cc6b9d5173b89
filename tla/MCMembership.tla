---------------------------- MODULE MCMembership ----------------------------
(* Three member IDs, two peer URLs, three concurrent requests; the cluster *)
(* is bootstrapped with member i1 on peer URL u1.                          *)
EXTENDS Membership

CONSTANTS i1, i2, i3, u1, u2, r1, r2, r3

MCIDs == {i1, i2, i3}
MCURLs == {u1, u2}
MCReqs == {r1, r2, r3}
MCInitMembers == i1 :> {u1}

\* Requests are interchangeable.
ReqSymmetry == Permutations(MCReqs)
=============================================================================
