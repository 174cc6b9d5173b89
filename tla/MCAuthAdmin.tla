----------------------------- MODULE MCAuthAdmin -----------------------------
(* One user name, the roles root and ra, one permission.  MCOneClient     *)
(* sends three requests in a row; MCTwoClients run two at once.          *)
EXTENDS AuthAdmin

MCRoles == {"root", "ra"}
MCPerms == {"p"}
MCOneClient == {"c1"}
MCTwoClients == {"c1", "c2"}
=============================================================================
