----------------------------- MODULE MCRoleVersions -----------------------------
\* Instances of RoleVersions for TLC.
EXTENDS RoleVersions

=============================================================================
