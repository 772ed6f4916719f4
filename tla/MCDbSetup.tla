------------------------------- MODULE MCDbSetup -------------------------------
(* An instance of DbSetup for TLC: a schema for each of two roles.          *)
EXTENDS DbSetup, TLC

CONSTANTS app, analytics, app_user, analytics_user

MCRoleList == <<app_user, analytics_user>>
MCSchemaList == <<app, analytics>>
MCOwner == app :> app_user @@ analytics :> analytics_user
================================================================================
