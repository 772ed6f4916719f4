\* Two schemas with their owners; one run may die without a reason.
SPECIFICATION FairSetupSpec
CONSTANTS
  app = app
  analytics = analytics
  app_user = app_user
  analytics_user = analytics_user
  None = None
  RoleList <- MCRoleList
  SchemaList <- MCSchemaList
  Owner <- MCOwner
  Admin = admin
  MaxDeaths = 1
INVARIANTS
  CompleteMeansReady
PROPERTIES
  RerunsChangeNothing
  RepeatsRecover
