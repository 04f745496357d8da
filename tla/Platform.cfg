\* Operators, backups and restarts.
SPECIFICATION Spec
CONSTANTS
    valley = valley  acme = acme
    NoTenant = NoTenant
    Tenants = {valley, acme}
    Configured = {valley}
    Homes = {"home", "annex"}
    Features = {"community", "market"}
    PlanFeatures <- MCPlanFeatures
    Rows <- MCRows
    AuditCap = 2
    MaxBackups = 2
    MaxRequests = 5
    MaxCrashes = 1
CHECK_DEADLOCK FALSE
INVARIANTS TypeOK TrailAgreesWithStatus SuspendedTenantsAreQuiet
