SPECIFICATION PageSpec
CONSTANTS
  Tenants <- MCTenants
  NoTenant = "none"
  Items <- MCItems
  NoItem = 0
  TenantOf <- MCTenantOf
  Pages <- MCPages
  Endpoints <- Router
  MaxWrites = 1
  MaxInFlight <- MCMaxInFlight
  Offered <- MCOffered
  Slots = {1, 2}
INVARIANT
  CallsAreServed
CHECK_DEADLOCK FALSE
