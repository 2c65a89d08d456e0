SPECIFICATION UISpec
CONSTANTS
  RowModals = {"row1", "row2"}
  PageModals = {"create", "edit"}
  Queries <- MCQueries
  Tenants <- MCTenants
  NoTenant = "none"
  Items <- MCItems
  NoItem = 0
  TenantOf <- MCTenantOf
  Pages <- MCPages
  Endpoints <- MCEndpoints
  MaxWrites = 1
  MaxInFlight <- MCMaxInFlight
  Offered <- MCOffered
  Slots = {1, 2}
  FormKinds <- MCFormKinds
  Inputs <- MCInputs
  StoredRows <- MCStoredRows
  MaxEdits = 3
  MaxOpenings = 2
  ListKinds <- MCListKinds
  Pool <- MCPool
  Searches <- MCSearches
  Options <- MCOptions
  ListTenants = {"a"}
  PAGE_SIZE = 2
  MaxPage = 4
INVARIANTS
  UITypeOK
  ScrollReleased
  RowsOfSelectedTenant
  OwnWritesShown
  BusyMeansOne
  EnteredIsKept
  
  PagesCoverMatches
  
  CsvRoundTrips
PROPERTIES
  
  ClicksStayInRange
CHECK_DEADLOCK FALSE
