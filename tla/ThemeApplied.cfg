SPECIFICATION ProviderSpec
CONSTANTS
  Duration = 2
  MaxToasts = 1
INVARIANTS
  ThemeApplied
CHECK_DEADLOCK FALSE
