SPECIFICATION MigrationsSpec
INVARIANTS
  FreshOpens
CHECK_DEADLOCK FALSE
