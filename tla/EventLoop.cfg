\* Two connections, each replaced at most twice in one batch.
SPECIFICATION Spec
CONSTANTS
  PoolSize = 2
  MaxReuse = 2
INVARIANTS
  FreshEvents
  PoolIntact
  WatchedActive
