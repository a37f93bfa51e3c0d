\* A contract whose milestones are logged before a dispute releases it.
\* Once every deal is recorded there is nothing left to do.
CHECK_DEADLOCK FALSE
SPECIFICATION AuditSpec
CONSTANTS
  Txs = {t1}
  Contracts = {t1}
  Goroutines = {g1}
  Reconciler = Reconciler
  NoTx = NoTx
  BatchSize = 1
  RelayerWorks = TRUE
  MaxMilestones = 2
  MaxBroadcasts = 2
  MaxDrops = 0
  MaxRestarts = 0
PROPERTIES ScanMissesNothing
