\* A deal and a contract of one part, a reconciler that looks at one gap per
\* cycle, one broadcast of each dropped by the chain and a crash.  A part, the
\* release, an attempt that is dropped and one that is not make four
\* broadcasts, so the bound never stops anybody.
\* Once every deal is recorded there is nothing left to do.
CHECK_DEADLOCK FALSE
SPECIFICATION FairSpec
CONSTANTS
  Txs = {t1, t2}
  Contracts = {t2}
  Goroutines = {g1}
  Reconciler = Reconciler
  NoTx = NoTx
  BatchSize = 1
  RelayerWorks = TRUE
  MaxMilestones = 1
  MaxBroadcasts = 4
  MaxDrops = 1
  MaxRestarts = 1
INVARIANTS AuditTypeOK LoggedOnce HashIsLogged
PROPERTIES EveryReleaseIsRecorded
