SPECIFICATION FairSpec
CONSTANTS
  Procs = {p1, p2}
  InstanceOf <- MCInstanceOf
  Nobody = nobody
  MaxAttempts = 2
  MaxForgets = 1
  Deployments <- MCDeployments
INVARIANT TypeOK
INVARIANT NoGhosts
PROPERTY DeleteSparesReplacement
PROPERTY ServedIsListed
CHECK_DEADLOCK FALSE
