SPECIFICATION FairSpec
CONSTANTS
  Requests = {r1, r2}
  Pods = {p1, p2}
  StreamKeys = {ks}
  InvokeKeys = {}
  Shared = shared
  Lease = 1
  Ttl = 3
  RenewEvery = 1
  Keepalive = 1
  Nobody = nobody
  Deployments <- MCFaulty
PROPERTY TierBFreesKey
