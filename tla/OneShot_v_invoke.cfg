SPECIFICATION Spec
CONSTANTS
  Requests = {r1, r2}
  Pods = {p1}
  StreamKeys = {}
  InvokeKeys = {ki}
  Shared = shared
  Lease = 1
  Ttl = 3
  RenewEvery = 1
  Keepalive = 1
  Nobody = nobody
  Deployments <- MCHealthy
INVARIANT InvokeExclusion
