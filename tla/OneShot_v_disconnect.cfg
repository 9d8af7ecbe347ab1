SPECIFICATION Spec
CONSTANTS
  Requests = {r1}
  Pods = {p1}
  StreamKeys = {ks}
  InvokeKeys = {}
  Shared = shared
  Lease = 1
  Ttl = 3
  RenewEvery = 1
  Keepalive = 1
  Nobody = nobody
  Deployments <- MCImpatient
INVARIANT DisconnectReachesTerminal
