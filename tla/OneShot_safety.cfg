SPECIFICATION Spec
CONSTANTS
  Requests = {r1, r2, r3}
  Pods = {p1, p2}
  StreamKeys = {ks}
  InvokeKeys = {ki}
  Shared = shared
  Lease = 1
  Ttl = 3
  RenewEvery = 1
  Keepalive = 1
  Nobody = nobody
  Deployments <- MCDeployments
SYMMETRY Symmetry
INVARIANT TypeOK
INVARIANT StreamExclusion
INVARIANT ExclusionInv
INVARIANT TierAResolves
INVARIANT AnswersAgree
PROPERTY CompletedStaysPut
