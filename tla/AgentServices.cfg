SPECIFICATION ServicesSpec
CONSTANTS
  LlmSetups <- MCLlmSetups
  MaxAttempts = 3
  MaxEvents = 4
  ToolCalls = {c1, c2}
  Readable = {a1}
  Queries = {q1}
  ReadBudget = 2
  CacheEntries = 2
  MaxToolCalls = 3
  Steps = {s1, s2}
  Upstream <- MCUpstream
  Bodies <- MCBodies
  ContextBudget <- MCContextBudget
  Author = s2
  MaxArtifacts = 3
  MaxEntries = 3
  Invocations <- MCInvocations
  Labels <- MCLabels
  MaxPuts = 3
  Tasks = {t1, t2}
  Keys = {k1}
  NoKey = nokey
  Cancels = {x1}
  Reported = {"waiting_for_human", "cancelled"}
  Deployments <- MCDeployments
  Requests = {r1, r2, r3}
  InvocationKeys = {i1, i2}
  Keyless = keyless
  Processes = {p1, p2}
  Nobody = nobody
  OneShotDeployments <- MCOneShotDeployments
  PushEvents = 2
  RemoteCalls = {gate}
  PushRetries = 1
  CallRetries = 1
INVARIANT ServicesTypeOK
INVARIANT LlmAnswersAreSound
INVARIANT ToolsTellTheTruth
INVARIANT PackAccountsForEvidence
INVARIANT RunsAndCancelsAgree
INVARIANT PlatformSeesEventsOnce
PROPERTY ResumesOwnWork
PROPERTY TaskSettles
PROPERTY ImplementsOnce
CHECK_DEADLOCK FALSE
