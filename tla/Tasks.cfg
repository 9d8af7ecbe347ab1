SPECIFICATION FairSpec
CONSTANTS
  Tasks = {t1, t2}
  Keys = {k1}
  NoKey = nokey
  Cancels = {c1}
  Deployments <- MCDeployments
INVARIANT TypeOK
INVARIANT OneRunPerKey
INVARIANT WhatWasToldHolds
PROPERTY SettledIsFinal
PROPERTY TaskSettles
CHECK_DEADLOCK FALSE
