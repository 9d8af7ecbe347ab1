SPECIFICATION Spec
CONSTANTS
  Tasks = {t1}
  Keys = {k1}
  NoKey = nokey
  Cancels = {c1}
  Deployments <- MCSqlite
PROPERTY AcceptedCancelTakesEffect
CHECK_DEADLOCK FALSE
