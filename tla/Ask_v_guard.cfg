SPECIFICATION Spec
CONSTANTS
  Asks = {a1, a2}
  Answers = {q1}
  Cap = 2
  NoAnswer = noanswer
  Deployments <- MCMemory
INVARIANT RefusedWhileAsking
CHECK_DEADLOCK FALSE
