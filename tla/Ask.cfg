SPECIFICATION FairSpec
CONSTANTS
  Asks = {a1, a2, a3}
  Answers = {q1}
  Cap = 2
  NoAnswer = noanswer
  Deployments <- MCDeployments
INVARIANT TypeOK
INVARIANT AnswersAreTaken
INVARIANT GuardMatchesAsk
PROPERTY ImplementsContract
PROPERTY AskEnds
CHECK_DEADLOCK FALSE
