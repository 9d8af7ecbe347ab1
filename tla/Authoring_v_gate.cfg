CONSTANTS
  Sections = 2
  MinWords = 3
  Overhead = 1
  Texts <- AllTexts
  MaxCompressions = 1
  MaxEmptyRetries = 1
  Controls = {"shorten", "finish_current"}
  DeferFinal = FALSE
  MaxRuns = 3
  MaxVaried = 2
  Maxima <- MCMaxima
  MaxPlanRevisions = 3
  AllowOverMaximum = FALSE
  Evidence = {"e1"}
  MaxRunsOfParts = 3
  SectionCount = 2
  Answers <- MCAnswers
  MaxUnits = 4
  StreamSetups <- MCStreamSetups
  Subtasks = {t1, t2}
  MaxItems = 4
  IdleTimeout = 2
  MaxProduced = 3
  MaxIdle = 1
  Endpoints = {"stream", "artifact", "invoke"}
  Jobs <- MCJobs
  SectionIds <- MCSectionIds
  CanonicalIds <- MCCanonicalIds
  MinSections = 2
  MaxSections = 2
  Criteria = 2
  MaxProposed = 2
  MaxFinalizations = 2
SPECIFICATION DocumentSpec
INVARIANT MaximumIsNoGate
CHECK_DEADLOCK FALSE
