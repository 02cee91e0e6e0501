CONSTANTS
 Sessions = {s1, s2}
 None = None
 MaxCrashes = 1
 MaxMigrations = 1
 MaxPatches = 1
 Settable = {"draft", "completed"}
 Migrators = {m1, m2}
 MaxFaults = 2
 Requests <- RequestSet
 MemoryTokenBudget = 9
 MemoryLimit = 2
 KnowledgeLimit = 1
 Overhead = 3
 Frame = 2
 Item = 2
 Preview = 1
 Unit = 238266
 MaxSteps = 1
SPECIFICATION FairSystemSpec
INVARIANTS LearningTypeOK ThreadIsConsistent
 WorkflowTypeOK WorkflowAgreesWithRun
 RequestTypeOK RefusedOnlyIfBaseTooBig RankingKeepsAgreement SelectionIsMaximal CompactionIsFrugal
PROPERTIES CompletionHasSource OldThreadsWait GraphWaitsOrEnds OldWorkflowWaits WorkflowSettles
CHECK_DEADLOCK FALSE
