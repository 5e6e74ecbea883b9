\* the thread pool from construction to destruction: nothing is lost on the
\* way, jobs are run, the destructor returns
CONSTANTS
  HowMany = 2
  Jobs = {j1, j2}
  NullJob = NullJob
  NoItem = NoItem
  NoThread = NoThread
  MaxBlocks = 1
SPECIFICATION FairSpec
INVARIANTS
  JobInOnePlace
  DestroyedIsUnused
  WorkersLeaveDrained
PROPERTIES
  DestructorReturns
  AddedJobsRun
  StartedJobsEnd
