\* Three workers, four tasks: more tasks than workers, so the queue fills while
\* all workers run, and more workers than one, so notifications can be stolen.
SPECIFICATION FairSpec
CONSTANTS
    NumWorkers = 3
    MaxTasks = 4
INVARIANTS
    TasksPartitioned
    DrainedBeforeReturn
    NoSleepBesideWork
PROPERTIES
    ImplementsTaskPool
    PoolShutsDown
