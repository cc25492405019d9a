\* Two indexings of one repository, one after the other, no fault.
SPECIFICATION Spec
CONSTANTS
    j1 = j1
    j2 = j2
    u1 = u1
    u2 = u2
    gh = gh
    gx = gx
    nt = nt
    NoUser = NoUser
    NoSlot = NoSlot
    Jobs = {j1, j2}
    Users = {u1}
    GithubSlots = {gh}
    NotionSlots = {}
    Unparsable = {}
    Wipers = {}
    Cancellable = {}
    MaxExecs = 3
    MaxFiles = 3
    CommitEvery = 2
    BatchSize = 1
    Workers = 1
    Faults = {}
    MaxFaults = 0
    Connections <- AllConnected
INVARIANT SwapIsAtomic
\* The system comes to rest once the jobs are done.
CHECK_DEADLOCK FALSE
