\* Two tasks at a time, a wipe at any moment, and one message that the broker
\* hands out a second time while its task still runs.
SPECIFICATION Spec
CONSTANTS
    j1 = j1
    j2 = j2
    u1 = u1
    u2 = u2
    gh = gh
    gx = gx
    nt = nt
    NoUser = NoUser
    NoSlot = NoSlot
    Jobs = {j1, j2}
    Users = {u1}
    GithubSlots = {gh}
    NotionSlots = {}
    Unparsable = {}
    Wipers = {u1}
    Cancellable = {}
    MaxExecs = 3
    MaxFiles = 2
    CommitEvery = 2
    BatchSize = 1
    Workers = 2
    Faults = {"slow_task"}
    MaxFaults = 1
    Connections <- AllConnected
SYMMETRY JobSymmetry
INVARIANT TypeOK
INVARIANT SwappedRunsExclusive
INVARIANT CompleteIsSearchable
PROPERTY DocumentsNeverReturn
