\* The documented deployment: one task at a time, two users who share a
\* repository and a Notion workspace, a wipe, a cancel and a fault.
SPECIFICATION Spec
CONSTANTS
    j1 = j1
    j2 = j2
    u1 = u1
    u2 = u2
    gh = gh
    gx = gx
    nt = nt
    NoUser = NoUser
    NoSlot = NoSlot
    Jobs = {j1, j2}
    Users = {u1, u2}
    GithubSlots = {gh}
    NotionSlots = {nt}
    Unparsable = {}
    Wipers = {u1}
    Cancellable = {j1}
    MaxExecs = 4
    MaxFiles = 2
    CommitEvery = 2
    BatchSize = 1
    Workers = 1
    Faults = {"child_killed", "lost_dispatch"}
    MaxFaults = 1
    Connections <- AllConnected
INVARIANT NoEmbedConflict
PROPERTY GithubReindexKeepsLibrary
