\* The documented deployment (one task at a time), fairly scheduled, with one
\* fault of any kind but the slow task: the worker or a pool child dies, a
\* dispatch, the report of a failure or the write of the badge is lost.  Six
\* executions are all that two jobs and one redelivery of each of their messages
\* can use.
SPECIFICATION FairSpec
CONSTANTS
    j1 = j1
    j2 = j2
    u1 = u1
    u2 = u2
    gh = gh
    gx = gx
    nt = nt
    NoUser = NoUser
    NoSlot = NoSlot
    Jobs = {j1, j2}
    Users = {u1}
    GithubSlots = {gh, gx}
    NotionSlots = {}
    Unparsable = {gx}
    Wipers = {u1}
    Cancellable = {}
    MaxExecs = 6
    MaxFiles = 1
    CommitEvery = 2
    BatchSize = 1
    Workers = 1
    Faults = {"worker_death", "child_killed", "lost_dispatch", "no_report", "no_badge"}
    MaxFaults = 1
    Connections <- AllConnected
INVARIANT InProgressHasDriver
PROPERTY DispatchedJobSettles
PROPERTY CompleteLeadsToReady
