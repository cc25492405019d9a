------------------------------ MODULE Ingestion ------------------------------
(***************************************************************************)
(* The ingestion pipeline: API routes that create, cancel and wipe jobs    *)
(* (api/routes/ingest.py, api/routes/admin.py), the Celery queue between   *)
(* them and the worker (celery_app.py), the ingest task of a GitHub        *)
(* repository or a Notion workspace (ingestion/github.py,                  *)
(* ingestion/notion.py), the embedding task (ingestion/embeddings.py) and  *)
(* the onboarding badge (api/onboarding_state.py).                         *)
(*                                                                         *)
(* Abstractions.  A document stands for its row, its chunks and (in emb)   *)
(* their embeddings: both tasks treat the chunks of one document alike.    *)
(* Every action is one database transaction of the code, so what a session *)
(* has added and not committed sits in pend.  The contents of files, the   *)
(* progress numbers and error messages are left out.  One team: a slot is  *)
(* a (team, repository) or (team, Notion workspace) pair.                  *)
(***************************************************************************)
EXTENDS Naturals, FiniteSets

CONSTANTS
    Jobs,          \* identifiers of ingest jobs
    Users,         \* members of the team who request jobs
    GithubSlots,   \* repositories
    NotionSlots,   \* Notion workspaces
    Unparsable,    \* "repositories" whose URL has no owner and name
    Connections,   \* <<user, workspace>> pairs that hold a Notion token
    NoUser, NoSlot,
    Wipers,        \* users who may wipe their library
    Cancellable,   \* jobs whose cancel button may be pressed
    MaxExecs,      \* bound: executions of tasks over a behaviour
    MaxFiles,      \* bound: files of a repository, pages of a workspace
    CommitEvery,   \* files between two progress commits (10 and 5 in the code)
    BatchSize,     \* chunks per embedding transaction (128 in the code)
    Workers,       \* tasks the worker processes run at the same time
    Faults,        \* kinds of fault the environment may inject
    MaxFaults      \* bound: faults over a behaviour

Slots == GithubSlots \cup NotionSlots
Execs == 1..MaxExecs
FileIndex == 1..MaxFiles
\* The i-th file, as written by execution e: ids are fresh UUIDs per run.
Docs == Execs \X FileIndex

Kinds == {"ingest", "embed"}
Tasks == Kinds \X Jobs
FaultKinds == {"worker_death", "child_killed", "slow_task", "lost_dispatch",
               "no_report", "no_badge"}

ASSUME IngestionAssumption ==
    /\ NoUser \notin Users
    /\ NoSlot \notin Slots
    /\ GithubSlots \cap NotionSlots = {}
    /\ Unparsable \subseteq GithubSlots
    /\ Connections \subseteq Users \X NotionSlots
    /\ Wipers \subseteq Users
    /\ Cancellable \subseteq Jobs
    /\ MaxExecs \in Nat
    /\ MaxFiles \in Nat
    /\ CommitEvery \in Nat \ {0}
    /\ BatchSize \in Nat \ {0}
    /\ Workers \in Nat
    /\ Faults \subseteq FaultKinds
    /\ MaxFaults \in Nat

\* ingest_jobs.status, plus the two ways in which a row is not there.
RowStatuses == {"queued", "processing", "embedding", "complete", "failed"}
Statuses == RowStatuses \cup {"unborn", "wiped"}
\* memberships.onboarding_state
Badges == {"null", "indexing", "ready"}

VARIABLES
    \* the database
    status,      \* job -> its row's status
    asker,       \* job -> the user_id of its row
    target,      \* job -> the slot it ingests
    lib,         \* committed documents (with their chunks)
    emb,         \* committed documents whose chunks are embedded
    badge,       \* user -> onboarding_state
    \* the API handlers
    api,         \* job -> where the POST /ingest handler stands
    seen,        \* job -> badge that handler has read
    cancelling,  \* jobs whose cancel handler has read a live status
    \* the broker
    queue,       \* task -> number of copies of its message in the queue
    \* the worker
    pc,          \* execution -> where the task function stands
    task,        \* execution -> the task it executes
    total,       \* execution -> number of files or pages found
    idx,         \* execution -> number of files handled so far
    pend,        \* execution -> documents added to the open transaction
    made,        \* execution -> new_doc_ids: pending or committed documents
    doomed,      \* execution -> documents deleted in the open transaction
    todo,        \* execution -> chunks read by the embed task, not yet done
    \* bookkeeping of the model
    swapped,     \* executions whose delete-old transaction has committed
    crossed,     \* pairs of executions that were between DELETE and commit together
    forsaken,    \* jobs a task of which was left undone for good
    faults       \* faults injected so far

dbVars == <<status, asker, target, lib, emb, badge>>
apiVars == <<api, seen, cancelling>>
runLocals == <<task, total, idx, pend, made, doomed, todo>>
runVars == <<pc, runLocals>>
history == <<swapped, crossed, forsaken>>
vars == <<dbVars, apiVars, queue, runVars, history, faults>>

ApiStates == {"idle", "read", "committed", "done"}
LiveStates == {"start", "fetch", "files", "swap", "commit", "embedding",
               "dispatch", "load", "batch", "finish", "ready", "raise", "ack"}
PcStates == LiveStates \cup {"free", "lost", "ended"}
NoTask == <<"none", "none">>

TypeOK ==
    /\ status \in [Jobs -> Statuses]
    /\ asker \in [Jobs -> Users \cup {NoUser}]
    /\ target \in [Jobs -> Slots \cup {NoSlot}]
    /\ lib \subseteq Docs
    /\ emb \subseteq Docs
    /\ badge \in [Users -> Badges]
    /\ api \in [Jobs -> ApiStates]
    /\ seen \in [Jobs -> Badges]
    /\ cancelling \subseteq Jobs
    /\ queue \in [Tasks -> Nat]
    /\ pc \in [Execs -> PcStates]
    /\ task \in [Execs -> Tasks \cup {NoTask}]
    /\ total \in [Execs -> 0..MaxFiles]
    /\ idx \in [Execs -> 0..MaxFiles]
    /\ pend \in [Execs -> SUBSET Docs]
    /\ made \in [Execs -> SUBSET Docs]
    /\ doomed \in [Execs -> SUBSET Docs]
    /\ todo \in [Execs -> SUBSET Docs]
    /\ swapped \subseteq Execs
    /\ crossed \subseteq SUBSET Execs
    /\ forsaken \subseteq Jobs
    /\ faults \in Nat

Init ==
    /\ status = [j \in Jobs |-> "unborn"]
    /\ asker = [j \in Jobs |-> NoUser]
    /\ target = [j \in Jobs |-> NoSlot]
    /\ lib = {}
    /\ emb = {}
    /\ badge = [u \in Users |-> "null"]
    /\ api = [j \in Jobs |-> "idle"]
    /\ seen = [j \in Jobs |-> "null"]
    /\ cancelling = {}
    /\ queue = [t \in Tasks |-> 0]
    /\ pc = [e \in Execs |-> "free"]
    /\ task = [e \in Execs |-> NoTask]
    /\ total = [e \in Execs |-> 0]
    /\ idx = [e \in Execs |-> 0]
    /\ pend = [e \in Execs |-> {}]
    /\ made = [e \in Execs |-> {}]
    /\ doomed = [e \in Execs |-> {}]
    /\ todo = [e \in Execs |-> {}]
    /\ swapped = {}
    /\ crossed = {}
    /\ forsaken = {}
    /\ faults = 0

------------------------------------------------------------------------------
JobOf(e) == task[e][2]
HasRow(j) == status[j] \in RowStatuses
Alive(e) == pc[e] \in LiveStates
Owner(d) == asker[JobOf(d[1])]
SlotOf(d) == target[JobOf(d[1])]
Goto(e, s) == pc' = [pc EXCEPT ![e] = s]
Send(t) == queue' = [queue EXCEPT ![t] = @ + 1]
Fault(kind) ==
    /\ kind \in Faults
    /\ faults < MaxFaults
    /\ faults' = faults + 1

\* Recorded for the properties: what a task of job j had to do is left undone,
\* and nothing in the code will ever do it.
Forsake(j) ==
    /\ forsaken' = forsaken \cup {j}
    /\ UNCHANGED <<swapped, crossed>>

------------------------------------------------------------------------------
(* POST /ingest/github and POST /ingest/notion                             *)

\* The handler reads the caller's badge (mark_indexing); nothing is visible yet.
ReadBadge(j, u, s) ==
    /\ api[j] = "idle"
    /\ api' = [api EXCEPT ![j] = "read"]
    /\ seen' = [seen EXCEPT ![j] = badge[u]]
    /\ asker' = [asker EXCEPT ![j] = u]
    /\ target' = [target EXCEPT ![j] = s]
    /\ UNCHANGED <<status, lib, emb, badge, cancelling, queue, runVars,
                   history, faults>>

RequestGithub(j, u, s) == s \in GithubSlots /\ ReadBadge(j, u, s)

\* The Notion route answers 400 unless the workspace's token is on file.
RequestNotion(j, u, s) == <<u, s>> \in Connections /\ ReadBadge(j, u, s)

\* The ORM writes the badge only when the value it read changes.
MarkIndexing(j) ==
    IF seen[j] = "null" THEN [badge EXCEPT ![asker[j]] = "indexing"] ELSE badge

\* The job row and the badge are committed before anything is dispatched.
CommitRequest(j) ==
    /\ api[j] = "read"
    /\ api' = [api EXCEPT ![j] = "committed"]
    /\ status' = [status EXCEPT ![j] = "queued"]
    /\ badge' = MarkIndexing(j)
    /\ seen' = [seen EXCEPT ![j] = "null"]
    /\ UNCHANGED <<asker, target, lib, emb, cancelling, queue, runVars,
                   history, faults>>

DispatchRequest(j) ==
    /\ api[j] = "committed"
    /\ api' = [api EXCEPT ![j] = "done"]
    /\ Send(<<"ingest", j>>)
    /\ UNCHANGED <<dbVars, seen, cancelling, runVars, history, faults>>

\* The API process dies, or the broker refuses, between commit and .delay().
LoseDispatch(j) ==
    /\ api[j] = "committed"
    /\ Fault("lost_dispatch")
    /\ api' = [api EXCEPT ![j] = "done"]
    /\ Forsake(j)
    /\ UNCHANGED <<dbVars, seen, cancelling, queue, runVars>>

(* POST /ingest/cancel/{job_id}: a read, then a write of the same row.  The *)
(* revoke that follows reaches no worker (worker_enable_remote_control is   *)
(* off and the Celery task id is not the job id).                           *)
ReadForCancel(j) ==
    /\ status[j] \in RowStatuses \ {"complete", "failed"}
    /\ j \notin cancelling
    /\ cancelling' = cancelling \cup {j}
    /\ UNCHANGED <<dbVars, api, seen, queue, runVars, history, faults>>

\* On a row wiped meanwhile the UPDATE matches nothing and the handler raises.
CommitCancel(j) ==
    /\ j \in cancelling
    /\ cancelling' = cancelling \ {j}
    /\ status' = IF HasRow(j) THEN [status EXCEPT ![j] = "failed"] ELSE status
    /\ UNCHANGED <<asker, target, lib, emb, badge, api, seen, queue, runVars,
                   history, faults>>

(* POST /admin/wipe-library: the caller's documents and job rows go in one  *)
(* commit; chunks and embeddings follow by ON DELETE CASCADE.               *)
WipeLibrary(u) ==
    /\ lib' = {d \in lib : Owner(d) # u}
    /\ emb' = {d \in emb : Owner(d) # u}
    /\ status' = [j \in Jobs |-> IF asker[j] = u /\ HasRow(j) THEN "wiped"
                                 ELSE status[j]]
    /\ UNCHANGED <<asker, target, badge, apiVars, queue, runVars, history,
                   faults>>

------------------------------------------------------------------------------
(* The broker and the worker processes (celery_app.py)                     *)

\* An execution slot is used once, in order: the run's document ids are its own.
NextExec(e) == pc[e] = "free" /\ \A f \in Execs : f < e => pc[f] # "free"

Deliver(t, e) ==
    /\ queue[t] > 0
    /\ Cardinality({f \in Execs : Alive(f)}) < Workers
    /\ NextExec(e)
    /\ queue' = [queue EXCEPT ![t] = @ - 1]
    /\ task' = [task EXCEPT ![e] = t]
    /\ Goto(e, IF t[1] = "ingest" THEN "start" ELSE "load")
    /\ UNCHANGED <<dbVars, apiVars, total, idx, pend, made, doomed, todo,
                   history, faults>>

\* The open transaction of execution e rolls back.
Rollback(e) ==
    /\ pend' = [pend EXCEPT ![e] = {}]
    /\ made' = [made EXCEPT ![e] = @ \ pend[e]]
    /\ doomed' = [doomed EXCEPT ![e] = {}]

\* The task function is left and its locals are gone.  made stays, as history.
Leave(e) ==
    /\ Rollback(e)
    /\ total' = [total EXCEPT ![e] = 0]
    /\ idx' = [idx EXCEPT ![e] = 0]
    /\ todo' = [todo EXCEPT ![e] = {}]
    /\ UNCHANGED task

\* task_acks_late: the message is acknowledged once the function has returned.
Acknowledge(e) ==
    /\ pc[e] = "ack"
    /\ Goto(e, "ended")
    /\ UNCHANGED <<dbVars, apiVars, queue, runLocals, history, faults>>

\* The whole worker dies: its message stays unacknowledged.
WorkerDeath(e) ==
    /\ Alive(e)
    /\ Fault("worker_death")
    /\ Goto(e, "lost")
    /\ Leave(e)
    /\ UNCHANGED <<dbVars, apiVars, queue, history>>

\* Only the pool's child dies (out of memory): with acks_late and without
\* task_reject_on_worker_lost the parent acknowledges the message.
ChildKilled(e) ==
    /\ Alive(e)
    /\ Fault("child_killed")
    /\ Goto(e, "ended")
    /\ Leave(e)
    /\ Forsake(JobOf(e))
    /\ UNCHANGED <<dbVars, apiVars, queue>>

\* Mutant of RestoreLost: task_acks_late off, a lost task is just gone.
RestoreNothing(e) ==
    /\ pc[e] = "lost"
    /\ Goto(e, "ended")
    /\ UNCHANGED <<dbVars, apiVars, queue, runLocals, history, faults>>

\* visibility_timeout: an unacknowledged message goes back to the queue.
RestoreLost(e) ==
    /\ pc[e] = "lost"
    /\ Goto(e, "ended")
    /\ Send(task[e])
    /\ UNCHANGED <<dbVars, apiVars, runLocals, history, faults>>

\* ... also when its task is only slow and still running.
RestoreSlow(e) ==
    /\ Alive(e)
    /\ Fault("slow_task")
    /\ Send(task[e])
    /\ UNCHANGED <<dbVars, apiVars, runVars, history>>

------------------------------------------------------------------------------
(* ingest_github_repo and ingest_notion_workspace.  Every step that goes    *)
(* through _update_job needs the job's row: without it scalar_one raises.   *)

\* The URL is taken apart before the try block: the exception ends the task and
\* no except clause touches the row.
RejectUrl(e) ==
    /\ pc[e] = "start"
    /\ target[JobOf(e)] \in Unparsable
    /\ Goto(e, "ack")
    /\ UNCHANGED <<dbVars, apiVars, queue, runLocals, history, faults>>

StartIngest(e) ==
    /\ pc[e] = "start"
    /\ target[JobOf(e)] \notin Unparsable
    /\ HasRow(JobOf(e))
    /\ status' = [status EXCEPT ![JobOf(e)] = "processing"]
    /\ Goto(e, "fetch")
    /\ UNCHANGED <<asker, target, lib, emb, badge, apiVars, queue, runLocals,
                   history, faults>>

\* Clone and walk, or list the pages; an empty source is complete at once.
Fetch(e, n) ==
    /\ pc[e] = "fetch"
    /\ HasRow(JobOf(e))
    /\ total' = [total EXCEPT ![e] = n]
    /\ Goto(e, IF n = 0 THEN "finish" ELSE "files")
    /\ UNCHANGED <<dbVars, apiVars, queue, task, idx, pend, made, doomed, todo,
                   history, faults>>

AtCommitPoint(e) == (idx[e] + 1) % CommitEvery = 0 \/ idx[e] + 1 = total[e]

\* Mutant of NextFile: the loop runs one past the end.
NextFilePastEnd(e) ==
    /\ idx[e] <= total[e]
    /\ idx' = [idx EXCEPT ![e] = @ + 1]
    /\ Goto(e, IF idx[e] = total[e] THEN "swap" ELSE "files")

NextFile(e) ==
    /\ idx[e] < total[e]
    /\ idx' = [idx EXCEPT ![e] = @ + 1]
    /\ Goto(e, IF idx[e] + 1 = total[e] THEN "swap" ELSE "files")

\* An unreadable or blank file: "continue", past the progress commit too.
SkipFile(e) ==
    /\ pc[e] = "files"
    /\ NextFile(e)
    /\ UNCHANGED <<dbVars, apiVars, queue, task, total, pend, made, doomed, todo,
                   history, faults>>

\* The progress update commits the session that holds the new documents.
AddFile(e) ==
    LET doc == <<e, idx[e] + 1>>
    IN  /\ pc[e] = "files"
        /\ NextFile(e)
        /\ made' = [made EXCEPT ![e] = @ \cup {doc}]
        /\ IF AtCommitPoint(e)
           THEN /\ HasRow(JobOf(e))
                /\ lib' = lib \cup pend[e] \cup {doc}
                /\ pend' = [pend EXCEPT ![e] = {}]
           ELSE /\ lib' = lib
                /\ pend' = [pend EXCEPT ![e] = @ \cup {doc}]
        /\ UNCHANGED <<status, asker, target, emb, badge, apiVars, queue, task,
                       total, doomed, todo, history, faults>>

\* Mutant of DeleteOthers: the delete joins the embeddings and so misses
\* documents that are not indexed yet.
DeleteIndexedOthers(e) ==
    doomed' = [doomed EXCEPT ![e] = {d \in emb : SlotOf(d) = target[JobOf(e)]
                                                /\ d \notin made[e]}]

\* The slot's documents that are not this run's.  The statement sees what is
\* committed when it starts: not the documents a concurrent run still holds.
DeleteOthers(e) ==
    doomed' = [doomed EXCEPT ![e] = {d \in lib : SlotOf(d) = target[JobOf(e)]
                                                /\ d \notin made[e]}]

\* The statement has run and its transaction is open.  Nobody else sees the
\* delete yet.  (A second statement over the same rows waits for the first to
\* end, with the documents it has seen: that only orders the two commits.)
AwaitCommit(e) ==
    /\ crossed' = crossed \cup
           {{e, f} : f \in {g \in Execs : /\ pc[g] = "commit"
                                         /\ target[JobOf(g)] = target[JobOf(e)]}}
    /\ Goto(e, "commit")
    /\ UNCHANGED <<dbVars, apiVars, queue, task, total, idx, pend, made, todo,
                   swapped, forsaken, faults>>

\* Mutant of DeleteGithub: deletes although the run has produced nothing.
DeleteGithubAlways(e) ==
    /\ pc[e] = "swap"
    /\ target[JobOf(e)] \in GithubSlots
    /\ DeleteOthers(e)
    /\ AwaitCommit(e)

\* GitHub deletes only when the run has produced a document ...
DeleteGithub(e) ==
    /\ pc[e] = "swap"
    /\ target[JobOf(e)] \in GithubSlots
    /\ IF made[e] # {} THEN DeleteOthers(e) ELSE UNCHANGED doomed
    /\ AwaitCommit(e)

\* ... Notion deletes in any case.
DeleteNotion(e) ==
    /\ pc[e] = "swap"
    /\ target[JobOf(e)] \in NotionSlots
    /\ DeleteOthers(e)
    /\ AwaitCommit(e)

\* The documents still pending appear and the deleted ones go, together.
CommitSwap(e) ==
    /\ pc[e] = "commit"
    /\ lib' = (lib \cup pend[e]) \ doomed[e]
    /\ emb' = emb \ doomed[e]
    /\ pend' = [pend EXCEPT ![e] = {}]
    /\ doomed' = [doomed EXCEPT ![e] = {}]
    /\ total' = [total EXCEPT ![e] = 0]
    /\ idx' = [idx EXCEPT ![e] = 0]
    /\ swapped' = swapped \cup {e}
    /\ Goto(e, "embedding")
    /\ UNCHANGED <<status, asker, target, badge, apiVars, queue, task, made,
                   todo, crossed, forsaken, faults>>

MarkEmbedding(e) ==
    /\ pc[e] = "embedding"
    /\ HasRow(JobOf(e))
    /\ status' = [status EXCEPT ![JobOf(e)] = "embedding"]
    /\ Goto(e, "dispatch")
    /\ UNCHANGED <<asker, target, lib, emb, badge, apiVars, queue, runLocals,
                   history, faults>>

DispatchEmbedding(e) ==
    /\ pc[e] = "dispatch"
    /\ Send(<<"embed", JobOf(e)>>)
    /\ Goto(e, "ack")
    /\ Leave(e)
    /\ UNCHANGED <<dbVars, apiVars, history, faults>>

------------------------------------------------------------------------------
(* embed_chunks                                                            *)

ReadList(e, chunks) ==
    /\ pc[e] = "load"
    /\ HasRow(JobOf(e))
    /\ todo' = [todo EXCEPT ![e] = chunks]
    /\ Goto(e, IF chunks = {} THEN "finish" ELSE "batch")
    /\ UNCHANGED <<dbVars, apiVars, queue, task, total, idx, pend, made, doomed,
                   history, faults>>

\* Mutant of LoadChunks: the query is limited to one batch.
LoadOneBatch(e) ==
    ReadList(e, LET chunks == {d \in lib \ emb : Owner(d) = asker[JobOf(e)]}
                IN  IF Cardinality(chunks) <= BatchSize THEN chunks
                    ELSE CHOOSE some \in SUBSET chunks :
                             Cardinality(some) = BatchSize)

\* Mutant of LoadChunks: the outer join on embeddings is missing.
LoadAllChunks(e) == ReadList(e, {d \in lib : Owner(d) = asker[JobOf(e)]})

\* Every un-embedded chunk of the job's USER, read once.
LoadChunks(e) == ReadList(e, {d \in lib \ emb : Owner(d) = asker[JobOf(e)]})

\* Mutant of EmbedBatch: no foreign key, a vanished chunk gets an embedding.
EmbedUnchecked(e, batch) ==
    /\ pc[e] = "batch"
    /\ emb' = emb \cup batch
    /\ todo' = [todo EXCEPT ![e] = @ \ batch]
    /\ Goto(e, IF ~HasRow(JobOf(e)) THEN "raise"
               ELSE IF batch = todo[e] THEN "finish" ELSE "batch")
    /\ UNCHANGED <<status, asker, target, lib, badge, apiVars, queue, task,
                   total, idx, pend, made, doomed, history, faults>>

\* One batch is inserted in a transaction of its own.  embeddings.chunk_id is
\* unique and a foreign key: a chunk embedded or deleted since it was read
\* makes the insert fail (Raise), one in a delete not yet committed makes it
\* wait.  Then progress is written: no row, an error.
EmbedBatch(e, batch) ==
    /\ pc[e] = "batch"
    /\ batch \subseteq lib \ emb
    /\ \A f \in Execs : batch \cap doomed[f] = {}
    /\ emb' = emb \cup batch
    /\ todo' = [todo EXCEPT ![e] = @ \ batch]
    /\ Goto(e, IF ~HasRow(JobOf(e)) THEN "raise"
               ELSE IF batch = todo[e] THEN "finish" ELSE "batch")
    /\ UNCHANGED <<status, asker, target, lib, badge, apiVars, queue, task,
                   total, idx, pend, made, doomed, history, faults>>

Batches(S) ==
    {b \in SUBSET S : b # {} /\ (Cardinality(b) = BatchSize
                                 \/ (b = S /\ Cardinality(S) < BatchSize))}

------------------------------------------------------------------------------
(* The ends of both tasks                                                  *)

\* Mutant of MarkComplete: an empty source completes without mark_ready_sync.
CompleteWithoutReady(e) ==
    /\ pc[e] = "finish"
    /\ HasRow(JobOf(e))
    /\ status' = [status EXCEPT ![JobOf(e)] = "complete"]
    /\ Goto(e, IF task[e][1] = "ingest" THEN "ack" ELSE "ready")
    /\ UNCHANGED <<asker, target, lib, emb, badge, apiVars, queue, runLocals,
                   history, faults>>

MarkComplete(e) ==
    /\ pc[e] = "finish"
    /\ HasRow(JobOf(e))
    /\ status' = [status EXCEPT ![JobOf(e)] = "complete"]
    /\ Goto(e, "ready")
    /\ UNCHANGED <<asker, target, lib, emb, badge, apiVars, queue, runLocals,
                   history, faults>>

\* mark_ready_sync, in a transaction of its own.
MarkReady(e) ==
    /\ pc[e] = "ready"
    /\ badge' = IF HasRow(JobOf(e))
                THEN [badge EXCEPT ![asker[JobOf(e)]] = "ready"] ELSE badge
    /\ Goto(e, "ack")
    /\ Leave(e)
    /\ UNCHANGED <<status, asker, target, lib, emb, apiVars, queue, history,
                   faults>>

\* mark_ready_sync never raises: an error of the database is logged, the badge
\* stays as it is, and the task ends as if all were well.
LoseBadge(e) ==
    /\ pc[e] = "ready"
    /\ Fault("no_badge")
    /\ Goto(e, "ack")
    /\ Leave(e)
    /\ Forsake(JobOf(e))
    /\ UNCHANGED <<dbVars, apiVars, queue>>

\* A clone, a request, a statement, a dispatch or the model fails, or the row
\* is gone: the session rolls back and control is at the except clause.
Raise(e) ==
    /\ Alive(e) /\ pc[e] \notin {"ready", "raise", "ack"}
    /\ pc[e] = "start" => target[JobOf(e)] \notin Unparsable
    /\ Goto(e, "raise")
    /\ Leave(e)
    /\ UNCHANGED <<dbVars, apiVars, queue, history, faults>>

\* Mutant of MarkFailed: the except clause only logs.
FailSilently(e) ==
    /\ pc[e] = "raise"
    /\ Goto(e, "ack")
    /\ UNCHANGED <<dbVars, apiVars, queue, runLocals, history, faults>>

\* The except clause; without a row its own _update_job raises.  Either way
\* the task has failed and Celery acknowledges it.
MarkFailed(e) ==
    /\ pc[e] = "raise"
    /\ status' = IF HasRow(JobOf(e)) THEN [status EXCEPT ![JobOf(e)] = "failed"]
                 ELSE status
    /\ Goto(e, "ack")
    /\ UNCHANGED <<asker, target, lib, emb, badge, apiVars, queue, runLocals,
                   history, faults>>

\* The database is what failed, and the _update_job of the except clause raises
\* in its turn: the row keeps its status and the task is acknowledged all the same.
LoseReport(e) ==
    /\ pc[e] = "raise"
    /\ Fault("no_report")
    /\ Goto(e, "ack")
    /\ Forsake(JobOf(e))
    /\ UNCHANGED <<dbVars, apiVars, queue, runLocals>>

------------------------------------------------------------------------------
\* What the task function of execution e does on its own.
RunTask(e) ==
    \/ RejectUrl(e)
    \/ StartIngest(e)
    \/ \E n \in 0..MaxFiles : Fetch(e, n)
    \/ SkipFile(e)
    \/ AddFile(e)
    \/ DeleteGithub(e)
    \/ DeleteNotion(e)
    \/ CommitSwap(e)
    \/ MarkEmbedding(e)
    \/ DispatchEmbedding(e)
    \/ LoadChunks(e)
    \/ \E batch \in Batches(todo[e]) : EmbedBatch(e, batch)
    \/ MarkComplete(e)
    \/ MarkReady(e)
    \/ Raise(e)
    \/ MarkFailed(e)
    \/ Acknowledge(e)

Environment(e) ==
    \/ WorkerDeath(e)
    \/ ChildKilled(e)
    \/ RestoreLost(e)
    \/ RestoreSlow(e)
    \/ LoseReport(e)
    \/ LoseBadge(e)

Handlers(j) ==
    \/ \E u \in Users, s \in Slots : RequestGithub(j, u, s)
                                     \/ RequestNotion(j, u, s)
    \/ CommitRequest(j)
    \/ DispatchRequest(j)
    \/ LoseDispatch(j)
    \/ j \in Cancellable /\ ReadForCancel(j)
    \/ CommitCancel(j)

Next ==
    \/ \E j \in Jobs : Handlers(j)
    \/ \E u \in Wipers : WipeLibrary(u)
    \/ \E t \in Tasks, e \in Execs : Deliver(t, e)
    \/ \E e \in Execs : RunTask(e) \/ Environment(e)

Spec == Init /\ [][Next]_vars

\* A task that a worker runs goes on to its end, a worker that is up takes
\* messages, and the broker restores what a dead worker held.  Nobody has to
\* request, cancel or wipe anything.
Fairness ==
    /\ \A e \in Execs : WF_vars(RunTask(e)) /\ WF_vars(RestoreLost(e))
    /\ WF_vars(\E t \in Tasks, e \in Execs : Deliver(t, e))

FairSpec == Spec /\ Fairness

------------------------------------------------------------------------------
(* Correctness                                                             *)

IngestRuns(j) == {e \in Execs : task[e] = <<"ingest", j>>}
DeliveredOnce(j) == \A e, f \in IngestRuns(j) : e = f
Settled(j) == status[j] \in {"complete", "failed", "wiped"}
SlotDocs(s) == {d \in lib : SlotOf(d) = s}

\* However runs over the same repository or workspace overlap, crash and are
\* redelivered: of two that have performed their delete-old transaction at most
\* one has documents left, unless the one ran its DELETE before the other had
\* committed (then neither sees the other's last documents, and both generations
\* stay until the next indexing).
SwappedRunsExclusive ==
    \A d1, d2 \in lib :
        /\ d1[1] \in swapped
        /\ d2[1] \in swapped
        /\ SlotOf(d1) = SlotOf(d2)
        /\ {d1[1], d2[1]} \notin crossed
        => d1[1] = d2[1]

\* When a job whose ingest task was delivered once says "complete", search
\* finds every document of its run that is still in the library, whatever
\* other jobs, cancels, wipes and redelivered embed tasks did meanwhile.
CompleteIsSearchable ==
    \A j \in Jobs : status[j] = "complete" /\ DeliveredOnce(j) =>
        \A d \in lib : JobOf(d[1]) = j => d \in emb

DocStage(d) ==
    IF d \in emb THEN "searchable"
    ELSE IF d \in lib THEN "stored"
    ELSE IF d \in made[d[1]] \ pend[d[1]] THEN "deleted"
    ELSE "unwritten"

Library == INSTANCE SearchableLibrary
               WITH Documents <- Docs, stage <- [d \in Docs |-> DocStage(d)]

\* The pipeline implements SearchableLibrary: readers see a document stored,
\* then searchable, then deleted, and a deleted one never again.
DocumentsNeverReturn == Library!LibSpec

\* A job of a well-formed repository URL or of a workspace that is under way
\* always has somebody to finish it: a message in the queue, a task that runs,
\* or one the broker will restore.  Excepted is a forsaken job: its dispatch was
\* lost, the pool's child that had a task of it was killed, or neither the task
\* nor its except clause could reach the database.
InProgressHasDriver ==
    \A j \in Jobs \ forsaken :
        /\ status[j] \in {"queued", "processing", "embedding"}
        /\ target[j] \notin Unparsable
        => \/ api[j] = "committed"
           \/ \E k \in Kinds : queue[<<k, j>>] > 0
           \/ \E e \in Execs : JobOf(e) = j /\ (Alive(e) \/ pc[e] = "lost")

\* With one task at a time an embedding insert never meets a chunk that is
\* embedded or gone, unless the job's user has wiped the library.
NoEmbedConflict ==
    \A e \in Execs : pc[e] = "batch" /\ HasRow(JobOf(e)) =>
        todo[e] \subseteq lib \ emb

\* A run that swaps documents of the given slots in, for a job that exists,
\* never leaves a slot empty that held something.
SwapKeeps(slots) ==
    \A e \in swapped' \ swapped :
        LET s == target[JobOf(e)]
        IN  HasRow(JobOf(e)) /\ s \in slots /\ SlotDocs(s) # {} =>
                \E d \in lib' : SlotOf(d) = s

\* Re-indexing a repository replaces its documents and never just loses them
\* (one task at a time).
GithubReindexKeepsLibrary == [][SwapKeeps(GithubSlots)]_vars

\* The same for a Notion workspace ("delete old docs after new ones are ready").
NotionReindexKeepsLibrary == [][SwapKeeps(NotionSlots)]_vars

\* Once its message is in the queue, the job of a well-formed URL ends, or its
\* user wipes it, although workers die, statements fail and the broker redelivers:
\* only a forsaken job may hang.
DispatchedJobSettles ==
    \A j \in Jobs :
        queue[<<"ingest", j>>] > 0 /\ target[j] \notin Unparsable
            ~> Settled(j) \/ j \in forsaken

JobsOf(u) == {j \in Jobs : asker[j] = u}
AllComplete(u) == JobsOf(u) # {} /\ \A j \in JobsOf(u) : status[j] = "complete"

\* A user whose jobs are all complete, and stay so, gets the "ready" badge:
\* mark_ready_sync runs in a later transaction than the status, is redone by
\* the redelivered task when the worker dies between the two, and comes after
\* a stale "indexing" that a concurrent request writes over it.  Where the write
\* of the badge fails, or its process is killed first, nobody repeats it.
CompleteLeadsToReady ==
    \A u \in Users :
        AllComplete(u) ~> \/ badge[u] = "ready"
                          \/ ~AllComplete(u)
                          \/ JobsOf(u) \cap forsaken # {}

(* What comments and documents of the repository say, and the code does not. *)

\* "(swap in same transaction)": readers never see two generations of a slot.
SwapIsAtomic ==
    \A d1, d2 \in lib : SlotOf(d1) = SlotOf(d2) => d1[1] = d2[1]

\* "Job already finished" is what cancel_job answers of a failed job: a job
\* that has failed, by cancellation too, stays failed (without redelivery).
FailedIsFinal ==
    [][\A j \in Jobs : status[j] = "failed" => status'[j] \in {"failed", "wiped"}]_vars
==============================================================================
