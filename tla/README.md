# Verification of engramAI

TLA+ models of engramAI: the ingestion pipeline, web sessions, accounts and
workspaces, the chat, and the pages of the frontend that show and change all
that. TLC checks them on small instances; TLAPS proves the main results for every
instance. Paths below are relative to the repository root (in
`PROJECT.json` they carry the prefix `src/`).

## 1. The system

engramAI indexes GitHub repositories and Notion workspaces and answers questions
about them, in a web chat and through MCP. A FastAPI process serves the API
(PostgreSQL with pgvector behind it), a Celery worker ingests (Redis is the
broker), a Next.js frontend keeps tokens in cookies and localStorage.

| Part | State | Operations | Talks to | Hard behaviour | Correct when |
|---|---|---|---|---|---|
| Ingest requests (`backend/api/routes/ingest.py`, `api/onboarding_state.py`) | `ingest_jobs` row, `memberships.onboarding_state` | request GitHub, request Notion, cancel | PostgreSQL, then the broker | commit and dispatch are two steps; read then write of the badge and of the status | every job is driven to an end; a finished job stays finished; the badge becomes "ready" |
| Ingest tasks (`ingestion/github.py`, `ingestion/notion.py`) | `documents`, `chunks`, job status; an open transaction | fetch, add files, delete old, dispatch embedding | PostgreSQL, GitHub, Notion, broker | progress commits publish half of a run; two runs of one source; an error at any point | a re-index never leaves two finished generations and never just loses a source |
| Embedding task (`ingestion/embeddings.py`) | `embeddings`, a list of chunks read once | load list, embed batches, complete | PostgreSQL, the model | the list is minutes old when used; jobs of one user share their chunks | "complete" means searchable |
| Queue and workers (`celery_app.py`) | messages, unacknowledged tasks | deliver, acknowledge, redeliver | Redis | death of a worker, of a pool child; a task slower than the visibility timeout | nothing under way is forgotten |
| Library wipe (`api/routes/admin.py`) | documents and jobs of a user | wipe | PostgreSQL | a task of the user is running | deleted documents do not come back |
| Web sessions (`api/session_tokens.py`, `api/routes/auth.py`, `api/middleware.py`) | `sessions` rows, Redis denylist | login, refresh, logout, logout-all, access check | PostgreSQL, Redis | concurrent refreshes, lost replies, outages, a logout-all among them | no chain forks, reuse is reuse, a logout holds |
| Session renewal (`frontend/src/lib/api.ts`, `lib/auth.ts`) | cookies, `engram_token`, refresh in flight | call, refresh, replay | the auth routes | tabs share cookies, not the refresh in flight; a stale header | a renewed session is used |
| Chat (`chat/engine.py`, `api/routes/chat.py`, `frontend/src/lib/chat-context.tsx`, the chat page) | conversations, messages, outputs, one transaction per stream; the client's messages, conversation, rail, list | send, list, load, delete, save an answer | retriever, LLM | disconnect during a stream, deletion during a stream, replies out of order | a message shown is a message stored, and the next question goes to the conversation on the screen |
| Sources (`frontend/src/app/` connections, jobs, onboarding, settings; `api/routes/providers.py`) | snapshots of the server in pages and module-level promises, `engram_job_ids` | add, re-index, connect, disconnect, cancel, re-run, start, wipe, poll | ingest, provider and admin routes | every snapshot has its own age; replies outlive their page | the pages agree with the server in the end, and with each other meanwhile |
| Accounts (`api/routes/auth.py`, `api/routes/teams.py`, `api/workspace.py`, `api/entitlements.py`, `api/mcp_auth.py`, the dashboard and the layout) | users, teams, MCP tokens; `engram_active_workspace` | sign up, create, list, enter, mint, check, revoke | PostgreSQL, GitHub OAuth | check then insert (slug, limit), first logins together, a workspace left in the browser | a user has one default workspace, and works on his own |
| MCP transport (`api/routes/mcp.py`, `mcp_shared/`) | context variables per request | tools | retriever, documents | identity across concurrent requests | a tool sees its own caller |
| Pure algorithms (`ingestion/chunker.py`, conversion and retries in `ingestion/notion.py`, `mcp_shared/formatting.py`) | none | chunk, paginate, retry, map lines to blocks, deduplicate | - | boundaries | chunks cover the file; a line maps to its block |

Retriever, documents and knowledge routes read only; middleware for usage and
request ids, logging, Sentry, configuration, encryption and migrations keep no
state of their own. `PROJECT.json` lists every part, and the hazards at the line
where each one bites; those of the pure algorithms (`chunker.py:277`, the overlap
of windows; `notion.py:114`, a listing that starts again for ever) are not in it,
nor is `providers.py:336`, a connection committed without its first job, which
the user can see and start himself.

## 2. Modules

| Module | What it is |
|---|---|
| `SearchableLibrary` | What the pipeline promises about one document: unwritten, stored, searchable, deleted, never back |
| `Ingestion` | Ingest requests, tasks, embedding, queue, wipe and badge |
| `MCIngestion` | Model values, symmetry and connections for TLC |
| `IngestionProofs` | Type correctness, swap exclusion, refinement of `SearchableLibrary`, a complete job is searchable |
| `IngestionDriverProofs` | A job under way has somebody to settle it; with one worker, embeds meet no conflict and an indexed repository is never emptied |
| `Sessions`, `MCSessions` | Web sessions, their handlers, the browser's tabs |
| `SessionsProofs` | Every safety property of `Sessions` that is checked |
| `Chat`, `MCChat` | The chat engine and routes, and the browser's chat state, page and sidebar |
| `ChatProofs` | Type correctness, what is stored, and what the model is given |
| `ChatViewProofs` | What is shown |
| `Sources`, `MCSources` | The connections, jobs, onboarding and settings pages with the routes they call |
| `SourcesProofs` | What pages leave behind: requests of the onboarding page, ids of wiped jobs |
| `SourcesListsProofs` | The lists: ids in localStorage, jobs page, rows of the connections page; type correctness |
| `Accounts`, `MCAccounts` | Sign-up, workspaces, plan limits, MCP tokens, dashboard and sidebar |
| `AccountsProofs` | Every safety property of `Accounts` that is checked |

`Ingestion`, `Sessions`, `Chat`, `Sources` and `Accounts` meet at the database and
in the browser. Where one needs another it takes its results: `Sources` has what
the tasks of `Ingestion` do to a job's status and documents, `Accounts` has a
login up to its commit, whose session `Sessions` takes over.

### Ingestion

An action is one database transaction, or one step between two of them. What a
SQLAlchemy session has flushed and not committed is `pend`; a rollback drops it.

| Variables | Code |
|---|---|
| `status`, `asker`, `target` | the `ingest_jobs` row: status, user, source; "unborn" and "wiped" say that there is no row |
| `lib`, `emb` | committed documents; those whose chunks are embedded |
| `badge`, `seen`, `api` | `onboarding_state`, what a request handler has read of it, where the handler stands |
| `cancelling` | cancel handlers between their read and their write |
| `queue` | messages in the broker |
| `pc`, `task`, `total`, `idx`, `pend`, `made`, `todo` | an execution of a task function and its locals; `made` is `new_doc_ids` |
| `doomed` | what the delete-old statement of a run that has not committed it has deleted |
| `swapped`, `crossed`, `forsaken`, `faults` | bookkeeping: runs that have committed their delete; pairs of which the one ran its statement before the other's commit; jobs that a fault has left with nobody to finish them |

`ReadBadge` .. `DispatchRequest` are the request handlers (the Notion OAuth
callback in `providers.py` ends with the same steps), `ReadForCancel` and
`CommitCancel` the cancel, `StartIngest` .. `DispatchEmbedding` the ingest
tasks, `LoadChunks` and `EmbedBatch` the embedding task, `MarkComplete`,
`MarkReady`, `Raise`, `MarkFailed` the ends of both. The delete-old transaction is
two actions: the `DELETE` sees what is committed when it runs (`DeleteGithub`,
`DeleteNotion`; PostgreSQL's READ COMMITTED), and waits for another one that has
deleted the same rows (`AwaitCommit`); `CommitSwap` then makes the run's own last
documents and the deletion visible. The two ingest tasks differ in two places
only: a malformed repository URL raises outside the `try` (`RejectUrl`), and GitHub
deletes old documents only when it has new ones. The except clause of a task may
fail itself when the database is what failed (`LoseReport`), and the error of a
badge that cannot be written is logged and swallowed (`LoseBadge`).

Abstractions. A document stands for its chunks and embeddings: a task treats the
chunks of a document alike, and a batch that splits a document in the code is a
batch of documents here. The insert of a batch and the progress update after it
are one action; the update changes no status, and a worker that dies between
the two is a worker that dies after. A job has at most one cancel handler at a
time. Any step may fail (`Raise`), which stands for network, database, model and
broker errors alike. Wiping removes a user's documents and jobs in all of his
teams; there is one team here. `made` survives the end of an execution, as the
record of what was ever written.

### Sessions

A session row is identified with its refresh token and its access token. A
handler is one action for each read it depends on and one for its commit;
PostgreSQL runs at READ COMMITTED and no statement takes `FOR UPDATE`, so a
refresh and a logout may interleave, except that a logout-all's `UPDATE` holds
its rows locked until its commit (`LockedByOther`).

| Variables | Code |
|---|---|
| `row`, `parent`, `born` | `sessions`: present and `revoked_at`, `rotated_from`, `created_at` |
| `until`, `redisUp` | expiry of the denylist keys; whether Redis answers |
| `access`, `refresh`, `header` | the browser's cookies; the expiry of its `engram_token` |
| `tab` | what an API call of a tab is doing: refused, waiting for the refresh, about to be replayed |
| `kind`, `from`, `tok`, `pc`, `ids`, `reply`, `minted` | a request to `/api/auth` and its handler's locals |
| `doubled`, `lost`, `killed`, `cut`, `racing`, `faults` | bookkeeping |

Abstractions. Keys of one logout are denied together: an outage comes before or
after. Time passes in ticks of any length relative to a handler. One user;
accounts are never deactivated and rows never deleted by the code, so the
branches `InactiveUser` and `InvalidRefresh` cannot be taken. Browsers in
`Legacy` keep the 24 h token that the login hands over, as the present frontend
does; when it is gone they go on with the cookies alone, as the code's comments
announce.

### Chat

A question (a "send") is identified with its request, its generator, its user
message and its answer. A generator is one transaction from the first read to the
commit after the last event; its steps are the reads and inserts, and the events
the client gets. From its insert on a question's foreign key locks its
conversation, so that a delete waits (`Holding`).

| Variables | Code |
|---|---|
| `convs`, `existed`, `rows`, `outs` | `conversations` (now, and ever), `messages`, `outputs` |
| `stage`, `aim`, `home` | where the generator is, `conversation_id` of the request, the conversation its rows are for |
| `birth` | the order of the transactions' starts, which is `created_at` of their rows |
| `said`, `sourced`, `prompt` | the deltas and the sources yielded, the history put before the model |
| `msgs`, `conv`, `streaming`, `rail`, `list` | the state of `ChatProvider` |
| `reading`, `heard`, `told` | the body that is read and the events of each |
| `url`, `last` | `?c=` of the chat page and its `lastLoaded` |
| `load`, `del`, `saving` | requests under way for the messages of a conversation, a delete, an output |
| `disturbed`, `events` | bookkeeping: the view was changed while an answer streamed |

`Start`, `Ask`, `Delta`, `Source` and `Commit` are `process_stream` in `engine.py`
under its route, with refusal, failure and disconnect at its awaits (`Refuse`,
`Fail`, `Abort`); `Send`, `Hear` and the end of the body are
`sendMessage`; loads, deletes, `newChat`, the effect of the chat page on `?c=` and
the clicks of the sidebar are actions of their own. The messages of a conversation
are read in two queries, whether it is there (`FindLoad`) and its rows
(`ReadLoad`), between which it can be deleted. A text is the sequence of the
questions its pieces answer, which tells an answer, a part of one, two mixed ones
and an error notice apart.

Rows of one transaction have the same `created_at` (PostgreSQL's `now()`), so the
order of a question and its answer in the history, which `engine.py:101` and
`chat.py:194` sort by that column, is left open by the code and by the model.

Left out: replies to the list of conversations that overtake each other, menus,
titles, paging, and the rendering of an answer.

### Sources

The server's side is short: the status of each job, the order of the rows, which
sources have documents and which workspaces are connected. The rest is what each
page has of it. Going to another page drops a component's state and leaves its
promises running; what a late continuation still does is the point of the module.

| Variables | Code |
|---|---|
| `status`, `recent`, `docs`, `wired` | `ingest_jobs`, documents, `user_connections` |
| `busy` | jobs whose task has not ended |
| `call`, `cancels`, `unplug`, `grant`, `wiping` | requests under way, by the page that made them |
| `registry` | `engram_job_ids` of the browser (`registerJob` in the jobs page) |
| `docCache`, `jobCache`, `spaces`, `asking`, `extra`, `param`, `up` | the connections page: its two module-level promises, the workspaces, `extraRepos`, the query parameter of the OAuth callback |
| `polls`, `shown` | the jobs page: polls under way, the list on the screen |
| `setup`, `leaving`, `batch` | the onboarding page and its timer |
| `page` | the page that is open |
| `ever`, `late`, `fell`, `unheard`, `clicks`, `tour` | bookkeeping; `fell` are the jobs that have failed, be it for a while |

`RegisterJob` is `registerJob`; `NotionRows`, `RepoRows` and `JobSources` are the
lists the connections page derives from its three snapshots; `JobList` is the
merge of the server's list with the jobs of the browser that it misses. `AddRepo`
.. `Disconnect`, `Toggle` .. `Redirect`, `Poll` .. `Rerun` and `AskWipe` ..
`LoseWipe` are the pages' operations, each with the ways its requests end.
`Work` is a step of a task: it writes status and documents as it goes, without
looking at the status it overwrites, so the task of a cancelled job takes its
failure back, and after a wipe it may still commit documents. A behaviour may
start with a job that an earlier visit cancelled and whose task runs (`Before`).

Left out: a second tab, lists of providers that overtake each other, the limit of
the list of documents, a switch of the workspace, `submitToken`, paging, titles,
the row that is selected, and `handleReindexAndNavigate`, which nothing calls.

Observed while modelling, and modelled as the code has it: an entry of
`extraRepos` is never removed; the cached promises outlive a switch of the
workspace; a re-run posts the workspace id "default"; the onboarding page's
redirect fires wherever the user is by then.

### Accounts

A login or a creation of a workspace is one transaction: an action per read it
depends on, one for the insert, one for the commit. The code deletes no user, team
or membership, and the only members are owners, so a team is identified with the
request that made it and its one membership. The database makes requests wait:
two logins of one person at the unique key of the user (`Upsert`), two inserts of
one slug at the unique key of the team (`Insert`).

| Variables | Code |
|---|---|
| `plan` | the entitlements of the build; the OSS map and one that allows two workspaces |
| `users`, `teams`, `slug`, `token` | the tables, committed rows (a slug also before) |
| `kind`, `owner`, `pc`, `from` | a request, its user, where its handler is, the document that waits for it |
| `use` | an MCP token that a request has read and not yet touched |
| `signed`, `active` | `engram_token` and `engram_active_workspace` of localStorage |
| `page`, `cards`, `offer`, `busy`, `list`, `name`, `listed` | what the tab shows: dashboard, the workspaces read for the sidebar and the name it shows, the settings page's tokens |
| `rivals`, `counted`, `crossed`, `faults` | bookkeeping; `crossed` are the browsers whose other tabs have written localStorage since the layout was mounted |

`Upsert` .. `Commit` are `callback` with `ensure_default_team`, and `create_team`;
`Fail` is a rollback at any point of them. `Scope` is `get_active_team_id`,
`Named` the layout's own resolution of the name, from the list it asked for when it
was mounted (`ReadTeams`) and the active workspace when the reply is there
(`ShowName`). Of a browser's tabs one is modelled whole, and the others by what
they write to localStorage (`OtherTab`). Mint and revoke are one action
each, since nothing they read can change before they commit; the check of a token
is two. `Post` is a client without a page.

Left out: the change of a workspace's name; random hex that collides; the 24 hours
of the legacy token, which `Sessions` has; the reply to a creation that a tab hears
after a logout in another one. A blank name's 400 is a `Fail`.

Observed while modelling: the active workspace survives a logout (nothing calls
`clearActiveWorkspace`), so that the next user of the browser is refused with 403
until he enters a workspace from the dashboard; another tab that enters a
workspace, or has somebody else signed in, changes what the first one's requests
are for while its sidebar keeps the old name; the reply to a creation takes the user to the onboarding page
wherever he has gone within the document; a call whose token has been read is
served although the token is revoked meanwhile.

## 3. Runs

| Run | Instance | Result |
|---|---|---|
| `IngestionPool` | 2 jobs of one repository, 2 workers, 3 executions, 2 files, wipe, one early redelivery | 4.7 million states: `TypeOK`, `SwappedRunsExclusive`, `CompleteIsSearchable`, `DocumentsNeverReturn` hold |
| `IngestionLive` | 2 jobs, 1 worker, 6 executions, 1 file, wipe, a malformed URL, one fault: dead worker, killed child, lost dispatch, report or badge | 340 thousand states: `InProgressHasDriver`, `DispatchedJobSettles`, `CompleteLeadsToReady` hold |
| `IngestionSingle` | 2 users, a repository and a workspace, 1 worker, wipe, cancel, a killed child or a lost dispatch | 2.4 million states: `NoEmbedConflict`, `GithubReindexKeepsLibrary` hold |
| `Sessions` | 1 browser, 2 tabs, 3 requests, 3 sessions, 4 ticks of time, 4 events | 1.2 million states: `TypeOK`, `ReuseIsExplained`, `NoForkWithoutOverlap`, `LogoutAllLeavesOnlyRacers`, `KilledIsRefused` hold |
| `Chat` | 2 conversations, 2 questions of one piece each, 2 loads, 1 delete, 3 clicks or faults, a history of 3 | 1.2 million states: `TypeOK`, `ShownStoredIsTrue`, `ViewIsCurrent`, `RailIsOfLastAnswer`, `ExchangeIsWhole`, `NoOrphans`, `HistoryIsSettled`, `StreamingEnds` hold |
| `Sources` | 1 repository, 1 workspace, 4 tours of 2 or 3 clicks and jobs, 2 polls, 2 ids kept | 1.2 million states: `SourcesTypeOK`, `StartedShowsIndexing`, `NoJobTwice`, `RegistryKeepsNewest`, `GhostsAreLate`, `EachChosenPostedOnce`, `StartedMeansAnswered`, `NothingDropped`, `JobsPageConverges` hold |
| `Accounts` | 2 people, 1 browser, 3 logins or creations, 1 MCP token, 1 fault or step of another tab, 2 plans | 929 thousand states: `AccountsTypeOK`, `SignupIsWhole`, `SlugLostInRaceOnly`, `WithinPlan`, `TokensStayHome`, `NameIsScope`, `RevokedForGood`, `RequestsEnd` hold |
| `IngestionCancel`, `IngestionSwap`, `IngestionNotion`, `SessionsLogoutAll`, `SessionsReplay` | no fault, the smallest instance that shows it | each violates what a comment says, see 4 |

The bounds. Two jobs are what it takes to overlap, overwrite or compete; a third
adds only a third competitor to properties about pairs. Two files with
`CommitEvery = 2` give a file that waits in the transaction and one that commits
it, and `IngestionSwap` has three, so that a commit point lies before the end.
`BatchSize = 1` makes two documents two batches. Three executions in
`IngestionPool` are two ingests side by side and a redelivered or an embedding
one; the theorems of section 5 remove that bound for all of its properties. Six
executions in `IngestionLive` are all that two jobs and one fault can use, so no
task is ever kept waiting by the bound. In `Sessions`, three requests are a
login and two that compete for its token, or a login, a refresh and a logout-all;
the tokens' lifetimes are ordered as in the code, and time runs past the longest
of them. `MaxEvents` bounds requests and faults together. In `Chat` two questions
are the two that may be mixed up; a third event in a history of 3 cuts it, as the
limit of 10 does in the code; two loads can overtake each other, and three clicks
lead away from a streaming answer, back, and away again. In `Sources` a tour names
the pages of one behaviour, which keeps the interleavings of pages that share
nothing apart: the connections page and the jobs page each with all the pages that
change what they show, and the two together; a fourth tour has a cancelled job
whose task still runs. `Keep = 2` lets three jobs push one
out of the browser's list (20 in the code), a list limit of 1 lets a job be missing
on the server's (50). In `Accounts` three requests are a login and two creations
that compete, two first logins of one person beside a creation of another, or two
people's first logins and a creation; the name offered for a workspace is the
second person's login, so that sign-up and creation want the same slug. One browser
is enough for concurrent requests, as replies may be given up and clients post
without a page. Jobs in
`IngestionPool` and tabs in `Sessions` are symmetric; runs with liveness
properties use no symmetry.

Deadlock is checked where something is always possible (a wipe); the other runs end when the
jobs are done or the requests are used up.

Fairness (`FairSpec`). A task that a worker runs goes on (`WF` of `RunTask`), a
worker that is up takes a message when one is there (`WF` of `Deliver`), and the
broker restores what a dead worker held (`RestoreLost`, the visibility timeout of
3600 s). Nobody has to request, cancel or wipe. The worker is restarted after it
dies by the platform that hosts it (the README and the contributor guides start
it with `--concurrency=1`). No strong fairness is needed: with one worker the
steps of its task stay enabled until taken. `Chat`: a generator goes on until its
transaction has ended, and the client goes on reading a body (`WF` of `Generate`
and `Hear`): the event loops of server and browser. `Sources`: the interval of the
jobs page fires and its requests are answered or fail, and a list that arrives is
shown (`WF` of `Poll`, of the lists and of showing them). `Accounts`: the server
goes on with each request it has (`WF` of `Work(r)`), without having to fail any.

Exceptions stated in the properties. `DispatchedJobSettles` and
`InProgressHasDriver` leave out malformed URLs, whose jobs stay queued, and
forsaken jobs: after a lost dispatch, a killed child, or an except clause that
cannot reach the database a job does hang, and nothing in the code repairs it. So
does `CompleteLeadsToReady`, where the badge could not be written or its process
was killed first. `SwappedRunsExclusive` leaves out two runs that cross: where one
runs its `DELETE` before the other commits, neither sees the other's last
documents. `CompleteIsSearchable` speaks
of jobs whose ingest task was delivered once: after a redelivery a job is
"complete" while its second run still adds documents. `KilledIsRefused` leaves
out the last second of a token's life, in which it is still accepted and the
denylist key has gone. `ViewIsCurrent` and `RailIsOfLastAnswer` leave out a view
that was changed under a running answer: then the answer's "done" does set the
conversation and the sources of a view it does not belong to. Of the rest,
`ViewIsCurrent` leaves out a question that began a new chat and lost its stream
before its "done" (it stays on the screen, with its notice, while the next one gets
a conversation of its own), and `RailIsOfLastAnswer` an empty screen whose
conversation was deleted between the two queries of its load. `GhostsAreLate`
leaves out replies under way at the wipe, and a wipe whose reply is lost.
`StartedShowsIndexing` needs the list of jobs in full, and no job of the workspace
that has ever failed: a list read while a job was cancelled goes on to say so when
its task has taken that back. `JobsPageConverges` begins when the tasks have ended.
`WithinPlan` leaves out creations that counted beside another one of their user:
two together do pass the limit. `NameIsScope` leaves out a tab whose localStorage
another tab has written since its layout was mounted. `ReuseIsExplained` speaks of
rotated tokens: a device that was logged out and refreshes counts as a replay too,
and ends later logins.

## 4. Disagreements with comments and documents

- `FailedIsFinal`: a cancelled job goes on and completes; the task never looks at
  the status it overwrites, and the revoke reaches no worker.
- `SwapIsAtomic`: "swap in same transaction", but progress commits publish the
  new documents of a repository before the old ones are deleted.
- `NotionReindexKeepsLibrary`: "delete old docs after new ones are ready", but a
  run that could read no page deletes the workspace's documents and completes.
- `LogoutAllIsFinal`: a refresh that has read its row survives a logout-all.
- `ReplayIsAccepted`: the call replayed after a refresh carries the expired token
  of localStorage, which wins over the new cookie.

These have runs. Met while modelling, and without a run of their own:

- `github.py:188` ("swap in same transaction") and `notion.py:362` do not hold
  between runs either: two overlapping runs of one source leave both generations.
  TLC refutes `SwappedRunsExclusive` without its exception.
- `engine.py:174` ("Store user message (D36: before streaming)") and `chat.py:3`
  ("user msg before, assistant after") say that the question outlives a stream that
  fails or is aborted. It is only flushed before, and committed with the answer
  (`engine.py:261`): `ExchangeIsWhole` holds, so the question is lost with the answer.
- `workspace.py:5`, `frontend/src/lib/workspace.ts:8` and `api.ts:14` say that a
  request without the header works on the user's most recent workspace. It works on
  his default one (`workspace.py:60`, as `:53` and `layout.tsx:61` say); every user
  has one, so never on the most recent. The mutant of `Fallback` does what the
  comments say, and violates `NameIsScope`.

## 5. Proofs

Ingestion, for arbitrary constants under `IngestionAssumption`: any finite or
infinite sets of jobs and users, any number of workers, executions, files and
faults of any kind, any commit interval and batch size.

- `TypeCorrect`: `Spec => []TypeOK`.
- `SwapExclusion`: `Spec => []SwappedRunsExclusive`. The property alone is not
  inductive: nothing in it says that a run which has swapped is not about to add
  another document. The inductive invariant `IndInv` has three layers.
  `ControlInv`: which execution holds which message, and none for a job not yet
  dispatched. `DocsInv`: a document belongs to the execution that made it, under
  an index it has passed, and pending documents are not committed. `SwapInv`:
  a run that has swapped is past every step that adds, and a run that is about to
  commit its delete has, unless the two cross, all that is left of an earlier one on
  its list (`doomed`). The commit then leaves nothing of it, so the later one wins.
- `ImplementsLibrary`: `Spec => DocumentsNeverReturn`, the refinement of
  `SearchableLibrary` under the mapping `DocStage`. `StageStep` classifies every
  action as a publication, an indexing batch or a stutter; `DocsInv` gives that a
  new document is unwritten: its index has never been used.
- `CompleteSearchable`: `Spec => []CompleteIsSearchable`, from `SearchIndInv`,
  which adds the roles of executions (`RoleInv`), that an embed message or task
  exists only after a run of the job has swapped (`OrderInv`), and that such a
  task's list covers every document of the job that is not embedded
  (`SearchInv`). The actions are first reduced to what they may do to messages,
  documents and lists (`MessageFacts`, `DocumentFacts`, `ListFacts`), so that
  these three layers are argued once and not action by action.
- `JobsAreDriven`: `Spec => []InProgressHasDriver`, under every fault; the jobs it
  excepts are those that a step has forsaken, not every job of a run with a fault.
  An execution that is about to be acknowledged counts in the property and does
  nothing for its job any more; `DriverInv` leaves it out. A step then goes on with a job (`GoesOn`), is
  done with it (`IsDone`), sends or takes a message (`Sends`, `Takes`) or concerns
  no driver (`StandsBy`).
- `EmbedsMeetNoConflict`, `ReindexKeepsLibrary`: `NoEmbedConflict` and
  `GithubReindexKeepsLibrary` under `Workers = 1`, with every fault (with two
  workers, as in the instance of `IngestionPool`, TLC refutes both). `SingleInv` says that
  at most one execution is alive, and that while its job has a row nobody else
  changes what it has read to embed or has committed (`Own`). The API goes on
  beside it, so the wipe is the case to argue: it takes the rows of a user's jobs
  with his documents. `StartedKept` gives that a started job keeps its user and
  that a deleted row does not return.

Sessions, under `SessionsAssumption`: any number of browsers, tabs, requests,
sessions and events, any lifetimes. `SessionInv` has a layer for types and control
(`PcInv`), for the table (`RowInv`: what is named is there), for time (`TimeInv`: a
denylist key outlives the token it denies), for forks, owners, reuse and logout-all
(`ForkInv`, `OwnerInv`, `ReuseInv`, `CutInv`). Most steps are `Quiet` for most
layers; `StepCases` lists the others, and each layer argues those only.

- `TypeCorrect`, `DenialOutlivesTheToken` (`KilledIsRefused`),
  `ForksComeFromOverlap` (`NoForkWithoutOverlap`), `ReuseHasACause`
  (`ReuseIsExplained`: a replayed token has one owner, and its browser still has
  it only while the reply that replaces it is on the way),
  `OnlyRacersOutliveLogoutAll` (`LogoutAllLeavesOnlyRacers`).

Chat, under `ChatAssumption`: any number of conversations, questions, loads,
deletes, clicks, faults and pieces of an answer, any length of the history.

- `ChatProofs`: `TypeCorrect`; `ExchangesAreWhole` (`ExchangeIsWhole`) and
  `NothingOrphaned` (`NoOrphans`) from `ServerInv`. `HolderInv` says that a
  transaction that holds its question writes to a conversation that is there and
  stays, or to a new one that nobody else has; `DoneInv` that rows are those of
  committed sends. `HistoriesAreSettled` (`HistoryIsSettled`) from
  these and `PromptInv`: no history before it is read, and its exchanges stay
  complete and in their conversation.
- `ChatViewProofs`: `StoredBubblesAreTrue` (`ShownStoredIsTrue`),
  `QuestionsGoWhereTheyShow` (`ViewIsCurrent`) and `RailShowsTheLastAnswer`
  (`RailIsOfLastAnswer`), in six layers above the server's: `ReadInv` (one body
  is read, and its events follow its generator), `SilentInv` (a bubble that an error
  ends shows its notice alone when nothing had been said), `AimInv` (where a question goes),
  `BubbleInv` and `ReplyInv` (what a bubble and a reply under way hold), `ShowInv`
  (how bubbles, conversation and rail belong together unless disturbed, and that a
  rail without its answer is that of a screen emptied by a delete, `Emptied`).

Accounts, under `AccountsAssumption`: any number of people, browsers, requests,
tokens and faults, any names, logins and plans with a limit of at least one.

- `TypeCorrect`, with `WorkInv` and `PageInv`: where requests and pages can be,
  and that what a browser knows of workspaces is committed. `Cases` reduces a step
  to a handler's, an arrival, or one that leaves the server alone; what follows
  argues these three.
- `SignupsAreWhole` (`SignupIsWhole`), from `SignupInv`: one login at a time holds
  the row of a user, and makes a team only for one who is no user yet.
- `SlugsAreLostInRacesOnly` (`SlugLostInRaceOnly`), from `SlugInv`: two requests
  that have chosen know of each other, and still do when one is committed.
- `PlansAreKept` (`WithinPlan`), from `PlanInv`: of two creations of one user one
  is counted, and while one that is not is under way there is room for it.
- `TokensReachHome` (`TokensStayHome`), `RevocationsHold` (`RevokedForGood`),
  `NamesAreScopes` (`NameIsScope`: the layout and the server resolve the workspace
  apart; that a user has exactly one default workspace, and that what the layout has
  read stays his while no other tab writes (`ReadWell`), makes them agree).

Sources, under `SourcesAssumption`: any finite sets of repositories and
workspaces, any number of jobs, polls, clicks and remembered ids, any tours.

- `GhostsTheorem` (`GhostsAreLate`) is inductive with the types of what it names:
  each step keeps the rows and the list of ids, adds one id, or moves the wipe on.
- `AnsweredTheorem` (`StartedMeansAnswered`) and `OnceTheorem`
  (`EachChosenPostedOnce`) from `SetupInv`. Alone neither is inductive: a reply of an
  earlier batch could be the last of its own. `MineInv` says that requests of the
  page that is open belong to the last batch, and exist only after its button was
  used; `OnceInv` follows as the chosen set is listed without repetition
  (`ListingOnce`).
- `NoJobTwiceTheorem` (`NoJobTwice`) and `NothingDroppedTheorem` (`NothingDropped`,
  an action property) from `ListsInv`: the ids in localStorage are a list without
  repetition (`RegistryInv`); the jobs that have a row are those listed as touched
  last (`RowInv`); a poll under way holds such lists of both (`PollsInv`). What
  replaces the list on the screen is then the server's list and after it the stored
  ids that list does not have, and no others.
- `NewestTheorem` (`RegistryKeepsNewest`) from `EverInv`: the stored list is the
  beginning of all ids registered since it was cleared (`ever`, which nothing cuts
  and no id leaves). That is so because no id is registered twice: the reply to a
  request is heard once, and the id in the url is registered when the page is first
  rendered (`EverRegisters`).
- `StartedTheorem` (`StartedShowsIndexing`): the row of a workspace stays
  "indexing" although documents, jobs and connections are read at three times.
  Alone it says nothing of the cached list before the reply arrives. `StartedInv`
  says that a list which is loaded while the job runs has the job, or is cut off, and
  shows no failure but of jobs that have failed (`TaskInv`: `fell` has them all, and
  a task that completes its job ends). It rests on `PageInv`, that is, on how requests
  and rows go together (`CallInv`: a request not yet answered has no row; an id is
  registered after the reply), and on `StepMoves`: what a step does to requests,
  rows, ids and caches, shown once for each action (`PageMoves`).
- `SourcesTypeTheorem` (`SourcesTypeOK`) is a part of `PageInv`. That a POST of
  several sources gets as many different unused ids, as `NextIds` picks them, is
  `LeastExist`.

Lists are filtered with `Only`, a recursive function over the positions, where a
recursive operator would be out of reach. Facts about it, and about the n least ids,
are by induction, over the *set* of the numbers for which they hold: that natural
numbers are well-founded gives the least number outside it (`LeastNatural`,
`Induction`). No induction theorem with an operator as its parameter is used.

Every safety property that a passing run checks is thus a theorem, under
`Workers = 1` where that is said. Only model-checked, because temporal
reasoning under fairness and `ENABLED` are out of the prover's reach, are the
liveness properties `DispatchedJobSettles`, `CompleteLeadsToReady`,
`StreamingEnds`, `JobsPageConverges` and `RequestsEnd`.

## 6. Not modelled, and what is left

- Pure algorithms: the fixed-size chunk window, retry, pagination, block recursion
  and the line-to-block map of Notion, deduplication and formatting of MCP
  results. They have no state and no interleaving; worth comparing with reference
  definitions over bounded inputs.
- MCP transport: a request sets its caller in context variables of its own task,
  which is what keeps callers apart, and that is asyncio's doing.
- The provider side of connections (OAuth exchange, token upsert, GitHub), the
  debug-only disconnect, the change of a workspace's name, `apiStream`'s copy of
  the renewal.
- The retriever's ranking (one SQL query), tree-sitter chunking (the grammars are
  outside the repository), text heuristics of outputs, rendering, logging,
  configuration, encryption.
- Compositions to come: `Ingestion` with the connections and the token that its
  messages carry; `Chat` and `Sources` with a switch of the workspace.
