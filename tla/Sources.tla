-------------------------------- MODULE Sources -------------------------------
(***************************************************************************)
(* What a user sees of the sources he indexes, and how he changes it: the  *)
(* pages connections, jobs, onboarding and the wipe of the settings page   *)
(* (frontend/src/app), the list of job ids they share in localStorage, and *)
(* the routes they call (backend/api/routes/ingest.py, providers.py,       *)
(* admin.py).  The tasks behind the jobs are those of module Ingestion and *)
(* appear here as what they do to status and documents.                    *)
(*                                                                         *)
(* A page keeps snapshots of the server's state, each read at its own time *)
(* and shown until the next one arrives.  Going to another page drops the  *)
(* state of its component; promises that are pending run on.               *)
(***************************************************************************)
EXTENDS Integers, Sequences, FiniteSets

CONSTANTS
    Repos,         \* GitHub repositories
    Spaces,        \* Notion workspaces
    MaxJobs,       \* bound: ids of jobs
    MaxPolls,      \* bound: polls of the jobs page in flight
    Keep,          \* ids the browser remembers, 20 in the code
    Tours          \* bound: what one behaviour may do: the pages it visits, the
                   \* clicks and failed requests in it, the jobs it makes, the
                   \* limit of a list of jobs, 50 in the code, and whether it
                   \* finds a job of an earlier visit

Default == "default"            \* the workspace id a re-run posts
Sources == Repos \cup Spaces
Jobs == 1..MaxJobs
NoJob == 0

ASSUME SourcesAssumption ==
    /\ Repos \cap Spaces = {} /\ IsFiniteSet(Sources)
    /\ Default \notin Sources
    /\ MaxJobs \in Nat /\ MaxPolls \in Nat
    /\ \A t \in Tours : DOMAIN t = {"pages", "clicks", "jobs", "limit", "past"}
    /\ \A t \in Tours :
        t.clicks \in Nat /\ t.jobs \in 0..MaxJobs /\ t.limit \in Nat \ {0}
    /\ Keep \in Nat \ {0}

VARIABLES
    \* the server
    status,     \* job -> its row's status
    recent,     \* the rows, the one updated last first
    docs,       \* sources with documents
    wired,      \* connected workspaces
    busy,       \* jobs with a task that is queued or runs
    \* requests for a job, and the others
    call,       \* job -> the request that made it
    cancels,    \* jobs whose cancel is under way
    unplug,     \* workspace -> whether its disconnect is under way
    grant,      \* the workspace whose connection the OAuth callback stored
    wiping,     \* the wipe of the library
    \* the browser
    registry,   \* engram_job_ids
    page,       \* the page that is open
    param,      \* ?notion_indexing of the connections page
    up,         \* whether the connections page has been rendered
    docCache,   \* documentsPromise
    jobCache,   \* jobsPromise
    spaces,     \* notionWorkspaces
    asking,     \* whether a list of the providers is under way
    extra,      \* extraRepos
    polls,      \* polls in flight
    shown,      \* jobs
    setup,      \* the onboarding page
    leaving,    \* its timer that goes to the chat
    \* bookkeeping of the model
    fell,       \* jobs that were "failed" at some time
    ever,       \* calls of registerJob since the list was last cleared, newest first
    late,       \* ids registered when their row was gone
    unheard,    \* a wipe was done and its reply did not arrive
    batch,      \* times that indexing was started from the onboarding page
    clicks,     \* clicks and failures so far
    tour        \* what this behaviour may do

serverVars == <<status, recent, docs, wired, busy, fell>>
askVars == <<call, cancels, unplug, grant, wiping>>
registryVars == <<registry, ever, late>>
connVars == <<param, up, docCache, jobCache, spaces, asking, extra>>
jobsVars == <<polls, shown>>
setupVars == <<setup, leaving, batch>>
sourcesVars == <<serverVars, askVars, registryVars, page, connVars, jobsVars,
                 setupVars, unheard, clicks, tour>>

Pages == {"connections", "jobs", "setup", "settings", "chat", "dashboard",
          "notion"}
AppPages == {"connections", "jobs", "settings", "chat", "dashboard"}
Makers == {"nobody", "add", "index", "all", "space", "rerun", "setup"}
Stations == {"running", "complete", "failed"}
Entries == [id : Jobs, station : Stations]

NoCall == [by |-> "nobody", src |-> Default, phase |-> "unused",
           here |-> FALSE, batch |-> 0]
\* A request whose reply needs no further attention; who made it is of interest as
\* long as its page is open.
Over(c) == IF c.here /\ c.by \in {"space", "setup"} THEN [c EXCEPT !.phase = "over"]
           ELSE [NoCall EXCEPT !.phase = "over", !.src = c.src]
Unknown == [known |-> FALSE, set |-> {}]
NoSetup == [st |-> "none", first |-> {}, offered |-> {}, chosen |-> {}]

\* The two promises of the connections page: not there, pending, or resolved.
Empty(v) == [st |-> "none", val |-> v]
Asked(v) == [st |-> "asked", val |-> v]
Loaded(v) == [st |-> "loaded", val |-> v]
Failed(v) == [st |-> "failed", val |-> v]
States == {"none", "asked", "loaded", "failed"}
Settled(cache) == cache.st \in {"loaded", "failed"}

SourcesTypeOK ==
    /\ status \in [Jobs -> Stations \cup {"none"}]
    /\ recent \in Seq(Jobs)
    /\ docs \subseteq Sources
    /\ wired \subseteq Spaces
    /\ busy \subseteq Jobs /\ fell \subseteq Jobs
    /\ call \in [Jobs -> [by : Makers, src : Sources \cup {Default},
                          phase : {"unused", "sent", "accepted", "refused",
                                   "over"},
                          here : BOOLEAN, batch : Nat]]
    /\ cancels \subseteq Jobs
    /\ unplug \in [Spaces -> {"no", "asked", "apart", "deaf"}]
    /\ grant \subseteq Spaces /\ Cardinality(grant) <= 1
    /\ wiping \in {"no", "asked", "deaf", "done"}
    /\ registry \in Seq(Jobs) /\ Len(registry) <= Keep
    /\ page \in Pages
    /\ param \in Jobs \cup {NoJob}
    /\ up \in BOOLEAN
    /\ docCache \in [st : States, val : SUBSET Sources]
    /\ jobCache \in [st : States, val : Seq(Entries)]
    /\ spaces \in [known : BOOLEAN, set : SUBSET Spaces]
    /\ asking \in BOOLEAN
    /\ extra \in Seq(Repos)
    /\ Cardinality(polls) <= MaxPolls
    /\ \A p \in polls :
        /\ DOMAIN p = {"listed", "stored", "list"}
        /\ p.listed \in BOOLEAN /\ p.stored \in Seq(Jobs) /\ p.list \in Seq(Entries)
    /\ shown \in Seq(Entries)
    /\ setup \in [st : {"none", "loading", "error", "ready", "posting", "done"},
                  first : SUBSET Spaces, offered : SUBSET Sources,
                  chosen : SUBSET Sources]
    /\ leaving \in BOOLEAN
    /\ ever \in Seq(Jobs)
    /\ late \subseteq Jobs
    /\ unheard \in BOOLEAN
    /\ batch \in Nat
    /\ tour \in Tours
    /\ clicks \in 0..tour.clicks

\* What an earlier visit left: no job, or the cancelled one of a workspace, whose
\* task has not ended.
Before ==
    \/ /\ status = [j \in Jobs |-> "none"] /\ recent = <<>>
       /\ busy = {} /\ fell = {}
       /\ call = [j \in Jobs |-> NoCall]
    \/ \E w \in wired, first \in Jobs :
        /\ tour.past /\ first = 1
        /\ status = [j \in Jobs |-> IF j = first THEN "failed" ELSE "none"]
        /\ recent = <<first>> /\ busy = {first} /\ fell = {first}
        /\ call = [j \in Jobs |-> IF j = first
                                  THEN [NoCall EXCEPT !.src = w, !.phase = "over"]
                                  ELSE NoCall]

\* The user opens any page of the console; a workspace may have been connected
\* without a job (OAuth callback, between its two commits).
SourcesInit ==
    /\ tour \in Tours /\ wired \in SUBSET Spaces /\ docs = {}
    /\ Before
    /\ cancels = {} /\ unplug = [w \in Spaces |-> "no"] /\ grant = {} /\ wiping = "no"
    /\ registry = <<>> /\ ever = <<>> /\ late = {}
    /\ page \in (AppPages \cup {"setup"}) \cap tour.pages
    /\ param = NoJob /\ up = FALSE
    /\ docCache = IF page = "connections" THEN Asked({}) ELSE Empty({})
    /\ jobCache = Empty(<<>>)
    /\ spaces = Unknown /\ asking = FALSE /\ extra = <<>>
    /\ polls = {} /\ shown = <<>>
    /\ setup = IF page = "setup" THEN [NoSetup EXCEPT !.st = "loading"] ELSE NoSetup
    /\ leaving = FALSE
    /\ unheard = FALSE /\ batch = 0 /\ clicks = 0

------------------------------------------------------------------------------
(* Sequences                                                               *)

SetOf(q) == {q[i] : i \in DOMAIN q}
\* The elements of q that are in S, in their order.
Only(q, S) ==
    LET upTo[n \in 0..Len(q)] ==
            IF n = 0 THEN <<>>
            ELSE IF q[n] \in S THEN Append(upTo[n - 1], q[n]) ELSE upTo[n - 1]
    IN  upTo[Len(q)]
Without(q, x) == Only(q, Jobs \ {x})
Prefix(q, n) == SubSeq(q, 1, IF Len(q) < n THEN Len(q) ELSE n)
Listing(S) ==
    CHOOSE q \in [1..Cardinality(S) -> S] : \A x \in S : \E i \in DOMAIN q : q[i] = x

ListLimit == tour.limit

Click == clicks < tour.clicks /\ clicks' = clicks + 1

------------------------------------------------------------------------------
(* localStorage                                                            *)

\* Mutant of RegisterJob: the id goes to the end of the list.
RegisterJobLast(q, j) == IF j \in SetOf(q) THEN q ELSE Prefix(Append(q, j), Keep)

\* Mutant of RegisterJob: the list is not cut.
RegisterJobAll(q, j) == IF j \in SetOf(q) THEN q ELSE <<j>> \o q

\* registerJob: the newest Keep ids, newest first, none twice.
RegisterJob(q, j) == IF j \in SetOf(q) THEN q ELSE Prefix(<<j>> \o q, Keep)

Remember(j) ==
    /\ registry' = RegisterJob(registry, j)
    /\ ever' = <<j>> \o ever
    /\ late' = IF j \notin SetOf(registry) /\ status[j] = "none"
               THEN late \cup {j} ELSE late

------------------------------------------------------------------------------
(* Opening pages                                                           *)

\* The component that posted is gone; the continuation of its request is not.
Apart(c) == [j \in Jobs |-> IF c[j].phase = "over" THEN Over([c[j] EXCEPT !.here = FALSE])
                            ELSE [c[j] EXCEPT !.here = FALSE]]

Part ==
    /\ call' = Apart(call)
    /\ unplug' = [w \in Spaces |-> IF unplug[w] = "asked" THEN "apart" ELSE unplug[w]]

\* A page is mounted, given the two caches.  The connections page asks for what
\* is not cached, documents first; when it has both it is rendered, and only then
\* does it ask for the providers.
Open(p, d, n) ==
    LET shows == p = "connections" /\ Settled(d) /\ Settled(n) IN
    /\ page' = p
    /\ docCache' = IF p = "connections" /\ d.st = "none" THEN Asked({}) ELSE d
    /\ jobCache' = IF p = "connections" /\ Settled(d) /\ n.st = "none"
                   THEN Asked(<<>>) ELSE n
    /\ up' = shows
    /\ asking' = shows
    /\ spaces' = Unknown
    /\ extra' = <<>>
    /\ polls' = {}
    /\ shown' = <<>>
    /\ setup' = IF p = "setup" THEN [NoSetup EXCEPT !.st = "loading"] ELSE NoSetup

\* The document is left: what runs in it hears nothing any more.
Deafen ==
    /\ call' = Apart([j \in Jobs |->
                 CASE call[j].phase = "sent" -> [call[j] EXCEPT !.by = "nobody"]
                   [] call[j].phase = "refused" -> NoCall
                   [] call[j].phase = "accepted" -> Over(call[j])
                   [] OTHER -> call[j]])
    /\ unplug' = [w \in Spaces |-> IF unplug[w] = "no" THEN "no" ELSE "deaf"]
    /\ leaving' = FALSE

Unload ==
    /\ Deafen
    /\ wiping' = CASE wiping = "asked" -> "deaf"
                   [] wiping = "done" -> "no"
                   [] OTHER -> wiping
    /\ unheard' = (unheard \/ wiping = "done")

\* What the next page finds of a cache: an invalidated one is not there.
Kept(cache, nothing) == IF cache.st = "none" THEN Empty(nothing) ELSE cache

\* The links of the sidebar; the onboarding page is reached over the dashboard
\* and has a way back to it.
Go(p) ==
    /\ Click
    /\ p \in tour.pages
    /\ \/ page \in AppPages /\ p \in AppPages \ {page}
       \/ page = "dashboard" /\ p = "setup"
       \/ page = "setup" /\ p = "dashboard"
    /\ Open(p, Kept(docCache, {}), Kept(jobCache, <<>>))
    /\ param' = NoJob
    /\ Part
    /\ UNCHANGED <<serverVars, cancels, grant, wiping, registryVars, leaving,
                   batch, unheard>>

------------------------------------------------------------------------------
(* Requests for jobs                                                       *)

\* The next ids for n requests.
Unused == {j \in 1..tour.jobs : call[j].phase = "unused"}
NextIds(n) ==
    CHOOSE q \in [1..n -> Unused] :
        /\ \A i, k \in 1..n : i < k => q[i] < q[k]
        /\ \A i \in 1..n, j \in Unused : j < q[i] => \E k \in 1..n : q[k] = j

\* One POST for each source of a sequence.
Post(q, maker, number) ==
    /\ Len(q) <= Cardinality(Unused)
    /\ LET ids == NextIds(Len(q)) IN
       call' = [j \in Jobs |->
                  IF \E i \in DOMAIN q : ids[i] = j
                  THEN [by |-> maker, src |-> q[CHOOSE i \in DOMAIN q : ids[i] = j],
                        phase |-> "sent", here |-> TRUE, batch |-> number]
                  ELSE call[j]]

Touch(j) == recent' = <<j>> \o Without(recent, j)

\* ingest_github and ingest_notion: the row; a workspace must be connected.
Accept(j) ==
    /\ call[j].phase = "sent"
    /\ call[j].src \in Repos \cup wired
    /\ call' = [call EXCEPT ![j] = IF call[j].by = "nobody" THEN Over(@)
                                  ELSE [@ EXCEPT !.phase = "accepted"]]
    /\ status' = [status EXCEPT ![j] = "running"]
    /\ Touch(j)
    /\ busy' = busy \cup {j}
    /\ UNCHANGED <<docs, wired, fell, cancels, unplug, grant, wiping, registryVars,
                   page, connVars, jobsVars, setupVars, unheard, clicks>>

Refuse(j) ==
    /\ call[j].phase = "sent"
    /\ \/ call[j].src \notin Repos \cup wired /\ UNCHANGED clicks
       \/ Click
    /\ call' = [call EXCEPT ![j] = IF call[j].by = "nobody" THEN NoCall
                                  ELSE [@ EXCEPT !.phase = "refused"]]
    /\ UNCHANGED <<serverVars, cancels, unplug, grant, wiping, registryVars, page,
                   connVars, jobsVars, setupVars, unheard>>

\* The row of a job is written.
Write(j, s) ==
    /\ status' = [status EXCEPT ![j] = s]
    /\ fell' = IF s = "failed" THEN fell \cup {j} ELSE fell
    /\ Touch(j)

\* What a step of the task leaves of the source's documents: as they are, more of
\* them, or, after a workspace none of whose pages could be read, none.
DocsAfter(j) ==
    {docs, docs \cup {call[j].src}}
      \cup (IF call[j].src \in Spaces THEN {docs \ {call[j].src}} ELSE {})

\* What the task of a job does (module Ingestion; its redeliveries are left out):
\* progress, documents, an end.  It never looks at the status it overwrites: the
\* task of a cancelled job goes on, and a wipe takes its row but not the documents
\* it has yet to commit.  A failure is reported, or the report fails too.
Work(j) ==
    /\ j \in busy
    /\ docs' \in DocsAfter(j)
    /\ \E s \in Stations, ends \in BOOLEAN :
        /\ s = "complete" => ends
        /\ s = "failed" => ends \/ status[j] = "failed"
        /\ IF s = "running" /\ ends THEN Click ELSE UNCHANGED clicks
        /\ busy' = IF ends THEN busy \ {j} ELSE busy
        /\ IF status[j] = "none" THEN UNCHANGED <<status, fell, recent>>
           ELSE Write(j, s)
    /\ UNCHANGED <<wired, askVars, registryVars, page, connVars, jobsVars,
                   setupVars, unheard>>

\* A render of the connections page asks again for what was invalidated.
Render ==
    IF docCache.st = "none" /\ page = "connections"
    THEN docCache' = Asked({}) /\ jobCache' = Empty(<<>>)
    ELSE UNCHANGED <<docCache, jobCache>>

\* invalidateDocuments and invalidateJobs, then a new render when the component
\* that calls them is still there; otherwise the screen of its successor stays.
Invalidate(here) ==
    IF page = "connections" /\ up
    THEN IF here THEN docCache' = Asked({}) /\ jobCache' = Empty(<<>>)
         ELSE docCache' = Empty(docCache.val) /\ jobCache' = Empty(jobCache.val)
    ELSE /\ docCache' = IF page = "connections" THEN Asked({}) ELSE Empty({})
         /\ jobCache' = Empty(<<>>)

\* Mutant of HearSpace: the caches of the page stay.
HearSpaceCached(j) == Remember(j) /\ UNCHANGED <<docCache, jobCache>>

\* handleIndexNotion goes on.
HearSpace(j) == Remember(j) /\ Invalidate(call[j].here)

\* handleReindex goes on: its feedback is a render.
HearIndex(j) ==
    /\ Remember(j)
    /\ IF call[j].here THEN Render ELSE UNCHANGED <<docCache, jobCache>>

\* Mutant of BatchEnds: the first reply is enough.
BatchEndsFirst(j) == TRUE

\* Promise.allSettled of startIndexing: no other request of the batch is open.
BatchEnds(j) ==
    \A k \in Jobs \ {j} :
        call[k].by = "setup" /\ call[k].batch = call[j].batch =>
            call[k].phase = "over"

\* startIndexing goes on, also when the user has left the page: done, and a timer
\* that leads to the chat.
HearSetup(j) ==
    IF BatchEnds(j)
    THEN /\ leaving' = TRUE
         /\ setup' = IF call[j].here
                     THEN [setup EXCEPT !.st = "done"] ELSE setup
    ELSE UNCHANGED <<leaving, setup>>

\* The reply of a POST: the id is registered, whatever page is open; after an
\* error, or a reply that is lost, it is not.
HearCall(j) ==
    /\ call[j].phase \in {"accepted", "refused"}
    /\ \E lost \in BOOLEAN :
        /\ IF lost THEN call[j].phase = "accepted" /\ Click ELSE UNCHANGED clicks
        /\ call' = [call EXCEPT ![j] =
                      IF @.phase = "refused" THEN NoCall ELSE Over(@)]
        /\ IF lost \/ call[j].phase = "refused"
           THEN UNCHANGED <<registryVars, docCache, jobCache>>
           ELSE IF call[j].by = "space" THEN HearSpace(j)
           ELSE IF call[j].by = "index" THEN HearIndex(j)
           ELSE Remember(j) /\ UNCHANGED <<docCache, jobCache>>
        /\ IF call[j].by = "setup" THEN HearSetup(j) ELSE UNCHANGED <<leaving, setup>>
    /\ UNCHANGED <<serverVars, cancels, unplug, grant, wiping, page, param, up,
                   spaces, asking, extra, jobsVars, batch, unheard>>


------------------------------------------------------------------------------
(* The connections page                                                    *)

Visible ==
    /\ page = "connections" /\ up
    /\ docCache.st \in {"none", "loaded", "failed"}
    /\ jobCache.st \in {"none", "loaded", "failed"}

Entry(j) == [id |-> j, station |-> status[j]]
Listed(q) == [i \in DOMAIN q |-> Entry(q[i])]

\* list_jobs without the completed ones.
OpenJobs == Listed(Prefix(Only(recent, {j \in Jobs : status[j] # "complete"}), ListLimit))

\* GET /api/documents/ resolves; the page goes on to ask for the jobs.
LoadDocs ==
    /\ docCache.st = "asked"
    /\ \/ docCache' = Loaded(docs) /\ UNCHANGED clicks
       \/ docCache' = Failed({}) /\ Click
    /\ jobCache' = IF page = "connections" THEN Asked(<<>>) ELSE jobCache
    /\ UNCHANGED <<serverVars, askVars, registryVars, page, param, up, spaces,
                   asking, extra, jobsVars, setupVars, unheard>>

\* GET /api/ingest/jobs resolves; at the first render the page registers the job
\* of its url, whose list is then out of date, and asks for the providers.
LoadJobList ==
    /\ jobCache.st = "asked"
    /\ \E list \in {Loaded(OpenJobs), Failed(<<>>)} :
        /\ IF list.st = "failed" THEN Click ELSE UNCHANGED clicks
        /\ IF page = "connections" /\ ~up
           THEN /\ up' = TRUE
                /\ asking' = TRUE
                /\ IF param = NoJob
                   THEN jobCache' = list /\ UNCHANGED registryVars
                   ELSE jobCache' = Asked(<<>>) /\ Remember(param)
           ELSE jobCache' = list /\ UNCHANGED <<registryVars, up, asking>>
    /\ UNCHANGED <<serverVars, askVars, page, param, docCache, spaces, extra,
                   jobsVars, setupVars, unheard>>

\* The window gets the focus.
Focus ==
    /\ Click
    /\ page = "connections" /\ up
    /\ Invalidate(TRUE)
    /\ UNCHANGED <<serverVars, askVars, registryVars, page, param, up, spaces,
                   asking, extra, jobsVars, setupVars, unheard>>

\* refreshNotionWorkspaces resolves; an error looks like "none connected".  Lists
\* of the providers that overtake each other are left out.
ShowProviders ==
    /\ asking
    /\ asking' = FALSE
    /\ \/ spaces' = [known |-> TRUE, set |-> wired] /\ UNCHANGED clicks
       \/ spaces' = [known |-> TRUE, set |-> {}] /\ Click
    /\ Render
    /\ UNCHANGED <<serverVars, askVars, registryVars, page, param, up, extra,
                   jobsVars, setupVars, unheard>>

\* groupDocuments and mergeJobsIntoGroups for repositories, and the added ones.
JobSources == {call[jobCache.val[i].id].src : i \in DOMAIN jobCache.val}
RepoRows ==
    LET grouped == docCache.val \cap Repos IN
    Listing(grouped) \o Listing((JobSources \cap Repos) \ grouped) \o extra

\* The job of a workspace that was updated last.
LatestOf(w) ==
    LET of == {i \in DOMAIN jobCache.val : call[jobCache.val[i].id].src = w}
    IN  jobCache.val[CHOOSE i \in of : \A k \in of : i <= k]

SpaceRow(w, kind) ==
    [of |-> w, kind |-> kind,
     st |-> IF kind = "connected" \/ w \notin JobSources THEN "fresh"
            ELSE IF LatestOf(w).station = "failed" THEN "error" ELSE "indexing"]

\* Workspaces with documents, those with a job, and those that are connected.
NotionRows ==
    LET grouped == {SpaceRow(w, "documents") : w \in docCache.val \cap Spaces}
        inFlight == {SpaceRow(w, "job") :
                       w \in (JobSources \cap Spaces) \ docCache.val}
        inRows == {r.of : r \in grouped \cup inFlight}
    IN  grouped \cup inFlight
          \cup {SpaceRow(w, "connected") : w \in spaces.set \ inRows}

\* What ConnectionsContent lays out: the rows of the two tables, with their buttons,
\* and whether the button of the second one connects another workspace.
Tables ==
    [repos |-> SetOf(RepoRows), spaces |-> {r.of : r \in NotionRows},
     another |-> spaces.set # {}]

\* handleAddRepo: the row, and what the page knows is invalid, before the reply.
AddRepo(r) ==
    /\ Click
    /\ Visible
    /\ Post(<<r>>, "add", 0)
    /\ extra' = Append(extra, r)
    /\ Invalidate(TRUE)
    /\ UNCHANGED <<serverVars, cancels, unplug, grant, wiping, registryVars, page,
                   param, up, spaces, asking, jobsVars, setupVars, unheard>>

\* handleReindex of a row.
Reindex(r) ==
    /\ Click
    /\ Visible
    /\ r \in Tables.repos
    /\ Post(<<r>>, "index", 0)
    /\ UNCHANGED <<serverVars, cancels, unplug, grant, wiping, registryVars, page,
                   connVars, jobsVars, setupVars, unheard>>

\* handleIndexNotion of a row, connected or not.
IndexSpace(w) ==
    /\ Click
    /\ Visible
    /\ w \in Tables.spaces
    /\ Post(<<w>>, "space", 0)
    /\ UNCHANGED <<serverVars, cancels, unplug, grant, wiping, registryVars, page,
                   connVars, jobsVars, setupVars, unheard>>

\* reindex --all: each row of a repository, each connected workspace.
ReindexAll ==
    /\ Click
    /\ Visible
    /\ Post(RepoRows \o Listing(spaces.set), "all", 0)
    /\ UNCHANGED <<serverVars, cancels, unplug, grant, wiping, registryVars, page,
                   connVars, jobsVars, setupVars, unheard>>

AskDisconnect(w) ==
    /\ Click
    /\ Visible
    /\ w \in Tables.spaces
    /\ unplug[w] = "no"
    /\ unplug' = [unplug EXCEPT ![w] = "asked"]
    /\ UNCHANGED <<serverVars, call, cancels, grant, wiping, registryVars, page,
                   connVars, jobsVars, setupVars, unheard>>

\* disconnect_notion, and handleDisconnectWorkspace with its reply; an error
\* changes nothing.
Disconnect(w) ==
    /\ unplug[w] # "no"
    /\ unplug' = [unplug EXCEPT ![w] = "no"]
    /\ \/ /\ wired' = wired \ {w}
          /\ CASE unplug[w] = "asked" -> asking' = TRUE /\ Invalidate(TRUE)
               [] unplug[w] = "apart" -> Invalidate(FALSE) /\ UNCHANGED asking
               [] OTHER -> UNCHANGED <<docCache, jobCache, asking>>
          /\ UNCHANGED clicks
       \/ Click /\ UNCHANGED <<wired, docCache, jobCache, asking>>
    /\ UNCHANGED <<status, recent, docs, busy, fell, call, cancels, grant, wiping,
                   registryVars, page, param, up, spaces, extra, jobsVars,
                   setupVars, unheard>>

\* What OnboardingPage has to click: nothing while it loads, a retry after an error,
\* else the cards of the providers and, once, the button that starts.
SetupScreen ==
    CASE setup.st \in {"none", "loading"} -> {}
      [] setup.st = "error" -> {"retry"}
      [] setup.st = "ready" /\ setup.chosen # {} -> {"cards", "start indexing"}
      [] OTHER -> {"cards"}

\* ProviderCard: a provider that is connected has a box for each resource that
\* came, one that is not has the button that connects it.
Boxes == IF "cards" \in SetupScreen THEN setup.offered ELSE {}
ConnectButton == "cards" \in SetupScreen /\ setup.first = {}

\* handleConnectNotion, connectProvider: off to Notion.
Connect ==
    /\ Click
    /\ "notion" \in tour.pages
    /\ Visible \/ ConnectButton
    /\ Unload
    /\ Open("notion", Empty({}), Empty(<<>>))
    /\ param' = NoJob
    /\ UNCHANGED <<serverVars, cancels, grant, registryVars, batch>>

\* notion_callback stores the connection in a transaction of its own, ...
GrantSpace(w) ==
    /\ page = "notion" /\ grant = {}
    /\ grant' = {w}
    /\ wired' = wired \cup {w}
    /\ UNCHANGED <<status, recent, docs, busy, fell, call, cancels, unplug, wiping,
                   registryVars, page, connVars, jobsVars, setupVars, unheard,
                   clicks>>

\* ... then the job, and sends the browser to the connections page.
GrantJob(j) ==
    /\ page = "notion" /\ grant # {}
    /\ j \in Unused /\ \A k \in Unused : j <= k
    /\ call' = [call EXCEPT ![j] = Over([NoCall EXCEPT !.src = CHOOSE w \in grant : TRUE])]
    /\ status' = [status EXCEPT ![j] = "running"]
    /\ Touch(j)
    /\ busy' = busy \cup {j}
    /\ grant' = {}
    /\ param' = j
    /\ Open("connections", Empty({}), Empty(<<>>))
    /\ UNCHANGED <<docs, wired, fell, cancels, unplug, wiping, registryVars, leaving,
                   batch, unheard, clicks>>

\* Notion or the callback fails, or the user turns back, at any point.
AbandonGrant ==
    /\ Click
    /\ page = "notion"
    /\ grant' = {}
    /\ Open("connections", Empty({}), Empty(<<>>))
    /\ UNCHANGED <<serverVars, call, cancels, unplug, wiping, registryVars, param,
                   leaving, batch, unheard>>

------------------------------------------------------------------------------
(* The jobs page                                                           *)

\* list_jobs with the completed ones.
AllJobs == Listed(Prefix(recent, ListLimit))

\* What a poll shows that got a list: after it the stored ids it does not have,
\* each with its own status; a job that is gone, or a request that fails, "failed".
Missing(stored, list) ==
    Only(stored, Jobs \ {list[i].id : i \in DOMAIN list})
Stray(j, broken) ==
    [id |-> j, station |-> IF status[j] = "none" \/ j \in broken THEN "failed"
                           ELSE status[j]]

\* Mutant of JobList: the list of the server is not looked at.
JobListTwice(stored, list, broken) ==
    list \o [i \in DOMAIN stored |-> Stray(stored[i], broken)]

\* Mutant of JobList: a status that cannot be fetched is left out.
JobListDrops(stored, list, broken) ==
    LET more == Only(Missing(stored, list),
                     {j \in Jobs \ broken : status[j] # "none"})
    IN  list \o [i \in DOMAIN more |-> Stray(more[i], broken)]

JobList(stored, list, broken) ==
    LET more == Missing(stored, list)
    IN  list \o [i \in DOMAIN more |-> Stray(more[i], broken)]

Started == [listed |-> FALSE, stored |-> registry, list |-> <<>>]

\* Mutant of Poll: the interval ends when no job on the screen is running.
PollWhileRunning ==
    /\ page = "jobs"
    /\ Cardinality(polls) < MaxPolls
    /\ shown = <<>> \/ \E i \in DOMAIN shown : shown[i].station = "running"
    /\ polls' = polls \cup {Started}
    /\ UNCHANGED <<serverVars, askVars, registryVars, page, connVars, shown,
                   setupVars, unheard, clicks>>

\* fetchJobs, at mount, every five seconds, and after a cancel or a re-run, whether
\* or not the one before has ended.
Poll ==
    /\ page = "jobs"
    /\ Cardinality(polls) < MaxPolls
    /\ polls' = polls \cup {Started}
    /\ UNCHANGED <<serverVars, askVars, registryVars, page, connVars, shown,
                   setupVars, unheard, clicks>>

\* The list of a poll resolves, or fails and counts as empty.
ListJobs(p) ==
    /\ ~p.listed
    /\ \E failed \in BOOLEAN :
        /\ IF failed THEN Click ELSE UNCHANGED clicks
        /\ polls' = (polls \ {p}) \cup
             {[p EXCEPT !.listed = TRUE, !.list = IF failed THEN <<>> ELSE AllJobs]}
    /\ UNCHANGED <<serverVars, askVars, registryVars, page, connVars, shown,
                   setupVars, unheard>>

\* Its status requests resolve, and it is shown.
ShowJobs(p) ==
    /\ p.listed
    /\ \E broken \in SUBSET SetOf(Missing(p.stored, p.list)) :
        /\ IF broken = {} THEN UNCHANGED clicks ELSE Click
        /\ shown' = JobList(p.stored, p.list, broken)
    /\ polls' = polls \ {p}
    /\ UNCHANGED <<serverVars, askVars, registryVars, page, connVars, setupVars,
                   unheard>>

\* The button JobsPageInner has for the job that is selected.
Button(i) ==
    CASE shown[i].station = "running" -> "cancel job"
      [] shown[i].station = "failed" -> "re-run job"
      [] OTHER -> "none"

\* cancel job, offered for a job that shows as running.
Cancel(i) ==
    /\ Click
    /\ Button(i) = "cancel job"
    /\ cancels' = cancels \cup {shown[i].id}
    /\ UNCHANGED <<serverVars, call, unplug, grant, wiping, registryVars, page,
                   connVars, jobsVars, setupVars, unheard>>

\* cancel_job: a finished job stays as it is; the task of another is not stopped.
ServeCancel(j) ==
    /\ j \in cancels
    /\ cancels' = cancels \ {j}
    /\ IF status[j] = "running" THEN Write(j, "failed")
       ELSE UNCHANGED <<status, fell, recent>>
    /\ UNCHANGED <<docs, wired, busy, call, unplug, grant, wiping, registryVars, page,
                   connVars, jobsVars, setupVars, unheard, clicks>>

\* re-run job, offered for a failed one: its repository, or a workspace "default".
Rerun(i) ==
    /\ Click
    /\ Button(i) = "re-run job"
    /\ LET src == call[shown[i].id].src IN
       Post(<<IF src \in Repos THEN src ELSE Default>>, "rerun", 0)
    /\ UNCHANGED <<serverVars, cancels, unplug, grant, wiping, registryVars, page,
                   connVars, jobsVars, setupVars, unheard>>

------------------------------------------------------------------------------
(* The onboarding page                                                     *)

\* loadProviders: github always, of notion the first workspace only.
LoadProviders ==
    /\ setup.st = "loading"
    /\ \/ /\ \E f \in IF wired = {} THEN {{}} ELSE {{w} : w \in wired} :
                setup' = [setup EXCEPT !.st = "ready", !.first = f]
          /\ UNCHANGED clicks
       \/ setup' = [setup EXCEPT !.st = "error"] /\ Click
    /\ UNCHANGED <<serverVars, askVars, registryVars, page, connVars, jobsVars,
                   leaving, batch, unheard>>

Retry ==
    /\ Click
    /\ "retry" \in SetupScreen
    /\ setup' = [setup EXCEPT !.st = "loading"]
    /\ UNCHANGED <<serverVars, askVars, registryVars, page, connVars, jobsVars,
                   leaving, batch, unheard>>

\* fetchResources of a provider: its repositories, or the pages of the workspace,
\* which stand or fall together in a request for a job.
LoadResources(S) ==
    /\ "cards" \in SetupScreen
    /\ S \in {Repos, setup.first}
    /\ setup' = [setup EXCEPT !.offered = @ \cup S]
    /\ UNCHANGED <<serverVars, askVars, registryVars, page, connVars, jobsVars,
                   leaving, batch, unheard, clicks>>

\* The boxes can be ticked at any time.
Toggle(s) ==
    /\ s \in Boxes
    /\ setup' = [setup EXCEPT !.chosen = IF s \in @ THEN @ \ {s} ELSE @ \cup {s}]
    /\ UNCHANGED <<serverVars, askVars, registryVars, page, connVars, jobsVars,
                   leaving, batch, unheard, clicks>>

\* Mutant of StartIndexing: the button stays while requests are under way.
StartIndexingAgain ==
    /\ Click
    /\ setup.st \in {"ready", "posting"} /\ setup.chosen # {}
    /\ Post(Listing(setup.chosen), "setup", batch + 1)
    /\ setup' = [setup EXCEPT !.st = "posting"]
    /\ batch' = batch + 1
    /\ UNCHANGED <<serverVars, cancels, unplug, grant, wiping, registryVars, page,
                   connVars, jobsVars, leaving, unheard>>

\* startIndexing: one request for each repository, one for the workspace.
StartIndexing ==
    /\ Click
    /\ "start indexing" \in SetupScreen
    /\ Post(Listing(setup.chosen), "setup", batch + 1)
    /\ setup' = [setup EXCEPT !.st = "posting"]
    /\ batch' = batch + 1
    /\ UNCHANGED <<serverVars, cancels, unplug, grant, wiping, registryVars, page,
                   connVars, jobsVars, leaving, unheard>>

\* The timer of the last batch: to the chat, from wherever the user is.
Redirect ==
    /\ leaving
    /\ leaving' = FALSE
    /\ Open("chat", Kept(docCache, {}), Kept(jobCache, <<>>))
    /\ param' = NoJob
    /\ Part
    /\ UNCHANGED <<serverVars, cancels, grant, wiping, registryVars, batch,
                   unheard, clicks>>

------------------------------------------------------------------------------
(* The wipe of the settings page                                           *)

AskWipe ==
    /\ Click
    /\ page = "settings" /\ wiping = "no"
    /\ wiping' = "asked"
    /\ UNCHANGED <<serverVars, call, cancels, unplug, grant, registryVars, page,
                   connVars, jobsVars, setupVars, unheard>>

\* wipe_library: documents and jobs, in one transaction.
ServeWipe ==
    /\ wiping \in {"asked", "deaf"}
    /\ \/ /\ docs' = {} /\ recent' = <<>>
          /\ status' = [j \in Jobs |-> "none"]
          /\ wiping' = IF wiping = "asked" THEN "done" ELSE "no"
          /\ unheard' = (unheard \/ wiping = "deaf")
          /\ UNCHANGED clicks
       \/ /\ Click
          /\ wiping' = "no"
          /\ UNCHANGED <<status, recent, docs, unheard>>
    /\ UNCHANGED <<wired, busy, fell, call, cancels, unplug, grant, registryVars,
                   page, connVars, jobsVars, setupVars>>

\* Mutant of ForgetJobs: the ids stay in the browser.
ForgetJobsNot == UNCHANGED registryVars

\* localStorage.removeItem("engram_job_ids")
ForgetJobs == registry' = <<>> /\ ever' = <<>> /\ late' = {}

\* Its reply: the ids are removed and the page that is open is loaded anew.
HearWipe ==
    /\ wiping = "done"
    /\ ForgetJobs
    /\ Deafen
    /\ wiping' = "no"
    /\ unheard' = FALSE
    /\ Open(page, Empty({}), Empty(<<>>))
    /\ UNCHANGED <<serverVars, cancels, grant, param, batch, clicks>>

\* The reply is lost: nothing else happens.
LoseWipe ==
    /\ Click
    /\ wiping = "done"
    /\ wiping' = "no"
    /\ unheard' = TRUE
    /\ UNCHANGED <<serverVars, call, cancels, unplug, grant, registryVars, page,
                   connVars, jobsVars, setupVars>>

------------------------------------------------------------------------------

Serve(j) == Accept(j) \/ Refuse(j) \/ Work(j) \/ ServeCancel(j)
AnyList == \E p \in polls : ListJobs(p)
AnyShow == \E p \in polls : ShowJobs(p)

SourcesStep ==
    \/ \E p \in Pages : Go(p)
    \/ \E j \in Jobs : Serve(j) \/ HearCall(j) \/ GrantJob(j)
    \/ LoadDocs \/ LoadJobList \/ ShowProviders \/ Focus
    \/ \E r \in Repos : AddRepo(r) \/ Reindex(r)
    \/ \E w \in Spaces :
        IndexSpace(w) \/ AskDisconnect(w) \/ Disconnect(w) \/ GrantSpace(w)
    \/ ReindexAll \/ Connect \/ AbandonGrant
    \/ Poll \/ AnyList \/ AnyShow
    \/ \E i \in DOMAIN shown : Cancel(i) \/ Rerun(i)
    \/ LoadProviders \/ Retry \/ StartIndexing \/ Redirect
    \/ \E S \in {Repos} \cup {{w} : w \in Spaces} : LoadResources(S)
    \/ \E s \in Sources : Toggle(s)
    \/ AskWipe \/ ServeWipe \/ HearWipe \/ LoseWipe

SourcesNext == SourcesStep /\ UNCHANGED tour

\* The interval of the jobs page runs, and its requests end.
SourcesFairness ==
    WF_jobsVars(Poll) /\ WF_jobsVars(AnyList) /\ WF_jobsVars(AnyShow)

SourcesSpec == SourcesInit /\ [][SourcesNext]_sourcesVars /\ SourcesFairness

------------------------------------------------------------------------------
(* What is checked                                                         *)

\* A workspace whose ingest was started from the page that is open shows as
\* indexing until the job ends, unless a job of the workspace has failed, be it
\* only until the task of a cancelled job wrote its status again, or the list of
\* jobs could not be had in full.
StartedShowsIndexing ==
    \A j \in Jobs :
        /\ Visible /\ jobCache.st = "loaded" /\ Len(jobCache.val) < ListLimit
        /\ call[j].by = "space" /\ call[j].here /\ call[j].phase = "over"
        /\ j \in SetOf(registry) /\ status[j] = "running"
        /\ \A k \in fell : call[k].src # call[j].src
        => \E r \in NotionRows : r.of = call[j].src /\ r.st = "indexing"

\* The jobs page has no job twice, although the server's list and the browser's
\* are read at different times and polls overtake each other.
NoJobTwice ==
    \A i, k \in DOMAIN shown : shown[i].id = shown[k].id => i = k

\* A poll is shown with all it found registered, unless the page is left or loaded
\* anew.
ShownHasStored ==
    \A p \in polls \ polls' :
        p.listed /\ UNCHANGED <<page, wiping>>
        => SetOf(p.stored) \subseteq {shown'[i].id : i \in DOMAIN shown'}

\* The jobs page lists every job that was registered when its poll began.
NothingDropped == [][ShownHasStored]_sourcesVars

\* Every id in the browser was registered since the list was last cleared, and one
\* that was registered is missing only when Keep others have been registered after
\* it, whichever pages they came from and in whatever order replies arrived.
RegistryKeepsNewest ==
    /\ SetOf(registry) \subseteq SetOf(ever)
    /\ \A i \in DOMAIN ever : ever[i] \in SetOf(registry)
                               \/ Cardinality({ever[k] : k \in 1..(i - 1)}) >= Keep

\* A registered job whose row is gone was registered after a wipe, by a reply that
\* was under way; a wipe whose reply was heard leaves no other (settings/page.tsx:
\* 367, "the UI keeps showing job IDs whose DB rows we just deleted").
GhostsAreLate ==
    wiping # "done" /\ ~unheard =>
        \A j \in SetOf(registry) : status[j] = "none" => j \in late

\* From one visit of the onboarding page each source is posted once.
EachChosenPostedOnce ==
    \A j, k \in Jobs :
        /\ {call[j].by, call[k].by} = {"setup"} /\ call[j].here /\ call[k].here
        /\ call[j].src = call[k].src
        => j = k

\* When the onboarding page says that indexing has started, every request has been
\* answered, so that no job is missing on the page it leads to.
StartedMeansAnswered ==
    setup.st = "done" =>
        \A j \in Jobs : call[j].by = "setup" /\ call[j].here => call[j].phase = "over"

\* A jobs page that stays open ends up showing what the server and the browser
\* hold once the tasks have ended, whatever overtook what.
JobsPageConverges ==
    <>[](page = "jobs" /\ busy = {}) => <>[](shown = JobList(registry, AllJobs, {}))
==============================================================================
