--------------------------- MODULE IngestionProofs ---------------------------
(***************************************************************************)
(* Theorems about Ingestion for any number of jobs, users, slots, workers, *)
(* files, executions and faults: type correctness, SwappedRunsExclusive,   *)
(* the implementation of SearchableLibrary, and CompleteIsSearchable.      *)
(*                                                                         *)
(* The invariant is layered.  ControlInv says which executions hold which  *)
(* message, DocsInv that every document is one its own execution made,     *)
(* SwapInv that a run adds nothing after its delete-old transaction.  Each *)
(* layer is shown to be preserved, action by action, from those below.     *)
(*                                                                         *)
(* For CompleteIsSearchable the chain from a complete job back to the      *)
(* documents of its run goes through the embedding task that read them,    *)
(* the message that started it, and the run that sent the message.  The    *)
(* step lemmas MessageStep, DocumentStep and ListStep say, action by       *)
(* action, what one step may do; the rest follows from those facts.        *)
(***************************************************************************)
EXTENDS Ingestion, TLAPS

BeforeSwap == {"start", "fetch", "files", "swap", "commit"}

\* Nothing is queued or runs for a job whose request has not been dispatched,
\* and an execution that was never started holds no task.
ControlInv ==
    /\ \A e \in Execs :
        /\ pc[e] = "free" => task[e] = NoTask
        /\ pc[e] # "free" => task[e] \in Tasks /\ api[JobOf(e)] = "done"
    /\ \A t \in Tasks : queue[t] > 0 => api[t[2]] = "done"

\* Every document, committed or pending, is one its own execution has made,
\* under an index that execution has passed.
DocsInv ==
    /\ emb \subseteq lib
    /\ \A d \in lib : d \in made[d[1]]
    /\ \A e \in Execs :
        /\ pend[e] \subseteq made[e]
        /\ \A d \in pend[e] : d \notin lib
        /\ \A d \in made[e] : d[1] = e
        /\ pc[e] \in {"free", "start", "fetch"} => made[e] = {} /\ idx[e] = 0
        /\ pc[e] = "files" => \A d \in made[e] : d[2] <= idx[e]
        /\ doomed[e] \cap made[e] = {}
        /\ pc[e] # "commit" => doomed[e] = {}

\* A run that has performed its delete-old transaction adds nothing any more,
\* and a run that is about to commit its own has, unless the two overlap or it
\* has made no document itself, all that is left of the first on its list.
SwapInv ==
    /\ \A e \in swapped : pc[e] \notin BeforeSwap \cup {"free"}
    /\ \A e \in Execs : pc[e] \in {"embedding", "dispatch"} => e \in swapped
    /\ \A e, f \in Execs :
        e # f /\ pc[e] = "commit" /\ pc[f] = "commit"
          /\ target[JobOf(e)] = target[JobOf(f)] => {e, f} \in crossed
    /\ \A e \in swapped : \A f \in Execs :
        pc[f] = "commit" /\ target[JobOf(e)] = target[JobOf(f)]
          /\ {e, f} \notin crossed /\ made[f] # {} =>
            \A d \in lib : d[1] = e => d \in doomed[f]
    /\ \A f \in Execs :
        pc[f] = "commit" /\ made[f] = {} /\ target[JobOf(f)] \in GithubSlots
            => doomed[f] = {}
    /\ SwappedRunsExclusive

IndInv == TypeOK /\ ControlInv /\ DocsInv /\ SwapInv

------------------------------------------------------------------------------
(* Type correctness                                                        *)

\* A message sent leaves the queue a function into Nat.
LEMMA SendType ==
    ASSUME queue \in [Tasks -> Nat], NEW t, Send(t)
    PROVE  queue' \in [Tasks -> Nat]
<1>1. queue' = [queue EXCEPT ![t] = queue[t] + 1]
  BY DEF Send
<1>2. ASSUME NEW x \in Tasks PROVE queue'[x] \in Nat
  <2>1. CASE x = t
    BY <2>1, <1>1
  <2>2. CASE x # t
    BY <2>2, <1>1
  <2> QED
    BY <2>1, <2>2
<1>3. queue' = [x \in Tasks |-> queue'[x]]
  BY <1>1
<1> QED
  BY <1>2, <1>3

\* A badge update keeps the badges' type.
LEMMA BadgeType ==
    ASSUME badge \in [Users -> Badges], NEW u, NEW b \in Badges
    PROVE  [badge EXCEPT ![u] = b] \in [Users -> Badges]
  OBVIOUS

\* Every action keeps every variable in its type.
LEMMA TypeStep ==
    ASSUME TypeOK, ControlInv, [Next]_vars
    PROVE  TypeOK'
<1>j. \A e \in Execs : pc[e] # "free" => JobOf(e) \in Jobs
  BY DEF ControlInv, JobOf, Tasks
<1> USE IngestionAssumption DEF TypeOK, vars, dbVars, apiVars, runVars,
      runLocals, history, Statuses, RowStatuses, Badges, ApiStates, PcStates,
      LiveStates
<1>1. ASSUME NEW j \in Jobs, NEW u \in Users, NEW s \in Slots, RequestGithub(j, u, s)
      PROVE  TypeOK'
  BY <1>1 DEF RequestGithub, ReadBadge
<1>2. ASSUME NEW j \in Jobs, NEW u \in Users, NEW s \in Slots, RequestNotion(j, u, s)
      PROVE  TypeOK'
  BY <1>2 DEF RequestNotion, ReadBadge
<1>3. ASSUME NEW j \in Jobs, CommitRequest(j) PROVE TypeOK'
  BY <1>3 DEF CommitRequest, MarkIndexing
<1>4. ASSUME NEW j \in Jobs, DispatchRequest(j) PROVE TypeOK'
  BY <1>4 DEF DispatchRequest, Send, Tasks, Kinds
<1>5. ASSUME NEW j \in Jobs, LoseDispatch(j) PROVE TypeOK'
  BY <1>5 DEF LoseDispatch, Fault, Forsake
<1>6. ASSUME NEW j \in Jobs, ReadForCancel(j) PROVE TypeOK'
  BY <1>6 DEF ReadForCancel
<1>7. ASSUME NEW j \in Jobs, CommitCancel(j) PROVE TypeOK'
  BY <1>7 DEF CommitCancel, HasRow
<1>8. ASSUME NEW u \in Users, WipeLibrary(u) PROVE TypeOK'
  BY <1>8 DEF WipeLibrary, HasRow, Owner, JobOf
<1>9. ASSUME NEW t \in Tasks, NEW e \in Execs, Deliver(t, e) PROVE TypeOK'
  BY <1>9 DEF Deliver, NextExec, Goto
<1>10. ASSUME NEW e \in Execs, Acknowledge(e) PROVE TypeOK'
  BY <1>10 DEF Acknowledge, Goto
<1>11. ASSUME NEW e \in Execs, WorkerDeath(e) PROVE TypeOK'
  BY <1>11 DEF WorkerDeath, Alive, Fault, Goto, Leave, Rollback
<1>12. ASSUME NEW e \in Execs, ChildKilled(e) PROVE TypeOK'
  BY <1>j, <1>12 DEF ChildKilled, Alive, Fault, Forsake, Goto, Leave, Rollback
<1>13. ASSUME NEW e \in Execs, RestoreLost(e) PROVE TypeOK'
  <2>1. queue' \in [Tasks -> Nat]
    BY <1>13, SendType DEF RestoreLost
  <2> QED
    BY <1>13, <2>1 DEF RestoreLost, Goto
<1>14. ASSUME NEW e \in Execs, RestoreSlow(e) PROVE TypeOK'
  <2>1. queue' \in [Tasks -> Nat]
    BY <1>14, SendType DEF RestoreSlow
  <2> QED
    BY <1>14, <2>1 DEF RestoreSlow, Fault
<1>15. ASSUME NEW e \in Execs, RejectUrl(e) PROVE TypeOK'
  BY <1>15 DEF RejectUrl, Goto
<1>16. ASSUME NEW e \in Execs, StartIngest(e) PROVE TypeOK'
  BY <1>16 DEF StartIngest, JobOf, HasRow, Goto
<1>17. ASSUME NEW e \in Execs, NEW n \in 0..MaxFiles, Fetch(e, n)
       PROVE  TypeOK'
  BY <1>17 DEF Fetch, JobOf, HasRow, Goto
<1>18. ASSUME NEW e \in Execs, SkipFile(e) PROVE TypeOK'
  BY <1>18 DEF SkipFile, NextFile, Goto
<1>19. ASSUME NEW e \in Execs, AddFile(e) PROVE TypeOK'
  BY <1>19 DEF AddFile, NextFile, JobOf, HasRow, Goto, Docs, FileIndex
<1>20. ASSUME NEW e \in Execs, DeleteGithub(e) PROVE TypeOK'
  BY <1>20 DEF DeleteGithub, AwaitCommit, DeleteOthers, SlotOf, JobOf, Goto
<1>21. ASSUME NEW e \in Execs, DeleteNotion(e) PROVE TypeOK'
  BY <1>21 DEF DeleteNotion, AwaitCommit, DeleteOthers, SlotOf, JobOf, Goto
<1>22. ASSUME NEW e \in Execs, CommitSwap(e) PROVE TypeOK'
  BY <1>22 DEF CommitSwap, JobOf, Goto
<1>23. ASSUME NEW e \in Execs, MarkEmbedding(e) PROVE TypeOK'
  BY <1>23 DEF MarkEmbedding, JobOf, HasRow, Goto
<1>24. ASSUME NEW e \in Execs, DispatchEmbedding(e) PROVE TypeOK'
  <2>1. queue' \in [Tasks -> Nat]
    BY <1>24, SendType DEF DispatchEmbedding
  <2> QED
    BY <1>24, <2>1 DEF DispatchEmbedding, Goto, Leave, Rollback
<1>25. ASSUME NEW e \in Execs, LoadChunks(e) PROVE TypeOK'
  BY <1>25 DEF LoadChunks, ReadList, Owner, JobOf, HasRow, Goto
<1>26. ASSUME NEW e \in Execs, NEW b \in Batches(todo[e]), EmbedBatch(e, b)
       PROVE  TypeOK'
  BY <1>26 DEF EmbedBatch, Batches, JobOf, HasRow, Goto
<1>27. ASSUME NEW e \in Execs, MarkComplete(e) PROVE TypeOK'
  BY <1>27 DEF MarkComplete, JobOf, HasRow, Goto
<1>28. ASSUME NEW e \in Execs, MarkReady(e) PROVE TypeOK'
  <2>1. badge' \in [Users -> Badges]
    BY <1>28, BadgeType DEF MarkReady
  <2> QED
    BY <1>28, <2>1 DEF MarkReady, Goto, Leave, Rollback
<1>29. ASSUME NEW e \in Execs, LoseBadge(e) PROVE TypeOK'
  BY <1>j, <1>29 DEF LoseBadge, Fault, Forsake, JobOf, Goto, Leave, Rollback
<1>30. ASSUME NEW e \in Execs, Raise(e) PROVE TypeOK'
  BY <1>30 DEF Raise, Alive, Goto, Leave, Rollback
<1>31. ASSUME NEW e \in Execs, MarkFailed(e) PROVE TypeOK'
  BY <1>31 DEF MarkFailed, JobOf, HasRow, Goto
<1>32. ASSUME NEW e \in Execs, LoseReport(e) PROVE TypeOK'
  BY <1>j, <1>32 DEF LoseReport, Fault, Forsake, JobOf, Goto
<1>33. CASE UNCHANGED vars
  BY <1>33
<1> QED
  BY <1>1, <1>2, <1>3, <1>4, <1>5, <1>6, <1>7, <1>8, <1>9, <1>10, <1>11,
    <1>12, <1>13, <1>14, <1>15, <1>16, <1>17, <1>18, <1>19, <1>20, <1>21,
    <1>22, <1>23, <1>24, <1>25, <1>26, <1>27, <1>28, <1>29, <1>30, <1>31,
    <1>32, <1>33 DEF Next, Handlers, RunTask, Environment

------------------------------------------------------------------------------
(* The layers of the invariant                                             *)

\* Every action preserves ControlInv.
LEMMA ControlStep ==
    ASSUME TypeOK, ControlInv, [Next]_vars
    PROVE  ControlInv'
<1> USE IngestionAssumption DEF vars, dbVars, apiVars, runVars, runLocals, history,
      TypeOK, ControlInv, JobOf, Tasks, LiveStates, NoTask
<1>1. ASSUME NEW j \in Jobs, NEW u \in Users, NEW s \in Slots, RequestGithub(j, u, s)
      PROVE  ControlInv'
  BY <1>1 DEF RequestGithub, ReadBadge
<1>2. ASSUME NEW j \in Jobs, NEW u \in Users, NEW s \in Slots, RequestNotion(j, u, s)
      PROVE  ControlInv'
  BY <1>2 DEF RequestNotion, ReadBadge
<1>3. ASSUME NEW j \in Jobs, CommitRequest(j) PROVE ControlInv'
  BY <1>3 DEF CommitRequest, MarkIndexing
<1>4. ASSUME NEW j \in Jobs, DispatchRequest(j) PROVE ControlInv'
  BY <1>4 DEF DispatchRequest, Send
<1>5. ASSUME NEW j \in Jobs, LoseDispatch(j) PROVE ControlInv'
  BY <1>5 DEF LoseDispatch, Fault, Forsake
<1>6. ASSUME NEW j \in Jobs, ReadForCancel(j) PROVE ControlInv'
  BY <1>6 DEF ReadForCancel
<1>7. ASSUME NEW j \in Jobs, CommitCancel(j) PROVE ControlInv'
  BY <1>7 DEF CommitCancel, HasRow
<1>8. ASSUME NEW u \in Users, WipeLibrary(u) PROVE ControlInv'
  BY <1>8 DEF WipeLibrary, HasRow, Owner, JobOf
<1>9. ASSUME NEW t \in Tasks, NEW e \in Execs, Deliver(t, e) PROVE ControlInv'
  BY <1>9 DEF Deliver, NextExec, Goto
<1>10. ASSUME NEW e \in Execs, Acknowledge(e) PROVE ControlInv'
  BY <1>10 DEF Acknowledge, Goto
<1>11. ASSUME NEW e \in Execs, WorkerDeath(e) PROVE ControlInv'
  BY <1>11 DEF WorkerDeath, Alive, Fault, Goto, Leave, Rollback
<1>12. ASSUME NEW e \in Execs, ChildKilled(e) PROVE ControlInv'
  BY <1>12 DEF ChildKilled, Alive, Fault, Forsake, Goto, Leave, Rollback
<1>13. ASSUME NEW e \in Execs, RestoreLost(e) PROVE ControlInv'
  BY <1>13 DEF RestoreLost, Goto, Send
<1>14. ASSUME NEW e \in Execs, RestoreSlow(e) PROVE ControlInv'
  BY <1>14 DEF RestoreSlow, Alive, Fault, Send
<1>15. ASSUME NEW e \in Execs, RejectUrl(e) PROVE ControlInv'
  BY <1>15 DEF RejectUrl, Goto
<1>16. ASSUME NEW e \in Execs, StartIngest(e) PROVE ControlInv'
  BY <1>16 DEF StartIngest, JobOf, HasRow, Goto
<1>17. ASSUME NEW e \in Execs, NEW n \in 0..MaxFiles, Fetch(e, n)
       PROVE  ControlInv'
  BY <1>17 DEF Fetch, JobOf, HasRow, Goto
<1>18. ASSUME NEW e \in Execs, SkipFile(e) PROVE ControlInv'
  BY <1>18 DEF SkipFile, NextFile, Goto
<1>19. ASSUME NEW e \in Execs, AddFile(e) PROVE ControlInv'
  BY <1>19 DEF AddFile, NextFile, JobOf, HasRow, Goto
<1>20. ASSUME NEW e \in Execs, DeleteGithub(e) PROVE ControlInv'
  BY <1>20 DEF DeleteGithub, AwaitCommit, DeleteOthers, SlotOf, JobOf, Goto
<1>21. ASSUME NEW e \in Execs, DeleteNotion(e) PROVE ControlInv'
  BY <1>21 DEF DeleteNotion, AwaitCommit, DeleteOthers, SlotOf, JobOf, Goto
<1>22. ASSUME NEW e \in Execs, CommitSwap(e) PROVE ControlInv'
  BY <1>22 DEF CommitSwap, JobOf, Goto
<1>23. ASSUME NEW e \in Execs, MarkEmbedding(e) PROVE ControlInv'
  BY <1>23 DEF MarkEmbedding, JobOf, HasRow, Goto
<1>24. ASSUME NEW e \in Execs, DispatchEmbedding(e) PROVE ControlInv'
  BY <1>24 DEF DispatchEmbedding, Send, JobOf, Goto, Leave, Rollback
<1>25. ASSUME NEW e \in Execs, LoadChunks(e) PROVE ControlInv'
  BY <1>25 DEF LoadChunks, ReadList, Owner, JobOf, HasRow, Goto
<1>26. ASSUME NEW e \in Execs, NEW b \in Batches(todo[e]), EmbedBatch(e, b)
       PROVE  ControlInv'
  BY <1>26 DEF EmbedBatch, Batches, JobOf, HasRow, Goto
<1>27. ASSUME NEW e \in Execs, MarkComplete(e) PROVE ControlInv'
  BY <1>27 DEF MarkComplete, JobOf, HasRow, Goto
<1>28. ASSUME NEW e \in Execs, MarkReady(e) PROVE ControlInv'
  BY <1>28 DEF MarkReady, JobOf, HasRow, Goto, Leave, Rollback
<1>29. ASSUME NEW e \in Execs, LoseBadge(e) PROVE ControlInv'
  BY <1>29 DEF LoseBadge, Fault, Forsake, JobOf, Goto, Leave, Rollback
<1>30. ASSUME NEW e \in Execs, Raise(e) PROVE ControlInv'
  BY <1>30 DEF Raise, Alive, Goto, Leave, Rollback
<1>31. ASSUME NEW e \in Execs, MarkFailed(e) PROVE ControlInv'
  BY <1>31 DEF MarkFailed, JobOf, HasRow, Goto
<1>32. ASSUME NEW e \in Execs, LoseReport(e) PROVE ControlInv'
  BY <1>32 DEF LoseReport, Fault, Forsake, JobOf, Goto
<1>33. CASE UNCHANGED vars
  BY <1>33
<1> QED
  BY <1>1, <1>2, <1>3, <1>4, <1>5, <1>6, <1>7, <1>8, <1>9, <1>10, <1>11,
    <1>12, <1>13, <1>14, <1>15, <1>16, <1>17, <1>18, <1>19, <1>20, <1>21,
    <1>22, <1>23, <1>24, <1>25, <1>26, <1>27, <1>28, <1>29, <1>30, <1>31,
    <1>32, <1>33 DEF Next, Handlers, RunTask, Environment

\* Every action preserves DocsInv.
LEMMA DocsStep ==
    ASSUME TypeOK, ControlInv, DocsInv, [Next]_vars
    PROVE  DocsInv'
<1> USE IngestionAssumption DEF vars, dbVars, apiVars, runVars, runLocals, history,
      TypeOK, DocsInv, LiveStates
<1>1. ASSUME NEW j \in Jobs, NEW u \in Users, NEW s \in Slots, RequestGithub(j, u, s)
      PROVE  DocsInv'
  BY <1>1 DEF RequestGithub, ReadBadge
<1>2. ASSUME NEW j \in Jobs, NEW u \in Users, NEW s \in Slots, RequestNotion(j, u, s)
      PROVE  DocsInv'
  BY <1>2 DEF RequestNotion, ReadBadge
<1>3. ASSUME NEW j \in Jobs, CommitRequest(j) PROVE DocsInv'
  BY <1>3 DEF CommitRequest, MarkIndexing
<1>4. ASSUME NEW j \in Jobs, DispatchRequest(j) PROVE DocsInv'
  BY <1>4 DEF DispatchRequest, Send
<1>5. ASSUME NEW j \in Jobs, LoseDispatch(j) PROVE DocsInv'
  BY <1>5 DEF LoseDispatch, Fault, Forsake
<1>6. ASSUME NEW j \in Jobs, ReadForCancel(j) PROVE DocsInv'
  BY <1>6 DEF ReadForCancel
<1>7. ASSUME NEW j \in Jobs, CommitCancel(j) PROVE DocsInv'
  BY <1>7 DEF CommitCancel, HasRow
<1>8. ASSUME NEW u \in Users, WipeLibrary(u) PROVE DocsInv'
  BY <1>8 DEF WipeLibrary, HasRow, Owner, JobOf
<1>9. ASSUME NEW t \in Tasks, NEW e \in Execs, Deliver(t, e) PROVE DocsInv'
  BY <1>9 DEF Deliver, NextExec, Goto
<1>10. ASSUME NEW e \in Execs, Acknowledge(e) PROVE DocsInv'
  BY <1>10 DEF Acknowledge, Goto
<1>11. ASSUME NEW e \in Execs, WorkerDeath(e) PROVE DocsInv'
  BY <1>11 DEF WorkerDeath, Alive, Fault, Goto, Leave, Rollback
<1>12. ASSUME NEW e \in Execs, ChildKilled(e) PROVE DocsInv'
  BY <1>12 DEF ChildKilled, Alive, Fault, Forsake, Goto, Leave, Rollback
<1>13. ASSUME NEW e \in Execs, RestoreLost(e) PROVE DocsInv'
  BY <1>13 DEF RestoreLost, Goto, Send
<1>14. ASSUME NEW e \in Execs, RestoreSlow(e) PROVE DocsInv'
  BY <1>14 DEF RestoreSlow, Alive, Fault, Send
<1>15. ASSUME NEW e \in Execs, RejectUrl(e) PROVE DocsInv'
  BY <1>15 DEF RejectUrl, Goto
<1>16. ASSUME NEW e \in Execs, StartIngest(e) PROVE DocsInv'
  BY <1>16 DEF StartIngest, JobOf, HasRow, Goto
<1>17. ASSUME NEW e \in Execs, NEW n \in 0..MaxFiles, Fetch(e, n)
       PROVE  DocsInv'
  BY <1>17 DEF Fetch, JobOf, HasRow, Goto
<1>18. ASSUME NEW e \in Execs, SkipFile(e) PROVE DocsInv'
  BY <1>18 DEF SkipFile, NextFile, Goto, Docs, FileIndex
<1>19. ASSUME NEW e \in Execs, AddFile(e) PROVE DocsInv'
  <2> DEFINE doc == <<e, idx[e] + 1>>
  <2>1. /\ pc[e] = "files" /\ idx[e] \in 0..MaxFiles
        /\ made' = [made EXCEPT ![e] = @ \cup {doc}]
        /\ idx' = [idx EXCEPT ![e] = @ + 1]
        /\ pc' \in [Execs -> PcStates] /\ pc'[e] \in {"files", "swap"}
        /\ doomed' = doomed
        /\ \A f \in Execs \ {e} : pc'[f] = pc[f]
        /\ emb' = emb
    BY <1>19 DEF AddFile, NextFile, Goto, PcStates
  <2>d. doomed[e] = {}
    BY <2>1
  <2>2. doc[1] = e /\ doc[2] = idx[e] + 1
    OBVIOUS
  <2>3. doc \notin made[e] /\ doc \notin lib
    BY <2>1, <2>2
  <2>4. \/ lib' = lib \cup pend[e] \cup {doc} /\ pend' = [pend EXCEPT ![e] = {}]
        \/ lib' = lib /\ pend' = [pend EXCEPT ![e] = @ \cup {doc}]
    BY <1>19 DEF AddFile
  <2>5. emb' \subseteq lib'
    BY <2>1, <2>4
  <2>6. \A f \in Execs : \A d \in made'[f] : d[1] = f
    BY <2>1, <2>2
  <2>7. \A d \in lib' : d \in made'[d[1]]
    BY <2>1, <2>2, <2>4
  <2>8. \A f \in Execs : pend'[f] \subseteq made'[f]
    BY <2>1, <2>4
  <2>9. \A f \in Execs : \A d \in pend'[f] : d \notin lib'
    BY <2>1, <2>2, <2>3, <2>4
  <2>10. \A f \in Execs : pc'[f] \in {"free", "start", "fetch"}
                              => made'[f] = {} /\ idx'[f] = 0
    BY <2>1
  <2>11. \A f \in Execs : pc'[f] = "files" => \A d \in made'[f] : d[2] <= idx'[f]
    <3>1. \A d \in made'[e] : d[2] <= idx'[e]
      BY <2>1, <2>2, made[e] \subseteq Docs DEF Docs, FileIndex
    <3> QED
      BY <2>1, <3>1
  <2>12. \A f \in Execs : /\ doomed'[f] \cap made'[f] = {}
                          /\ pc'[f] # "commit" => doomed'[f] = {}
    BY <2>1, <2>d
  <2> QED
    BY <2>5, <2>6, <2>7, <2>8, <2>9, <2>10, <2>11, <2>12
<1>20. ASSUME NEW e \in Execs, DeleteGithub(e) PROVE DocsInv'
  BY <1>20 DEF DeleteGithub, AwaitCommit, DeleteOthers, SlotOf, JobOf, Goto
<1>21. ASSUME NEW e \in Execs, DeleteNotion(e) PROVE DocsInv'
  BY <1>21 DEF DeleteNotion, AwaitCommit, DeleteOthers, SlotOf, JobOf, Goto
<1>22. ASSUME NEW e \in Execs, CommitSwap(e) PROVE DocsInv'
  BY <1>22 DEF CommitSwap, JobOf, Goto
<1>23. ASSUME NEW e \in Execs, MarkEmbedding(e) PROVE DocsInv'
  BY <1>23 DEF MarkEmbedding, JobOf, HasRow, Goto
<1>24. ASSUME NEW e \in Execs, DispatchEmbedding(e) PROVE DocsInv'
  BY <1>24 DEF DispatchEmbedding, Send, JobOf, Goto, Leave, Rollback
<1>25. ASSUME NEW e \in Execs, LoadChunks(e) PROVE DocsInv'
  BY <1>25 DEF LoadChunks, ReadList, Owner, JobOf, HasRow, Goto
<1>26. ASSUME NEW e \in Execs, NEW b \in Batches(todo[e]), EmbedBatch(e, b)
       PROVE  DocsInv'
  BY <1>26 DEF EmbedBatch, Batches, JobOf, HasRow, Goto
<1>27. ASSUME NEW e \in Execs, MarkComplete(e) PROVE DocsInv'
  BY <1>27 DEF MarkComplete, JobOf, HasRow, Goto
<1>28. ASSUME NEW e \in Execs, MarkReady(e) PROVE DocsInv'
  BY <1>28 DEF MarkReady, JobOf, HasRow, Goto, Leave, Rollback
<1>29. ASSUME NEW e \in Execs, LoseBadge(e) PROVE DocsInv'
  BY <1>29 DEF LoseBadge, Fault, Forsake, JobOf, Goto, Leave, Rollback
<1>30. ASSUME NEW e \in Execs, Raise(e) PROVE DocsInv'
  BY <1>30 DEF Raise, Alive, Goto, Leave, Rollback
<1>31. ASSUME NEW e \in Execs, MarkFailed(e) PROVE DocsInv'
  BY <1>31 DEF MarkFailed, JobOf, HasRow, Goto
<1>32. ASSUME NEW e \in Execs, LoseReport(e) PROVE DocsInv'
  BY <1>32 DEF LoseReport, Fault, Forsake, JobOf, Goto
<1>33. CASE UNCHANGED vars
  BY <1>33
<1> QED
  BY <1>1, <1>2, <1>3, <1>4, <1>5, <1>6, <1>7, <1>8, <1>9, <1>10, <1>11,
    <1>12, <1>13, <1>14, <1>15, <1>16, <1>17, <1>18, <1>19, <1>20, <1>21,
    <1>22, <1>23, <1>24, <1>25, <1>26, <1>27, <1>28, <1>29, <1>30, <1>31,
    <1>32, <1>33 DEF Next, Handlers, RunTask, Environment

\* A step that neither deletes old documents nor commits a delete: it adds documents
\* of runs that have yet to swap only, and leaves deletes that are open alone.
SwapQuiet ==
    /\ UNCHANGED <<swapped, crossed>>
    /\ \A d \in lib' : d \in lib \/ d[1] \notin swapped
    /\ \A e \in Execs :
        /\ pc[e] # "free" =>
              task'[e] = task[e] /\ target'[JobOf(e)] = target[JobOf(e)]
        /\ pc'[e] \in BeforeSwap \cup {"free"} => pc[e] \in BeforeSwap \cup {"free"}
        /\ pc'[e] \in {"embedding", "dispatch"} => pc[e] \in {"embedding", "dispatch"}
        /\ pc'[e] = "commit" =>
              pc[e] = "commit" /\ made'[e] = made[e] /\ doomed'[e] = doomed[e]

LEMMA QuietStep ==
    ASSUME TypeOK, DocsInv, SwapInv, SwapQuiet
    PROVE  SwapInv'
<1>1. swapped \subseteq Execs /\ swapped' = swapped /\ crossed' = crossed
  BY DEF TypeOK, SwapQuiet
<1>2. \A e \in Execs : pc[e] # "free" => target'[JobOf(e)'] = target[JobOf(e)]
  BY DEF SwapQuiet, JobOf
<1>3. \A e \in swapped : pc[e] # "free"
  BY DEF SwapInv
<1>4. \A d \in lib' : d[1] \in swapped => d \in lib /\ SlotOf(d)' = SlotOf(d)
  <2>1. \A d \in lib' : d[1] \in swapped => d \in lib
    BY DEF SwapQuiet
  <2> QED
    BY <1>1, <1>2, <1>3, <2>1 DEF SlotOf
<1>5. SwappedRunsExclusive'
  BY <1>1, <1>4 DEF SwapInv, SwappedRunsExclusive
<1>6. \A e \in Execs : pc'[e] = "commit" =>
         pc[e] = "commit" /\ made'[e] = made[e] /\ doomed'[e] = doomed[e]
  BY DEF SwapQuiet
<1>7. ASSUME NEW e \in swapped, NEW f \in Execs, pc'[f] = "commit",
             target'[JobOf(e)'] = target'[JobOf(f)'], {e, f} \notin crossed,
             made'[f] # {}, NEW d \in lib', d[1] = e
      PROVE  d \in doomed'[f]
  <2>1. target[JobOf(e)] = target[JobOf(f)]
    BY <1>1, <1>2, <1>3, <1>6, <1>7
  <2> QED
    BY <1>4, <1>6, <1>7, <2>1 DEF SwapInv
<1>8. ASSUME NEW e \in Execs, NEW f \in Execs, e # f, pc'[e] = "commit",
             pc'[f] = "commit", target'[JobOf(e)'] = target'[JobOf(f)']
      PROVE  {e, f} \in crossed
  <2>1. target[JobOf(e)] = target[JobOf(f)]
    BY <1>2, <1>6, <1>8
  <2> QED
    BY <1>6, <1>8, <2>1 DEF SwapInv
<1>9. ASSUME NEW f \in Execs, pc'[f] = "commit", made'[f] = {},
             target'[JobOf(f)'] \in GithubSlots
      PROVE  doomed'[f] = {}
  BY <1>2, <1>6, <1>9 DEF SwapInv
<1>10. /\ \A e \in swapped : pc'[e] \notin BeforeSwap \cup {"free"}
       /\ \A e \in Execs : pc'[e] \in {"embedding", "dispatch"} => e \in swapped
  BY <1>1 DEF SwapQuiet, SwapInv
<1> QED
  BY <1>1, <1>5, <1>7, <1>8, <1>9, <1>10 DEF SwapInv

\* The DELETE of execution e: what is left of a run that has swapped is on its list,
\* and it overlaps the runs that have not committed theirs.
LEMMA DeleteStep ==
    ASSUME TypeOK, DocsInv, SwapInv, NEW e \in Execs, pc[e] = "swap",
           \/ DeleteOthers(e)
           \/ made[e] = {} /\ UNCHANGED doomed /\ target[JobOf(e)] \in GithubSlots,
           made[e] = {} /\ target[JobOf(e)] \in GithubSlots => UNCHANGED doomed,
           AwaitCommit(e)
    PROVE  SwapInv'
<1> USE DEF TypeOK
<1>1. /\ UNCHANGED <<lib, task, target, made, swapped>>
      /\ crossed' = crossed \cup
            {{e, f} : f \in {g \in Execs : /\ pc[g] = "commit"
                                          /\ target[JobOf(g)] = target[JobOf(e)]}}
      /\ pc' = [pc EXCEPT ![e] = "commit"]
  BY DEF AwaitCommit, Goto, dbVars
<1>2. pc'[e] = "commit" /\ \A f \in Execs \ {e} : pc'[f] = pc[f]
  BY <1>1
<1>3. \A f \in Execs \ {e} : doomed'[f] = doomed[f]
  BY DEF DeleteOthers
<1>4. e \notin swapped /\ swapped \subseteq Execs
  BY DEF SwapInv, BeforeSwap
<1>5. \A f \in Execs : JobOf(f)' = JobOf(f) /\ target'[JobOf(f)'] = target[JobOf(f)]
  BY <1>1 DEF JobOf
<1>6. crossed \subseteq crossed'
  BY <1>1
<1>7. SwappedRunsExclusive'
  BY <1>1, <1>6 DEF SwapInv, SwappedRunsExclusive, SlotOf, JobOf
<1>8. ASSUME NEW f \in swapped, target[JobOf(f)] = target[JobOf(e)], made[e] # {},
             NEW d \in lib, d[1] = f
      PROVE  d \in doomed'[e]
  <2>1. d \notin made[e]
    BY <1>4, <1>8 DEF DocsInv
  <2> QED
    BY <1>8, <2>1 DEF DeleteOthers, SlotOf
<1>9. ASSUME NEW f \in Execs \ {e}, pc[f] = "commit", target[JobOf(f)] = target[JobOf(e)]
      PROVE  {e, f} \in crossed' /\ {f, e} \in crossed'
  <2>1. {e, f} \in crossed'
    BY <1>1, <1>9
  <2>2. {f, e} = {e, f}
    OBVIOUS
  <2> QED
    BY <2>1, <2>2
<1>10. ASSUME NEW f \in Execs, NEW g \in Execs, f # g, pc'[f] = "commit",
              pc'[g] = "commit", target[JobOf(f)] = target[JobOf(g)]
       PROVE  {f, g} \in crossed'
  <2>1. CASE f # e /\ g # e
    BY <1>2, <1>6, <1>10, <2>1 DEF SwapInv
  <2>2. CASE f = e \/ g = e
    BY <1>2, <1>9, <1>10, <2>2
  <2> QED
    BY <2>1, <2>2
<1>11. ASSUME NEW f \in swapped, NEW g \in Execs, pc'[g] = "commit",
              target[JobOf(f)] = target[JobOf(g)], {f, g} \notin crossed',
              made[g] # {}, NEW d \in lib, d[1] = f
       PROVE  d \in doomed'[g]
  <2>1. CASE g = e
    BY <1>8, <1>11, <2>1
  <2>2. CASE g # e
    <3>1. pc[g] = "commit" /\ doomed'[g] = doomed[g] /\ {f, g} \notin crossed
      BY <1>2, <1>3, <1>6, <1>11, <2>2
    <3> QED
      BY <1>11, <3>1 DEF SwapInv
  <2> QED
    BY <2>1, <2>2
<1>12. doomed[e] = {}
  BY DEF DocsInv
<1>13. ASSUME NEW f \in Execs, pc'[f] = "commit", made[f] = {},
              target[JobOf(f)] \in GithubSlots
       PROVE  doomed'[f] = {}
  <2>1. CASE f = e
    BY <1>12, <1>13, <2>1
  <2>2. CASE f # e
    BY <1>2, <1>3, <1>13, <2>2 DEF SwapInv
  <2> QED
    BY <2>1, <2>2
<1>14. /\ \A f \in swapped : pc'[f] \notin BeforeSwap \cup {"free"}
       /\ \A f \in Execs : pc'[f] \in {"embedding", "dispatch"} => f \in swapped
  BY <1>2, <1>4 DEF SwapInv
<1>15. /\ swapped' = swapped /\ lib' = lib /\ made' = made
       /\ \A f \in Execs : target'[JobOf(f)'] = target[JobOf(f)]
  BY <1>1, <1>5
<1>16. \A f, g \in Execs :
          f # g /\ pc'[f] = "commit" /\ pc'[g] = "commit"
            /\ target'[JobOf(f)'] = target'[JobOf(g)'] => {f, g} \in crossed'
  BY <1>10, <1>15
<1>17. \A f \in swapped' : \A g \in Execs :
          pc'[g] = "commit" /\ target'[JobOf(f)'] = target'[JobOf(g)']
            /\ {f, g} \notin crossed' /\ made'[g] # {} =>
              \A d \in lib' : d[1] = f => d \in doomed'[g]
  BY <1>4, <1>11, <1>15
<1>18. \A f \in Execs :
          pc'[f] = "commit" /\ made'[f] = {} /\ target'[JobOf(f)'] \in GithubSlots
            => doomed'[f] = {}
  BY <1>13, <1>15
<1> QED
  BY ONLY <1>7, <1>14, <1>15, <1>16, <1>17, <1>18 DEF SwapInv

\* Its commit: of a run that has swapped before and that it does not overlap nothing
\* is left, and it is itself on no list of a run that has yet to commit.
LEMMA CommitStep ==
    ASSUME TypeOK, ControlInv, DocsInv, SwapInv, NEW e \in Execs, CommitSwap(e)
    PROVE  SwapInv'
<1> USE DEF TypeOK
<1>1. /\ pc[e] = "commit" /\ UNCHANGED <<task, target, made, crossed>>
      /\ lib' = (lib \cup pend[e]) \ doomed[e]
      /\ doomed' = [doomed EXCEPT ![e] = {}]
      /\ swapped' = swapped \cup {e}
      /\ pc' = [pc EXCEPT ![e] = "embedding"]
  BY DEF CommitSwap, Goto
<1>2. /\ pc'[e] = "embedding" /\ \A f \in Execs \ {e} : pc'[f] = pc[f]
      /\ \A f \in Execs \ {e} : doomed'[f] = doomed[f]
  BY <1>1
<1>3. e \notin swapped /\ swapped \subseteq Execs
  BY <1>1 DEF SwapInv, BeforeSwap
<1>4. \A f \in Execs : JobOf(f)' = JobOf(f) /\ target'[JobOf(f)'] = target[JobOf(f)]
  BY <1>1 DEF JobOf
<1>5. \A d \in lib' : d[1] # e => d \in lib /\ d \notin doomed[e]
  BY <1>1 DEF DocsInv
<1>6. \A d \in lib' : d[1] = e => made[e] # {}
  BY <1>1 DEF DocsInv
<1>7. ASSUME NEW d1 \in lib', NEW d2 \in lib', d1[1] \in swapped, d2[1] = e,
             SlotOf(d1) = SlotOf(d2), {d1[1], e} \notin crossed
      PROVE  FALSE
  <2>1. d1 \in lib /\ d1 \notin doomed[e] /\ made[e] # {}
    BY <1>3, <1>5, <1>6, <1>7
  <2>2. target[JobOf(d1[1])] = target[JobOf(e)]
    BY <1>7 DEF SlotOf
  <2> QED
    BY <1>1, <1>7, <2>1, <2>2 DEF SwapInv
<1>8. SwappedRunsExclusive'
  <2> SUFFICES ASSUME NEW d1 \in lib', NEW d2 \in lib', d1[1] \in swapped',
                      d2[1] \in swapped', SlotOf(d1)' = SlotOf(d2)',
                      {d1[1], d2[1]} \notin crossed', d1[1] # d2[1]
               PROVE  FALSE
    BY DEF SwappedRunsExclusive
  <2>1. SlotOf(d1) = SlotOf(d2) /\ {d1[1], d2[1]} \notin crossed
    BY <1>1 DEF SlotOf, JobOf
  <2>2. {d2[1], d1[1]} = {d1[1], d2[1]}
    OBVIOUS
  <2>3. CASE d1[1] = e \/ d2[1] = e
    BY <1>1, <1>7, <2>1, <2>2, <2>3
  <2>4. CASE d1[1] # e /\ d2[1] # e
    BY <1>1, <1>5, <2>1, <2>4 DEF SwapInv, SwappedRunsExclusive
  <2> QED
    BY <2>3, <2>4
<1>9. ASSUME NEW f \in swapped', NEW g \in Execs, pc'[g] = "commit",
             target[JobOf(f)] = target[JobOf(g)], {f, g} \notin crossed,
             made[g] # {}, NEW d \in lib', d[1] = f
      PROVE  d \in doomed'[g]
  <2>1. g # e /\ pc[g] = "commit" /\ doomed'[g] = doomed[g]
    BY <1>2, <1>9
  <2>2. f # e
    BY <1>1, <1>9, <2>1 DEF SwapInv
  <2>3. d \in lib /\ f \in swapped
    BY <1>1, <1>5, <1>9, <2>2
  <2> QED
    BY <1>9, <2>1, <2>3 DEF SwapInv
<1>10. ASSUME NEW f \in Execs, NEW g \in Execs, f # g, pc'[f] = "commit",
              pc'[g] = "commit", target[JobOf(f)] = target[JobOf(g)]
       PROVE  {f, g} \in crossed
  BY <1>2, <1>10 DEF SwapInv
<1>11. ASSUME NEW f \in Execs, pc'[f] = "commit", made[f] = {},
              target[JobOf(f)] \in GithubSlots
       PROVE  doomed'[f] = {}
  BY <1>2, <1>11 DEF SwapInv
<1>12. /\ \A f \in swapped' : pc'[f] \notin BeforeSwap \cup {"free"}
       /\ \A f \in Execs : pc'[f] \in {"embedding", "dispatch"} => f \in swapped'
  BY <1>1, <1>2, <1>3 DEF SwapInv, BeforeSwap
<1> QED
  BY <1>1, <1>4, <1>8, <1>9, <1>10, <1>11, <1>12 DEF SwapInv

\* Every action preserves SwapInv: all but the two of the delete-old transaction
\* are quiet.
LEMMA SwapStep ==
    ASSUME TypeOK, ControlInv, DocsInv, SwapInv, [Next]_vars
    PROVE  SwapInv'
<1>j. /\ \A e \in Execs : pc[e] # "free" =>
            JobOf(e) \in Jobs /\ api[JobOf(e)] = "done"
      /\ \A d \in lib : d \in made[d[1]]
      /\ \A e \in Execs : \A d \in made[e] : d[1] = e
      /\ \A e \in Execs : pend[e] \subseteq made[e]
      /\ \A e \in swapped : pc[e] \notin BeforeSwap \cup {"free"}
  BY DEF ControlInv, DocsInv, SwapInv, JobOf, Tasks
<1> USE IngestionAssumption DEF vars, dbVars, apiVars, runVars, runLocals, history,
      TypeOK, SwapQuiet, JobOf, BeforeSwap, LiveStates
<1>1. ASSUME NEW j \in Jobs, NEW u \in Users, NEW s \in Slots, RequestGithub(j, u, s)
      PROVE  SwapQuiet
  BY <1>j, <1>1 DEF RequestGithub, ReadBadge
<1>2. ASSUME NEW j \in Jobs, NEW u \in Users, NEW s \in Slots, RequestNotion(j, u, s)
      PROVE  SwapQuiet
  BY <1>j, <1>2 DEF RequestNotion, ReadBadge
<1>3. ASSUME NEW j \in Jobs, CommitRequest(j) PROVE SwapQuiet
  BY <1>j, <1>3 DEF CommitRequest, MarkIndexing
<1>4. ASSUME NEW j \in Jobs, DispatchRequest(j) PROVE SwapQuiet
  BY <1>j, <1>4 DEF DispatchRequest, Send
<1>5. ASSUME NEW j \in Jobs, LoseDispatch(j) PROVE SwapQuiet
  BY <1>j, <1>5 DEF LoseDispatch, Fault, Forsake
<1>6. ASSUME NEW j \in Jobs, ReadForCancel(j) PROVE SwapQuiet
  BY <1>j, <1>6 DEF ReadForCancel
<1>7. ASSUME NEW j \in Jobs, CommitCancel(j) PROVE SwapQuiet
  BY <1>j, <1>7 DEF CommitCancel, HasRow
<1>8. ASSUME NEW u \in Users, WipeLibrary(u) PROVE SwapQuiet
  BY <1>j, <1>8 DEF WipeLibrary, HasRow, Owner, JobOf
<1>9. ASSUME NEW t \in Tasks, NEW e \in Execs, Deliver(t, e) PROVE SwapQuiet
  BY <1>j, <1>9 DEF Deliver, NextExec, Goto
<1>10. ASSUME NEW e \in Execs, Acknowledge(e) PROVE SwapQuiet
  BY <1>j, <1>10 DEF Acknowledge, Goto
<1>11. ASSUME NEW e \in Execs, WorkerDeath(e) PROVE SwapQuiet
  BY <1>j, <1>11 DEF WorkerDeath, Alive, Fault, Goto, Leave, Rollback
<1>12. ASSUME NEW e \in Execs, ChildKilled(e) PROVE SwapQuiet
  BY <1>j, <1>12 DEF ChildKilled, Alive, Fault, Forsake, Goto, Leave, Rollback
<1>13. ASSUME NEW e \in Execs, RestoreLost(e) PROVE SwapQuiet
  BY <1>j, <1>13 DEF RestoreLost, Goto, Send
<1>14. ASSUME NEW e \in Execs, RestoreSlow(e) PROVE SwapQuiet
  BY <1>j, <1>14 DEF RestoreSlow, Alive, Fault, Send
<1>15. ASSUME NEW e \in Execs, RejectUrl(e) PROVE SwapQuiet
  BY <1>j, <1>15 DEF RejectUrl, Goto
<1>16. ASSUME NEW e \in Execs, StartIngest(e) PROVE SwapQuiet
  BY <1>j, <1>16 DEF StartIngest, JobOf, HasRow, Goto
<1>17. ASSUME NEW e \in Execs, NEW n \in 0..MaxFiles, Fetch(e, n)
       PROVE  SwapQuiet
  BY <1>j, <1>17 DEF Fetch, JobOf, HasRow, Goto
<1>18. ASSUME NEW e \in Execs, SkipFile(e) PROVE SwapQuiet
  BY <1>j, <1>18 DEF SkipFile, NextFile, Goto
<1>19. ASSUME NEW e \in Execs, AddFile(e) PROVE SwapQuiet
  BY <1>j, <1>19 DEF AddFile, NextFile, JobOf, HasRow, Goto
<1>20. ASSUME NEW e \in Execs, DeleteGithub(e) PROVE SwapInv'
  BY <1>20, DeleteStep DEF DeleteGithub
<1>21. ASSUME NEW e \in Execs, DeleteNotion(e) PROVE SwapInv'
  BY <1>21, DeleteStep DEF DeleteNotion
<1>22. ASSUME NEW e \in Execs, CommitSwap(e) PROVE SwapInv'
  BY <1>22, CommitStep
<1>23. ASSUME NEW e \in Execs, MarkEmbedding(e) PROVE SwapQuiet
  BY <1>j, <1>23 DEF MarkEmbedding, JobOf, HasRow, Goto
<1>24. ASSUME NEW e \in Execs, DispatchEmbedding(e) PROVE SwapQuiet
  BY <1>j, <1>24 DEF DispatchEmbedding, Send, JobOf, Goto, Leave, Rollback
<1>25. ASSUME NEW e \in Execs, LoadChunks(e) PROVE SwapQuiet
  BY <1>j, <1>25 DEF LoadChunks, ReadList, Owner, JobOf, HasRow, Goto
<1>26. ASSUME NEW e \in Execs, NEW b \in Batches(todo[e]), EmbedBatch(e, b)
       PROVE  SwapQuiet
  BY <1>j, <1>26 DEF EmbedBatch, Batches, JobOf, HasRow, Goto
<1>27. ASSUME NEW e \in Execs, MarkComplete(e) PROVE SwapQuiet
  BY <1>j, <1>27 DEF MarkComplete, JobOf, HasRow, Goto
<1>28. ASSUME NEW e \in Execs, MarkReady(e) PROVE SwapQuiet
  BY <1>j, <1>28 DEF MarkReady, JobOf, HasRow, Goto, Leave, Rollback
<1>29. ASSUME NEW e \in Execs, LoseBadge(e) PROVE SwapQuiet
  BY <1>j, <1>29 DEF LoseBadge, Fault, Forsake, JobOf, Goto, Leave, Rollback
<1>30. ASSUME NEW e \in Execs, Raise(e) PROVE SwapQuiet
  BY <1>j, <1>30 DEF Raise, Alive, Goto, Leave, Rollback
<1>31. ASSUME NEW e \in Execs, MarkFailed(e) PROVE SwapQuiet
  BY <1>j, <1>31 DEF MarkFailed, JobOf, HasRow, Goto
<1>32. ASSUME NEW e \in Execs, LoseReport(e) PROVE SwapQuiet
  BY <1>j, <1>32 DEF LoseReport, Fault, Forsake, JobOf, Goto
<1>33. CASE UNCHANGED vars
  BY <1>33, QuietStep
<1> QED
  BY <1>1, <1>2, <1>3, <1>4, <1>5, <1>6, <1>7, <1>8, <1>9, <1>10, <1>11,
    <1>12, <1>13, <1>14, <1>15, <1>16, <1>17, <1>18, <1>19, <1>20, <1>21,
    <1>22, <1>23, <1>24, <1>25, <1>26, <1>27, <1>28, <1>29, <1>30, <1>31,
    <1>32, <1>33, QuietStep DEF Next, Handlers, RunTask, Environment

\* The layers hold initially ...
LEMMA InitInd == Init => IndInv
<1>1. Init => TypeOK
  BY IngestionAssumption
     DEF Init, TypeOK, Statuses, RowStatuses, Badges, ApiStates, PcStates,
         LiveStates
<1>2. Init => ControlInv
  BY DEF Init, ControlInv
<1>3. Init => DocsInv /\ SwapInv
  BY DEF Init, DocsInv, SwapInv, SwappedRunsExclusive
<1> QED
  BY <1>1, <1>2, <1>3 DEF IndInv

\* ... and together they are inductive.
LEMMA IndStep == IndInv /\ [Next]_vars => IndInv'
  BY TypeStep, ControlStep, DocsStep, SwapStep DEF IndInv

LEMMA IndInvCorrect == Spec => []IndInv
  BY InitInd, IndStep, PTL DEF Spec

\* TypeOK of the Ingestion model: every status, badge, program point, counter
\* and document set stays in its range, whatever the size of the instance.
THEOREM TypeCorrect == Spec => []TypeOK
<1>1. IndInv => TypeOK
  BY DEF IndInv
<1> QED
  BY <1>1, IndInvCorrect, PTL

\* SwappedRunsExclusive: however ingest runs over one repository or workspace
\* overlap, crash or are redelivered, two runs that have deleted the old
\* documents never both have documents in the library, unless the one ran its
\* DELETE while that of the other was not committed.
THEOREM SwapExclusion == Spec => []SwappedRunsExclusive
<1>1. IndInv => SwappedRunsExclusive
  BY DEF IndInv, SwapInv
<1> QED
  BY <1>1, IndInvCorrect, PTL

------------------------------------------------------------------------------
(* Ingestion implements SearchableLibrary                                  *)

\* How one document may move in a transaction of an ingest task or a wipe ...
Published(d) ==
    \/ DocStage(d)' = DocStage(d)
    \/ DocStage(d) = "unwritten" /\ DocStage(d)' = "stored"
    \/ DocStage(d) \in {"stored", "searchable"} /\ DocStage(d)' = "deleted"

\* ... and in one of an embedding task.
Indexed(d) ==
    \/ DocStage(d)' = DocStage(d)
    \/ DocStage(d) = "stored" /\ DocStage(d)' = "searchable"

DocStep == (\A d \in Docs : Published(d)) \/ (\A d \in Docs : Indexed(d))

\* Every action moves the documents as Publish or as IndexBatch allows, or not
\* at all.
LEMMA StageStep ==
    ASSUME TypeOK, ControlInv, DocsInv, [Next]_vars
    PROVE  DocStep
<1> USE IngestionAssumption DEF vars, dbVars, apiVars, runVars, runLocals, history,
      TypeOK, DocsInv, LiveStates, Docs, DocStep, Published, Indexed, DocStage
<1>1. ASSUME NEW j \in Jobs, NEW u \in Users, NEW s \in Slots, RequestGithub(j, u, s)
      PROVE  DocStep
  BY <1>1 DEF RequestGithub, ReadBadge
<1>2. ASSUME NEW j \in Jobs, NEW u \in Users, NEW s \in Slots, RequestNotion(j, u, s)
      PROVE  DocStep
  BY <1>2 DEF RequestNotion, ReadBadge
<1>3. ASSUME NEW j \in Jobs, CommitRequest(j) PROVE DocStep
  BY <1>3 DEF CommitRequest, MarkIndexing
<1>4. ASSUME NEW j \in Jobs, DispatchRequest(j) PROVE DocStep
  BY <1>4 DEF DispatchRequest, Send
<1>5. ASSUME NEW j \in Jobs, LoseDispatch(j) PROVE DocStep
  BY <1>5 DEF LoseDispatch, Fault, Forsake
<1>6. ASSUME NEW j \in Jobs, ReadForCancel(j) PROVE DocStep
  BY <1>6 DEF ReadForCancel
<1>7. ASSUME NEW j \in Jobs, CommitCancel(j) PROVE DocStep
  BY <1>7 DEF CommitCancel, HasRow
<1>8. ASSUME NEW u \in Users, WipeLibrary(u) PROVE DocStep
  BY <1>8 DEF WipeLibrary, HasRow, Owner, JobOf
<1>9. ASSUME NEW t \in Tasks, NEW e \in Execs, Deliver(t, e) PROVE DocStep
  BY <1>9 DEF Deliver, NextExec, Goto
<1>10. ASSUME NEW e \in Execs, Acknowledge(e) PROVE DocStep
  BY <1>10 DEF Acknowledge, Goto
<1>11. ASSUME NEW e \in Execs, WorkerDeath(e) PROVE DocStep
  BY <1>11 DEF WorkerDeath, Alive, Fault, Goto, Leave, Rollback
<1>12. ASSUME NEW e \in Execs, ChildKilled(e) PROVE DocStep
  BY <1>12 DEF ChildKilled, Alive, Fault, Forsake, Goto, Leave, Rollback
<1>13. ASSUME NEW e \in Execs, RestoreLost(e) PROVE DocStep
  BY <1>13 DEF RestoreLost, Goto, Send
<1>14. ASSUME NEW e \in Execs, RestoreSlow(e) PROVE DocStep
  BY <1>14 DEF RestoreSlow, Alive, Fault, Send
<1>15. ASSUME NEW e \in Execs, RejectUrl(e) PROVE DocStep
  BY <1>15 DEF RejectUrl, Goto
<1>16. ASSUME NEW e \in Execs, StartIngest(e) PROVE DocStep
  BY <1>16 DEF StartIngest, JobOf, HasRow, Goto
<1>17. ASSUME NEW e \in Execs, NEW n \in 0..MaxFiles, Fetch(e, n)
       PROVE  DocStep
  BY <1>17 DEF Fetch, JobOf, HasRow, Goto
<1>18. ASSUME NEW e \in Execs, SkipFile(e) PROVE DocStep
  BY <1>18 DEF SkipFile, NextFile, Goto
<1>19. ASSUME NEW e \in Execs, AddFile(e) PROVE DocStep
  BY <1>19 DEF AddFile, NextFile, JobOf, HasRow, Goto
<1>20. ASSUME NEW e \in Execs, DeleteGithub(e) PROVE DocStep
  BY <1>20 DEF DeleteGithub, AwaitCommit, DeleteOthers, SlotOf, JobOf, Goto
<1>21. ASSUME NEW e \in Execs, DeleteNotion(e) PROVE DocStep
  BY <1>21 DEF DeleteNotion, AwaitCommit, DeleteOthers, SlotOf, JobOf, Goto
<1>22. ASSUME NEW e \in Execs, CommitSwap(e) PROVE DocStep
  BY <1>22 DEF CommitSwap, JobOf, Goto
<1>23. ASSUME NEW e \in Execs, MarkEmbedding(e) PROVE DocStep
  BY <1>23 DEF MarkEmbedding, JobOf, HasRow, Goto
<1>24. ASSUME NEW e \in Execs, DispatchEmbedding(e) PROVE DocStep
  BY <1>24 DEF DispatchEmbedding, Send, JobOf, Goto, Leave, Rollback
<1>25. ASSUME NEW e \in Execs, LoadChunks(e) PROVE DocStep
  BY <1>25 DEF LoadChunks, ReadList, Owner, JobOf, HasRow, Goto
<1>26. ASSUME NEW e \in Execs, NEW b \in Batches(todo[e]), EmbedBatch(e, b)
       PROVE  DocStep
  BY <1>26 DEF EmbedBatch, Batches, JobOf, HasRow, Goto
<1>27. ASSUME NEW e \in Execs, MarkComplete(e) PROVE DocStep
  BY <1>27 DEF MarkComplete, JobOf, HasRow, Goto
<1>28. ASSUME NEW e \in Execs, MarkReady(e) PROVE DocStep
  BY <1>28 DEF MarkReady, JobOf, HasRow, Goto, Leave, Rollback
<1>29. ASSUME NEW e \in Execs, LoseBadge(e) PROVE DocStep
  BY <1>29 DEF LoseBadge, Fault, Forsake, JobOf, Goto, Leave, Rollback
<1>30. ASSUME NEW e \in Execs, Raise(e) PROVE DocStep
  BY <1>30 DEF Raise, Alive, Goto, Leave, Rollback
<1>31. ASSUME NEW e \in Execs, MarkFailed(e) PROVE DocStep
  BY <1>31 DEF MarkFailed, JobOf, HasRow, Goto
<1>32. ASSUME NEW e \in Execs, LoseReport(e) PROVE DocStep
  BY <1>32 DEF LoseReport, Fault, Forsake, JobOf, Goto
<1>33. CASE UNCHANGED vars
  BY <1>33
<1> QED
  BY <1>1, <1>2, <1>3, <1>4, <1>5, <1>6, <1>7, <1>8, <1>9, <1>10, <1>11,
    <1>12, <1>13, <1>14, <1>15, <1>16, <1>17, <1>18, <1>19, <1>20, <1>21,
    <1>22, <1>23, <1>24, <1>25, <1>26, <1>27, <1>28, <1>29, <1>30, <1>31,
    <1>32, <1>33 DEF Next, Handlers, RunTask, Environment

\* DocumentsNeverReturn: through DocStage the pipeline implements
\* SearchableLibrary, in which a document is stored, becomes searchable, is
\* deleted, and never comes back.
THEOREM ImplementsLibrary == Spec => DocumentsNeverReturn
<1> DEFINE stageBar == [d \in Docs |-> DocStage(d)]
<1>1. Init => Library!LibInit
  BY DEF Init, Library!LibInit, DocStage, Docs
<1>2. IndInv /\ [Next]_vars => [Library!LibNext]_stageBar
  <2> SUFFICES ASSUME IndInv, [Next]_vars
               PROVE  Library!LibNext
    OBVIOUS
  <2>1. stageBar' \in [Docs -> Library!Stages]
    BY DEF DocStage, Library!Stages
  <2>2. CASE \A d \in Docs : Published(d)
    BY <2>1, <2>2
       DEF Published, Library!LibNext, Library!Publish, Library!Same,
           Library!Store, Library!Delete
  <2>3. CASE \A d \in Docs : Indexed(d)
    BY <2>1, <2>3
       DEF Indexed, Library!LibNext, Library!IndexBatch, Library!Same,
           Library!Index
  <2> QED
    BY <2>2, <2>3, StageStep DEF IndInv, DocStep
<1> QED
  BY <1>1, <1>2, IndInvCorrect, PTL
     DEF Spec, DocumentsNeverReturn, Library!LibSpec

------------------------------------------------------------------------------
(* A complete job is searchable                                            *)

\* Each program point belongs to one of the two task functions, and only an
\* ingest task makes documents: one that finishes directly made none.
RoleInv ==
    \A e \in Execs :
        /\ pc[e] \in BeforeSwap \cup {"embedding", "dispatch"}
               => task[e][1] = "ingest"
        /\ pc[e] \in {"load", "batch"} => task[e][1] = "embed"
        /\ pc[e] = "finish" /\ task[e][1] = "ingest" => made[e] = {}
        /\ made[e] # {} => task[e][1] = "ingest"
        /\ pc[e] \in BeforeSwap \cup {"free", "load", "finish"} => todo[e] = {}

\* An embedding task of a job is only ever sent by a run of the job that has
\* performed its delete-old transaction.
OrderInv ==
    \A j \in Jobs :
        \/ queue[<<"embed", j>>] > 0
        \/ \E x \in Execs : task[x] = <<"embed", j>>
        => \E e \in IngestRuns(j) : e \in swapped

\* A job with one ingest run: once its embedding task has read the chunks, all
\* documents of the run are embedded or still to do; and once the job is
\* complete, the run adds no more.
SearchInv ==
    /\ \A x \in Execs :
        /\ pc[x] \in {"batch", "finish"}
        /\ task[x][1] = "embed"
        /\ DeliveredOnce(JobOf(x))
        => \A d \in lib : JobOf(d[1]) = JobOf(x) => d \in emb \cup todo[x]
    /\ \A j \in Jobs : status[j] = "complete" =>
        /\ IngestRuns(j) # {}
        /\ DeliveredOnce(j) => \A e \in IngestRuns(j) : pc[e] \notin BeforeSwap
    /\ CompleteIsSearchable

SearchIndInv == IndInv /\ RoleInv /\ OrderInv /\ SearchInv

------------------------------------------------------------------------------
(* What one step may do                                                    *)

\* The broker holds only what was requested or what a run dispatched, and an
\* execution executes one message for good.
MessageFacts ==
    /\ swapped \subseteq swapped'
    /\ \A e \in Execs : pc'[e] \in BeforeSwap => pc[e] \in BeforeSwap \cup {"free"}
    /\ \A e \in Execs : task'[e] # task[e] => pc[e] = "free" /\ queue[task'[e]] > 0
    /\ \A j \in Jobs : queue'[<<"embed", j>>] > 0 =>
          \/ queue[<<"embed", j>>] > 0
          \/ \E x \in Execs : task[x] = <<"embed", j>>
          \/ \E e \in Execs : pc[e] = "dispatch" /\ JobOf(e) = j

\* Documents are added by runs before their delete-old transaction only, what
\* stays in the library stays embedded, and only a task at its end completes a
\* job.
DocumentFacts ==
    /\ \A d \in lib' \ lib : pc[d[1]] \in BeforeSwap
    /\ \A d \in lib' : d \in emb => d \in emb'
    /\ \A j \in Jobs : status'[j] = "complete" =>
          \/ status[j] = "complete"
          \/ \E e \in Execs : pc[e] = "finish" /\ JobOf(e) = j

\* The chunks an embedding task has read stay on its list until embedded.
ListFacts ==
    \A x \in Execs : pc'[x] \in {"batch", "finish"} /\ task'[x][1] = "embed" =>
        \/ /\ pc[x] \in {"batch", "finish"}
           /\ \A d \in lib' : d \in todo[x] => d \in emb' \cup todo'[x]
        \/ /\ pc[x] = "load"
           /\ lib' = lib
           /\ \A d \in lib : Owner(d) = asker[JobOf(x)] => d \in emb \cup todo'[x]

Facts == MessageFacts /\ DocumentFacts /\ ListFacts

\* Every action respects MessageFacts.
LEMMA MessageStep ==
    ASSUME TypeOK, ControlInv, RoleInv, [Next]_vars
    PROVE  MessageFacts
<1> USE IngestionAssumption DEF vars, dbVars, apiVars, runVars, runLocals, history,
      TypeOK, ControlInv, MessageFacts, BeforeSwap, LiveStates, JobOf, Tasks,
      Kinds
<1>1. ASSUME NEW j \in Jobs, NEW u \in Users, NEW s \in Slots, RequestGithub(j, u, s)
      PROVE  MessageFacts
  BY <1>1 DEF RequestGithub, ReadBadge
<1>2. ASSUME NEW j \in Jobs, NEW u \in Users, NEW s \in Slots, RequestNotion(j, u, s)
      PROVE  MessageFacts
  BY <1>2 DEF RequestNotion, ReadBadge
<1>3. ASSUME NEW j \in Jobs, CommitRequest(j) PROVE MessageFacts
  BY <1>3 DEF CommitRequest, MarkIndexing
<1>4. ASSUME NEW j \in Jobs, DispatchRequest(j) PROVE MessageFacts
  BY <1>4 DEF DispatchRequest, Send
<1>5. ASSUME NEW j \in Jobs, LoseDispatch(j) PROVE MessageFacts
  BY <1>5 DEF LoseDispatch, Fault, Forsake
<1>6. ASSUME NEW j \in Jobs, ReadForCancel(j) PROVE MessageFacts
  BY <1>6 DEF ReadForCancel
<1>7. ASSUME NEW j \in Jobs, CommitCancel(j) PROVE MessageFacts
  BY <1>7 DEF CommitCancel, HasRow
<1>8. ASSUME NEW u \in Users, WipeLibrary(u) PROVE MessageFacts
  BY <1>8 DEF WipeLibrary, HasRow, Owner, JobOf
<1>9. ASSUME NEW t \in Tasks, NEW e \in Execs, Deliver(t, e)
      PROVE  MessageFacts
  BY <1>9 DEF Deliver, NextExec, Goto
<1>10. ASSUME NEW e \in Execs, Acknowledge(e) PROVE MessageFacts
  BY <1>10 DEF Acknowledge, Goto
<1>11. ASSUME NEW e \in Execs, WorkerDeath(e) PROVE MessageFacts
  BY <1>11 DEF WorkerDeath, Alive, Fault, Goto, Leave, Rollback
<1>12. ASSUME NEW e \in Execs, ChildKilled(e) PROVE MessageFacts
  BY <1>12 DEF ChildKilled, Alive, Fault, Forsake, Goto, Leave, Rollback
<1>13. ASSUME NEW e \in Execs, RestoreLost(e) PROVE MessageFacts
  BY <1>13 DEF RestoreLost, Goto, Send
<1>14. ASSUME NEW e \in Execs, RestoreSlow(e) PROVE MessageFacts
  BY <1>14 DEF RestoreSlow, Alive, Fault, Send
<1>15. ASSUME NEW e \in Execs, RejectUrl(e) PROVE MessageFacts
  BY <1>15 DEF RejectUrl, Goto
<1>16. ASSUME NEW e \in Execs, StartIngest(e) PROVE MessageFacts
  BY <1>16 DEF StartIngest, JobOf, HasRow, Goto
<1>17. ASSUME NEW e \in Execs, NEW n \in 0..MaxFiles, Fetch(e, n)
       PROVE  MessageFacts
  BY <1>17 DEF Fetch, JobOf, HasRow, Goto
<1>18. ASSUME NEW e \in Execs, SkipFile(e) PROVE MessageFacts
  BY <1>18 DEF SkipFile, NextFile, Goto
<1>19. ASSUME NEW e \in Execs, AddFile(e) PROVE MessageFacts
  BY <1>19 DEF AddFile, NextFile, JobOf, HasRow, Goto
<1>20. ASSUME NEW e \in Execs, DeleteGithub(e) PROVE MessageFacts
  BY <1>20 DEF DeleteGithub, AwaitCommit, DeleteOthers, SlotOf, JobOf, Goto
<1>21. ASSUME NEW e \in Execs, DeleteNotion(e) PROVE MessageFacts
  BY <1>21 DEF DeleteNotion, AwaitCommit, DeleteOthers, SlotOf, JobOf, Goto
<1>22. ASSUME NEW e \in Execs, CommitSwap(e) PROVE MessageFacts
  BY <1>22 DEF CommitSwap, JobOf, Goto
<1>23. ASSUME NEW e \in Execs, MarkEmbedding(e) PROVE MessageFacts
  BY <1>23 DEF MarkEmbedding, JobOf, HasRow, Goto
<1>24. ASSUME NEW e \in Execs, DispatchEmbedding(e) PROVE MessageFacts
  BY <1>24 DEF DispatchEmbedding, Send, JobOf, Goto, Leave, Rollback
<1>25. ASSUME NEW e \in Execs, LoadChunks(e) PROVE MessageFacts
  BY <1>25 DEF LoadChunks, ReadList, Owner, JobOf, HasRow, Goto
<1>26. ASSUME NEW e \in Execs, NEW b \in Batches(todo[e]), EmbedBatch(e, b)
       PROVE  MessageFacts
  BY <1>26 DEF EmbedBatch, Batches, JobOf, HasRow, Goto
<1>27. ASSUME NEW e \in Execs, MarkComplete(e) PROVE MessageFacts
  BY <1>27 DEF MarkComplete, JobOf, HasRow, Goto
<1>28. ASSUME NEW e \in Execs, MarkReady(e) PROVE MessageFacts
  BY <1>28 DEF MarkReady, JobOf, HasRow, Goto, Leave, Rollback
<1>29. ASSUME NEW e \in Execs, LoseBadge(e) PROVE MessageFacts
  BY <1>29 DEF LoseBadge, Fault, Forsake, JobOf, Goto, Leave, Rollback
<1>30. ASSUME NEW e \in Execs, Raise(e) PROVE MessageFacts
  BY <1>30 DEF Raise, Alive, Goto, Leave, Rollback
<1>31. ASSUME NEW e \in Execs, MarkFailed(e) PROVE MessageFacts
  BY <1>31 DEF MarkFailed, JobOf, HasRow, Goto
<1>32. ASSUME NEW e \in Execs, LoseReport(e) PROVE MessageFacts
  BY <1>32 DEF LoseReport, Fault, Forsake, JobOf, Goto
<1>33. CASE UNCHANGED vars
  BY <1>33
<1> QED
  BY <1>1, <1>2, <1>3, <1>4, <1>5, <1>6, <1>7, <1>8, <1>9, <1>10, <1>11,
    <1>12, <1>13, <1>14, <1>15, <1>16, <1>17, <1>18, <1>19, <1>20, <1>21,
    <1>22, <1>23, <1>24, <1>25, <1>26, <1>27, <1>28, <1>29, <1>30, <1>31,
    <1>32, <1>33 DEF Next, Handlers, RunTask, Environment

\* Every action respects DocumentFacts.
LEMMA DocumentStep ==
    ASSUME TypeOK, ControlInv, RoleInv, DocsInv, [Next]_vars
    PROVE  DocumentFacts
<1> USE IngestionAssumption DEF vars, dbVars, apiVars, runVars, runLocals, history,
      TypeOK, DocsInv, DocumentFacts, BeforeSwap, LiveStates, JobOf
<1>1. ASSUME NEW j \in Jobs, NEW u \in Users, NEW s \in Slots, RequestGithub(j, u, s)
      PROVE  DocumentFacts
  BY <1>1 DEF RequestGithub, ReadBadge
<1>2. ASSUME NEW j \in Jobs, NEW u \in Users, NEW s \in Slots, RequestNotion(j, u, s)
      PROVE  DocumentFacts
  BY <1>2 DEF RequestNotion, ReadBadge
<1>3. ASSUME NEW j \in Jobs, CommitRequest(j) PROVE DocumentFacts
  BY <1>3 DEF CommitRequest, MarkIndexing
<1>4. ASSUME NEW j \in Jobs, DispatchRequest(j) PROVE DocumentFacts
  BY <1>4 DEF DispatchRequest, Send
<1>5. ASSUME NEW j \in Jobs, LoseDispatch(j) PROVE DocumentFacts
  BY <1>5 DEF LoseDispatch, Fault, Forsake
<1>6. ASSUME NEW j \in Jobs, ReadForCancel(j) PROVE DocumentFacts
  BY <1>6 DEF ReadForCancel
<1>7. ASSUME NEW j \in Jobs, CommitCancel(j) PROVE DocumentFacts
  BY <1>7 DEF CommitCancel, HasRow
<1>8. ASSUME NEW u \in Users, WipeLibrary(u) PROVE DocumentFacts
  BY <1>8 DEF WipeLibrary, HasRow, Owner, JobOf
<1>9. ASSUME NEW t \in Tasks, NEW e \in Execs, Deliver(t, e)
      PROVE  DocumentFacts
  BY <1>9 DEF Deliver, NextExec, Goto
<1>10. ASSUME NEW e \in Execs, Acknowledge(e) PROVE DocumentFacts
  BY <1>10 DEF Acknowledge, Goto
<1>11. ASSUME NEW e \in Execs, WorkerDeath(e) PROVE DocumentFacts
  BY <1>11 DEF WorkerDeath, Alive, Fault, Goto, Leave, Rollback
<1>12. ASSUME NEW e \in Execs, ChildKilled(e) PROVE DocumentFacts
  BY <1>12 DEF ChildKilled, Alive, Fault, Forsake, Goto, Leave, Rollback
<1>13. ASSUME NEW e \in Execs, RestoreLost(e) PROVE DocumentFacts
  BY <1>13 DEF RestoreLost, Goto, Send
<1>14. ASSUME NEW e \in Execs, RestoreSlow(e) PROVE DocumentFacts
  BY <1>14 DEF RestoreSlow, Alive, Fault, Send
<1>15. ASSUME NEW e \in Execs, RejectUrl(e) PROVE DocumentFacts
  BY <1>15 DEF RejectUrl, Goto
<1>16. ASSUME NEW e \in Execs, StartIngest(e) PROVE DocumentFacts
  BY <1>16 DEF StartIngest, JobOf, HasRow, Goto
<1>17. ASSUME NEW e \in Execs, NEW n \in 0..MaxFiles, Fetch(e, n)
       PROVE  DocumentFacts
  BY <1>17 DEF Fetch, JobOf, HasRow, Goto
<1>18. ASSUME NEW e \in Execs, SkipFile(e) PROVE DocumentFacts
  BY <1>18 DEF SkipFile, NextFile, Goto
<1>19. ASSUME NEW e \in Execs, AddFile(e) PROVE DocumentFacts
  BY <1>19 DEF AddFile, NextFile, JobOf, HasRow, Goto
<1>20. ASSUME NEW e \in Execs, DeleteGithub(e) PROVE DocumentFacts
  BY <1>20 DEF DeleteGithub, AwaitCommit, DeleteOthers, SlotOf, JobOf, Goto
<1>21. ASSUME NEW e \in Execs, DeleteNotion(e) PROVE DocumentFacts
  BY <1>21 DEF DeleteNotion, AwaitCommit, DeleteOthers, SlotOf, JobOf, Goto
<1>22. ASSUME NEW e \in Execs, CommitSwap(e) PROVE DocumentFacts
  BY <1>22 DEF CommitSwap, JobOf, Goto
<1>23. ASSUME NEW e \in Execs, MarkEmbedding(e) PROVE DocumentFacts
  BY <1>23 DEF MarkEmbedding, JobOf, HasRow, Goto
<1>24. ASSUME NEW e \in Execs, DispatchEmbedding(e) PROVE DocumentFacts
  BY <1>24 DEF DispatchEmbedding, Send, JobOf, Goto, Leave, Rollback
<1>25. ASSUME NEW e \in Execs, LoadChunks(e) PROVE DocumentFacts
  BY <1>25 DEF LoadChunks, ReadList, Owner, JobOf, HasRow, Goto
<1>26. ASSUME NEW e \in Execs, NEW b \in Batches(todo[e]), EmbedBatch(e, b)
       PROVE  DocumentFacts
  BY <1>26 DEF EmbedBatch, Batches, JobOf, HasRow, Goto
<1>27. ASSUME NEW e \in Execs, MarkComplete(e) PROVE DocumentFacts
  BY <1>27 DEF MarkComplete, JobOf, HasRow, Goto
<1>28. ASSUME NEW e \in Execs, MarkReady(e) PROVE DocumentFacts
  BY <1>28 DEF MarkReady, JobOf, HasRow, Goto, Leave, Rollback
<1>29. ASSUME NEW e \in Execs, LoseBadge(e) PROVE DocumentFacts
  BY <1>29 DEF LoseBadge, Fault, Forsake, JobOf, Goto, Leave, Rollback
<1>30. ASSUME NEW e \in Execs, Raise(e) PROVE DocumentFacts
  BY <1>30 DEF Raise, Alive, Goto, Leave, Rollback
<1>31. ASSUME NEW e \in Execs, MarkFailed(e) PROVE DocumentFacts
  BY <1>31 DEF MarkFailed, JobOf, HasRow, Goto
<1>32. ASSUME NEW e \in Execs, LoseReport(e) PROVE DocumentFacts
  BY <1>32 DEF LoseReport, Fault, Forsake, JobOf, Goto
<1>33. CASE UNCHANGED vars
  BY <1>33
<1> QED
  BY <1>1, <1>2, <1>3, <1>4, <1>5, <1>6, <1>7, <1>8, <1>9, <1>10, <1>11,
    <1>12, <1>13, <1>14, <1>15, <1>16, <1>17, <1>18, <1>19, <1>20, <1>21,
    <1>22, <1>23, <1>24, <1>25, <1>26, <1>27, <1>28, <1>29, <1>30, <1>31,
    <1>32, <1>33 DEF Next, Handlers, RunTask, Environment

\* Every action respects ListFacts.
LEMMA ListStep ==
    ASSUME TypeOK, ControlInv, RoleInv, DocsInv, [Next]_vars
    PROVE  ListFacts
<1> USE IngestionAssumption DEF vars, dbVars, apiVars, runVars, runLocals, history,
      TypeOK, ControlInv, RoleInv, DocsInv, ListFacts, BeforeSwap, LiveStates,
      JobOf, Owner
<1>1. ASSUME NEW j \in Jobs, NEW u \in Users, NEW s \in Slots, RequestGithub(j, u, s)
      PROVE  ListFacts
  BY <1>1 DEF RequestGithub, ReadBadge
<1>2. ASSUME NEW j \in Jobs, NEW u \in Users, NEW s \in Slots, RequestNotion(j, u, s)
      PROVE  ListFacts
  BY <1>2 DEF RequestNotion, ReadBadge
<1>3. ASSUME NEW j \in Jobs, CommitRequest(j) PROVE ListFacts
  BY <1>3 DEF CommitRequest, MarkIndexing
<1>4. ASSUME NEW j \in Jobs, DispatchRequest(j) PROVE ListFacts
  BY <1>4 DEF DispatchRequest, Send
<1>5. ASSUME NEW j \in Jobs, LoseDispatch(j) PROVE ListFacts
  BY <1>5 DEF LoseDispatch, Fault, Forsake
<1>6. ASSUME NEW j \in Jobs, ReadForCancel(j) PROVE ListFacts
  BY <1>6 DEF ReadForCancel
<1>7. ASSUME NEW j \in Jobs, CommitCancel(j) PROVE ListFacts
  BY <1>7 DEF CommitCancel, HasRow
<1>8. ASSUME NEW u \in Users, WipeLibrary(u) PROVE ListFacts
  BY <1>8 DEF WipeLibrary, HasRow, Owner, JobOf
<1>9. ASSUME NEW t \in Tasks, NEW e \in Execs, Deliver(t, e) PROVE ListFacts
  BY <1>9 DEF Deliver, NextExec, Goto
<1>10. ASSUME NEW e \in Execs, Acknowledge(e) PROVE ListFacts
  BY <1>10 DEF Acknowledge, Goto
<1>11. ASSUME NEW e \in Execs, WorkerDeath(e) PROVE ListFacts
  BY <1>11 DEF WorkerDeath, Alive, Fault, Goto, Leave, Rollback
<1>12. ASSUME NEW e \in Execs, ChildKilled(e) PROVE ListFacts
  BY <1>12 DEF ChildKilled, Alive, Fault, Forsake, Goto, Leave, Rollback
<1>13. ASSUME NEW e \in Execs, RestoreLost(e) PROVE ListFacts
  BY <1>13 DEF RestoreLost, Goto, Send
<1>14. ASSUME NEW e \in Execs, RestoreSlow(e) PROVE ListFacts
  BY <1>14 DEF RestoreSlow, Alive, Fault, Send
<1>15. ASSUME NEW e \in Execs, RejectUrl(e) PROVE ListFacts
  BY <1>15 DEF RejectUrl, Goto
<1>16. ASSUME NEW e \in Execs, StartIngest(e) PROVE ListFacts
  BY <1>16 DEF StartIngest, JobOf, HasRow, Goto
<1>17. ASSUME NEW e \in Execs, NEW n \in 0..MaxFiles, Fetch(e, n)
       PROVE  ListFacts
  BY <1>17 DEF Fetch, JobOf, HasRow, Goto
<1>18. ASSUME NEW e \in Execs, SkipFile(e) PROVE ListFacts
  BY <1>18 DEF SkipFile, NextFile, Goto
<1>19. ASSUME NEW e \in Execs, AddFile(e) PROVE ListFacts
  BY <1>19 DEF AddFile, NextFile, JobOf, HasRow, Goto
<1>20. ASSUME NEW e \in Execs, DeleteGithub(e) PROVE ListFacts
  BY <1>20 DEF DeleteGithub, AwaitCommit, DeleteOthers, SlotOf, JobOf, Goto
<1>21. ASSUME NEW e \in Execs, DeleteNotion(e) PROVE ListFacts
  BY <1>21 DEF DeleteNotion, AwaitCommit, DeleteOthers, SlotOf, JobOf, Goto
<1>22. ASSUME NEW e \in Execs, CommitSwap(e) PROVE ListFacts
  BY <1>22 DEF CommitSwap, JobOf, Goto
<1>23. ASSUME NEW e \in Execs, MarkEmbedding(e) PROVE ListFacts
  BY <1>23 DEF MarkEmbedding, JobOf, HasRow, Goto
<1>24. ASSUME NEW e \in Execs, DispatchEmbedding(e) PROVE ListFacts
  BY <1>24 DEF DispatchEmbedding, Send, JobOf, Goto, Leave, Rollback
<1>25. ASSUME NEW e \in Execs, LoadChunks(e) PROVE ListFacts
  BY <1>25 DEF LoadChunks, ReadList, Owner, JobOf, HasRow, Goto
<1>26. ASSUME NEW e \in Execs, NEW b \in Batches(todo[e]), EmbedBatch(e, b)
       PROVE  ListFacts
  BY <1>26 DEF EmbedBatch, Batches, JobOf, HasRow, Goto
<1>27. ASSUME NEW e \in Execs, MarkComplete(e) PROVE ListFacts
  BY <1>27 DEF MarkComplete, JobOf, HasRow, Goto
<1>28. ASSUME NEW e \in Execs, MarkReady(e) PROVE ListFacts
  BY <1>28 DEF MarkReady, JobOf, HasRow, Goto, Leave, Rollback
<1>29. ASSUME NEW e \in Execs, LoseBadge(e) PROVE ListFacts
  BY <1>29 DEF LoseBadge, Fault, Forsake, JobOf, Goto, Leave, Rollback
<1>30. ASSUME NEW e \in Execs, Raise(e) PROVE ListFacts
  BY <1>30 DEF Raise, Alive, Goto, Leave, Rollback
<1>31. ASSUME NEW e \in Execs, MarkFailed(e) PROVE ListFacts
  BY <1>31 DEF MarkFailed, JobOf, HasRow, Goto
<1>32. ASSUME NEW e \in Execs, LoseReport(e) PROVE ListFacts
  BY <1>32 DEF LoseReport, Fault, Forsake, JobOf, Goto
<1>33. CASE UNCHANGED vars
  BY <1>33
<1> QED
  BY <1>1, <1>2, <1>3, <1>4, <1>5, <1>6, <1>7, <1>8, <1>9, <1>10, <1>11,
    <1>12, <1>13, <1>14, <1>15, <1>16, <1>17, <1>18, <1>19, <1>20, <1>21,
    <1>22, <1>23, <1>24, <1>25, <1>26, <1>27, <1>28, <1>29, <1>30, <1>31,
    <1>32, <1>33 DEF Next, Handlers, RunTask, Environment

------------------------------------------------------------------------------
(* The layers of the invariant                                             *)

\* Every action preserves RoleInv.
LEMMA RoleStep ==
    ASSUME TypeOK, ControlInv, DocsInv, RoleInv, [Next]_vars
    PROVE  RoleInv'
<1> USE IngestionAssumption DEF vars, dbVars, apiVars, runVars, runLocals, history,
      TypeOK, RoleInv, BeforeSwap, LiveStates, Tasks, NoTask
<1>1. ASSUME NEW j \in Jobs, NEW u \in Users, NEW s \in Slots, RequestGithub(j, u, s)
      PROVE  RoleInv'
  BY <1>1 DEF RequestGithub, ReadBadge
<1>2. ASSUME NEW j \in Jobs, NEW u \in Users, NEW s \in Slots, RequestNotion(j, u, s)
      PROVE  RoleInv'
  BY <1>2 DEF RequestNotion, ReadBadge
<1>3. ASSUME NEW j \in Jobs, CommitRequest(j) PROVE RoleInv'
  BY <1>3 DEF CommitRequest, MarkIndexing
<1>4. ASSUME NEW j \in Jobs, DispatchRequest(j) PROVE RoleInv'
  BY <1>4 DEF DispatchRequest, Send
<1>5. ASSUME NEW j \in Jobs, LoseDispatch(j) PROVE RoleInv'
  BY <1>5 DEF LoseDispatch, Fault, Forsake
<1>6. ASSUME NEW j \in Jobs, ReadForCancel(j) PROVE RoleInv'
  BY <1>6 DEF ReadForCancel
<1>7. ASSUME NEW j \in Jobs, CommitCancel(j) PROVE RoleInv'
  BY <1>7 DEF CommitCancel, HasRow
<1>8. ASSUME NEW u \in Users, WipeLibrary(u) PROVE RoleInv'
  BY <1>8 DEF WipeLibrary, HasRow, Owner, JobOf
<1>9. ASSUME NEW t \in Tasks, NEW e \in Execs, Deliver(t, e) PROVE RoleInv'
  BY <1>9 DEF Deliver, NextExec, Goto, ControlInv, DocsInv, Kinds
<1>10. ASSUME NEW e \in Execs, Acknowledge(e) PROVE RoleInv'
  BY <1>10 DEF Acknowledge, Goto
<1>11. ASSUME NEW e \in Execs, WorkerDeath(e) PROVE RoleInv'
  BY <1>11 DEF WorkerDeath, Alive, Fault, Goto, Leave, Rollback
<1>12. ASSUME NEW e \in Execs, ChildKilled(e) PROVE RoleInv'
  BY <1>12 DEF ChildKilled, Alive, Fault, Forsake, Goto, Leave, Rollback
<1>13. ASSUME NEW e \in Execs, RestoreLost(e) PROVE RoleInv'
  BY <1>13 DEF RestoreLost, Goto, Send
<1>14. ASSUME NEW e \in Execs, RestoreSlow(e) PROVE RoleInv'
  BY <1>14 DEF RestoreSlow, Alive, Fault, Send
<1>15. ASSUME NEW e \in Execs, RejectUrl(e) PROVE RoleInv'
  BY <1>15 DEF RejectUrl, Goto
<1>16. ASSUME NEW e \in Execs, StartIngest(e) PROVE RoleInv'
  BY <1>16 DEF StartIngest, JobOf, HasRow, Goto
<1>17. ASSUME NEW e \in Execs, NEW n \in 0..MaxFiles, Fetch(e, n)
       PROVE  RoleInv'
  BY <1>17 DEF Fetch, JobOf, HasRow, Goto, DocsInv
<1>18. ASSUME NEW e \in Execs, SkipFile(e) PROVE RoleInv'
  BY <1>18 DEF SkipFile, NextFile, Goto
<1>19. ASSUME NEW e \in Execs, AddFile(e) PROVE RoleInv'
  BY <1>19 DEF AddFile, NextFile, JobOf, HasRow, Goto
<1>20. ASSUME NEW e \in Execs, DeleteGithub(e) PROVE RoleInv'
  BY <1>20 DEF DeleteGithub, AwaitCommit, DeleteOthers, SlotOf, JobOf, Goto
<1>21. ASSUME NEW e \in Execs, DeleteNotion(e) PROVE RoleInv'
  BY <1>21 DEF DeleteNotion, AwaitCommit, DeleteOthers, SlotOf, JobOf, Goto
<1>22. ASSUME NEW e \in Execs, CommitSwap(e) PROVE RoleInv'
  BY <1>22 DEF CommitSwap, JobOf, Goto
<1>23. ASSUME NEW e \in Execs, MarkEmbedding(e) PROVE RoleInv'
  BY <1>23 DEF MarkEmbedding, JobOf, HasRow, Goto
<1>24. ASSUME NEW e \in Execs, DispatchEmbedding(e) PROVE RoleInv'
  BY <1>24 DEF DispatchEmbedding, Send, JobOf, Goto, Leave, Rollback
<1>25. ASSUME NEW e \in Execs, LoadChunks(e) PROVE RoleInv'
  BY <1>25 DEF LoadChunks, ReadList, Owner, JobOf, HasRow, Goto
<1>26. ASSUME NEW e \in Execs, NEW b \in Batches(todo[e]), EmbedBatch(e, b)
       PROVE  RoleInv'
  BY <1>26 DEF EmbedBatch, Batches, JobOf, HasRow, Goto
<1>27. ASSUME NEW e \in Execs, MarkComplete(e) PROVE RoleInv'
  BY <1>27 DEF MarkComplete, JobOf, HasRow, Goto
<1>28. ASSUME NEW e \in Execs, MarkReady(e) PROVE RoleInv'
  BY <1>28 DEF MarkReady, JobOf, HasRow, Goto, Leave, Rollback
<1>29. ASSUME NEW e \in Execs, LoseBadge(e) PROVE RoleInv'
  BY <1>29 DEF LoseBadge, Fault, Forsake, JobOf, Goto, Leave, Rollback
<1>30. ASSUME NEW e \in Execs, Raise(e) PROVE RoleInv'
  BY <1>30 DEF Raise, Alive, Goto, Leave, Rollback
<1>31. ASSUME NEW e \in Execs, MarkFailed(e) PROVE RoleInv'
  BY <1>31 DEF MarkFailed, JobOf, HasRow, Goto
<1>32. ASSUME NEW e \in Execs, LoseReport(e) PROVE RoleInv'
  BY <1>32 DEF LoseReport, Fault, Forsake, JobOf, Goto
<1>33. CASE UNCHANGED vars
  BY <1>33
<1> QED
  BY <1>1, <1>2, <1>3, <1>4, <1>5, <1>6, <1>7, <1>8, <1>9, <1>10, <1>11,
    <1>12, <1>13, <1>14, <1>15, <1>16, <1>17, <1>18, <1>19, <1>20, <1>21,
    <1>22, <1>23, <1>24, <1>25, <1>26, <1>27, <1>28, <1>29, <1>30, <1>31,
    <1>32, <1>33 DEF Next, Handlers, RunTask, Environment

\* An ingest run stays one of its job.
LEMMA RunsStable ==
    ASSUME TypeOK, ControlInv, MessageFacts, NEW j \in Jobs
    PROVE  /\ IngestRuns(j) \subseteq IngestRuns(j)'
           /\ DeliveredOnce(j)' => DeliveredOnce(j)
<1>1. IngestRuns(j) \subseteq IngestRuns(j)'
  BY DEF IngestRuns, ControlInv, MessageFacts, NoTask
<1> QED
  BY <1>1 DEF DeliveredOnce

\* A document of the next state belongs to a run that has its job already.
LEMMA DocRun ==
    ASSUME TypeOK, TypeOK', ControlInv, RoleInv, DocsInv, Facts, NEW d \in lib'
    PROVE  /\ d[1] \in Execs
           /\ pc[d[1]] # "free"
           /\ task'[d[1]] = task[d[1]]
           /\ JobOf(d[1]) \in Jobs
           /\ d[1] \in IngestRuns(JobOf(d[1]))
<1>1. d[1] \in Execs
  BY DEF TypeOK, Docs
<1>2. pc[d[1]] # "free" /\ task[d[1]][1] = "ingest"
  <2>1. CASE d \in lib
    BY <1>1, <2>1 DEF DocsInv, RoleInv
  <2>2. CASE d \notin lib
    BY <1>1, <2>2 DEF Facts, DocumentFacts, RoleInv, BeforeSwap
  <2> QED
    BY <2>1, <2>2
<1>3. task[d[1]] \in Tasks
  BY <1>1, <1>2 DEF ControlInv
<1> QED
  BY <1>1, <1>2, <1>3 DEF Facts, MessageFacts, JobOf, IngestRuns, Tasks

\* An embedding message comes from a run that has swapped, directly or by
\* redelivery.
LEMMA OrderStep ==
    ASSUME TypeOK, ControlInv, RoleInv, SwapInv, OrderInv, MessageFacts
    PROVE  OrderInv'
<1> SUFFICES ASSUME NEW j \in Jobs,
                    \/ queue'[<<"embed", j>>] > 0
                    \/ \E x \in Execs : task'[x] = <<"embed", j>>
             PROVE  \E e \in IngestRuns(j)' : e \in swapped'
  BY DEF OrderInv
<1>1. \/ queue[<<"embed", j>>] > 0
      \/ \E x \in Execs : task[x] = <<"embed", j>>
      \/ \E e \in Execs : pc[e] = "dispatch" /\ JobOf(e) = j
  BY DEF MessageFacts
<1>2. \E e \in IngestRuns(j) : e \in swapped
  <2>1. ASSUME NEW e \in Execs, pc[e] = "dispatch", JobOf(e) = j
        PROVE  e \in IngestRuns(j) /\ e \in swapped
    BY <2>1 DEF SwapInv, RoleInv, ControlInv, IngestRuns, Tasks, JobOf
  <2> QED
    BY <1>1, <2>1 DEF OrderInv
<1> QED
  BY <1>2, RunsStable DEF MessageFacts

\* A job that is complete after a step has an ingest run that adds no more.
LEMMA CompleteRun ==
    ASSUME TypeOK, ControlInv, RoleInv, OrderInv, SwapInv, SearchInv, Facts,
           NEW j \in Jobs, status'[j] = "complete"
    PROVE  \E e \in IngestRuns(j) : DeliveredOnce(j) => pc[e] \notin BeforeSwap
<1>1. CASE status[j] = "complete"
  BY <1>1 DEF SearchInv
<1>2. ASSUME NEW e \in Execs, pc[e] = "finish", JobOf(e) = j
      PROVE  \E f \in IngestRuns(j) : pc[f] \notin BeforeSwap
  <2>1. task[e] \in Tasks
    BY <1>2 DEF ControlInv
  <2>2. CASE task[e][1] = "ingest"
    BY <1>2, <2>1, <2>2 DEF Tasks, JobOf, IngestRuns, BeforeSwap
  <2>3. CASE task[e][1] = "embed"
    <3>1. task[e] = <<"embed", j>>
      BY <1>2, <2>1, <2>3 DEF Tasks, JobOf
    <3> QED
      BY <3>1 DEF OrderInv, SwapInv
  <2> QED
    BY <2>1, <2>2, <2>3 DEF Tasks, Kinds
<1> QED
  BY <1>1, <1>2 DEF Facts, DocumentFacts

\* With the facts about single steps, SearchInv is preserved by any of them.
LEMMA SearchStep ==
    ASSUME TypeOK, TypeOK', ControlInv, RoleInv, DocsInv, SwapInv, OrderInv,
           SearchInv, Facts
    PROVE  SearchInv'
<1>1. ASSUME NEW x \in Execs, pc'[x] \in {"batch", "finish"},
             task'[x][1] = "embed", DeliveredOnce(JobOf(x))',
             NEW d \in lib', JobOf(d[1])' = JobOf(x)'
      PROVE  d \in emb' \cup todo'[x]
  <2>1. /\ pc[x] \in {"batch", "finish", "load"}
        /\ task'[x] = task[x]
    BY <1>1 DEF Facts, ListFacts, MessageFacts
  <2>2. PICK j \in Jobs : task[x] = <<"embed", j>>
    BY <1>1, <2>1 DEF ControlInv, Tasks
  <2>3. DeliveredOnce(j)' /\ DeliveredOnce(j)
    <3>1. DeliveredOnce(j)'
      BY <1>1, <2>1, <2>2 DEF DeliveredOnce, IngestRuns, JobOf
    <3> QED
      BY <3>1, RunsStable DEF Facts
  <2>4. JobOf(x) = j /\ JobOf(d[1]) = j
    BY <1>1, <2>1, <2>2, DocRun DEF JobOf
  <2>5. d \in lib
    <3> SUFFICES ASSUME d \notin lib PROVE FALSE
      OBVIOUS
    <3>1. pc[d[1]] \in BeforeSwap /\ d[1] \in IngestRuns(j)
      BY <2>4, DocRun DEF Facts, DocumentFacts
    <3>2. PICK e \in IngestRuns(j) : e \in swapped
      BY <1>1, <2>2 DEF OrderInv
    <3> QED
      BY <2>3, <3>1, <3>2 DEF DeliveredOnce, SwapInv
  <2>6. CASE pc[x] \in {"batch", "finish"}
    <3>1. d \in emb \cup todo[x]
      BY <1>1, <2>1, <2>3, <2>4, <2>5, <2>6 DEF SearchInv
    <3> QED
      BY <1>1, <2>6, <3>1 DEF Facts, DocumentFacts, ListFacts
  <2>7. CASE pc[x] = "load"
    <3>1. d \in emb \cup todo'[x]
      BY <1>1, <2>4, <2>5, <2>7 DEF Facts, ListFacts, Owner
    <3> QED
      BY <3>1 DEF Facts, DocumentFacts
  <2> QED
    BY <2>1, <2>6, <2>7
<1>2. ASSUME NEW j \in Jobs, status'[j] = "complete"
      PROVE  /\ IngestRuns(j)' # {}
             /\ DeliveredOnce(j)' => \A e \in IngestRuns(j)' : pc'[e] \notin BeforeSwap
  <2>1. PICK f \in IngestRuns(j) : DeliveredOnce(j) => pc[f] \notin BeforeSwap
    BY <1>2, CompleteRun
  <2>2. f \in IngestRuns(j)' /\ pc[f] # "free"
    BY <2>1, RunsStable DEF Facts, ControlInv, IngestRuns, NoTask
  <2>3. ASSUME DeliveredOnce(j)', NEW e \in IngestRuns(j)'
        PROVE  pc'[e] \notin BeforeSwap
    <3>1. e = f
      BY <2>2, <2>3 DEF DeliveredOnce
    <3>2. DeliveredOnce(j)
      BY <2>3, RunsStable DEF Facts
    <3> QED
      BY <2>1, <2>2, <3>1, <3>2 DEF Facts, MessageFacts, IngestRuns
  <2> QED
    BY <2>2, <2>3
<1>3. ASSUME NEW j \in Jobs, status'[j] = "complete", DeliveredOnce(j)',
             NEW d \in lib', JobOf(d[1])' = j
      PROVE  d \in emb'
  <2>1. DeliveredOnce(j)
    BY <1>3, RunsStable DEF Facts
  <2>2. JobOf(d[1]) = j /\ d[1] \in IngestRuns(j)
    BY <1>3, DocRun DEF JobOf
  <2>3. pc[d[1]] \notin BeforeSwap
    BY <1>3, <2>1, <2>2, CompleteRun DEF DeliveredOnce
  <2>4. d \in lib
    BY <2>3 DEF Facts, DocumentFacts
  <2>5. CASE status[j] = "complete"
    BY <2>1, <2>2, <2>4, <2>5 DEF SearchInv, CompleteIsSearchable, Facts, DocumentFacts
  <2>6. ASSUME NEW e \in Execs, pc[e] = "finish", JobOf(e) = j
        PROVE  d \in emb
    <3>1. task[e] \in Tasks
      BY <2>6 DEF ControlInv
    <3>2. CASE task[e][1] = "ingest"
      <4>1. e = d[1]
        BY <2>1, <2>2, <2>6, <3>1, <3>2 DEF DeliveredOnce, IngestRuns, Tasks, JobOf
      <4> QED
        BY <2>4, <2>6, <3>2, <4>1 DEF RoleInv, DocsInv
    <3>3. CASE task[e][1] = "embed"
      BY <2>1, <2>2, <2>4, <2>6, <3>3 DEF SearchInv, RoleInv
    <3> QED
      BY <3>1, <3>2, <3>3 DEF Tasks, Kinds
  <2> QED
    BY <1>3, <2>4, <2>5, <2>6 DEF Facts, DocumentFacts
<1>4. CompleteIsSearchable'
  BY <1>3 DEF CompleteIsSearchable
<1> QED
  BY <1>1, <1>2, <1>4 DEF SearchInv

\* The layers together are inductive.
LEMMA SearchIndInvCorrect == Spec => []SearchIndInv
<1>1. Init => SearchIndInv
  <2>1. Init => RoleInv
    BY DEF Init, RoleInv, BeforeSwap
  <2>2. Init => OrderInv
    BY DEF Init, OrderInv, NoTask, Tasks, Kinds
  <2>3. Init => SearchInv
    BY DEF Init, SearchInv, CompleteIsSearchable
  <2> QED
    BY <2>1, <2>2, <2>3, InitInd DEF SearchIndInv
<1>2. SearchIndInv /\ [Next]_vars => SearchIndInv'
  <2> SUFFICES ASSUME SearchIndInv, [Next]_vars
               PROVE  SearchIndInv'
    OBVIOUS
  <2>1. Facts
    BY MessageStep, DocumentStep, ListStep DEF SearchIndInv, IndInv, Facts
  <2>2. IndInv'
    BY IndStep DEF SearchIndInv
  <2>3. RoleInv'
    BY RoleStep DEF SearchIndInv, IndInv
  <2>4. OrderInv'
    BY <2>1, OrderStep DEF SearchIndInv, IndInv, Facts
  <2>5. SearchInv'
    BY <2>1, <2>2, SearchStep DEF SearchIndInv, IndInv
  <2> QED
    BY <2>2, <2>3, <2>4, <2>5 DEF SearchIndInv
<1> QED
  BY <1>1, <1>2, PTL DEF Spec

\* CompleteIsSearchable: when a job whose ingest task was delivered once says
\* "complete", every document of its run that is in the library is embedded.
THEOREM CompleteSearchable == Spec => []CompleteIsSearchable
<1>1. SearchIndInv => CompleteIsSearchable
  BY DEF SearchIndInv, SearchInv
<1> QED
  BY <1>1, SearchIndInvCorrect, PTL
==============================================================================
