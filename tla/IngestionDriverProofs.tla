------------------------ MODULE IngestionDriverProofs -------------------------
(***************************************************************************)
(* InProgressHasDriver as a theorem, for any number of jobs, workers,      *)
(* executions and faults.  And for the deployment with one worker, where   *)
(* one task runs at a time: NoEmbedConflict and GithubReindexKeepsLibrary. *)
(***************************************************************************)
EXTENDS IngestionProofs, FiniteSetTheorems

InProgress == {"queued", "processing", "embedding"}

\* Where an execution has yet to settle its job or to send the message of the task
\* that will: one that is ready to acknowledge does nothing for its job any more.
Driving == (LiveStates \cup {"lost"}) \ {"ready", "ack"}

Drives(e, j) == pc[e] \in Driving /\ JobOf(e) = j
InHand(j) ==
    \/ api[j] = "committed"
    \/ \E k \in Kinds : queue[<<k, j>>] > 0
    \/ \E e \in Execs : Drives(e, j)

\* InProgressHasDriver without the executions that are about to end, and a job
\* whose request is not committed has no row.
DriverInv ==
    /\ \A j \in Jobs : api[j] \in {"idle", "read"} => status[j] = "unborn"
    /\ \A j \in Jobs \ forsaken :
        status[j] \in InProgress /\ target[j] \notin Unparsable => InHand(j)

LEMMA DriverImplies == TypeOK /\ DriverInv => InProgressHasDriver
<1> SUFFICES ASSUME TypeOK, DriverInv, NEW j \in Jobs \ forsaken,
                    status[j] \in InProgress, target[j] \notin Unparsable
             PROVE  \/ api[j] = "committed"
                    \/ \E k \in Kinds : queue[<<k, j>>] > 0
                    \/ \E e \in Execs : JobOf(e) = j /\ (Alive(e) \/ pc[e] = "lost")
  BY DEF InProgressHasDriver, InProgress
<1>1. \A e \in Execs : Drives(e, j) => JobOf(e) = j /\ (Alive(e) \/ pc[e] = "lost")
  BY DEF Drives, Driving, Alive
<1> QED
  BY <1>1 DEF DriverInv, InHand

\* The jobs after a step, and what the step may do to their rows.
RowsKept ==
    \A j \in Jobs :
        /\ api[j] \in {"idle", "read"} => status'[j] = "unborn"
        /\ status'[j] \in InProgress => status[j] \in InProgress

\* A step of nobody who drives a job.
LEMMA StandsBy ==
    ASSUME DriverInv, RowsKept, UNCHANGED <<api, queue, pc, task, target, forsaken>>
    PROVE  DriverInv'
<1>1. \A j \in Jobs : InHand(j) => InHand(j)'
  BY DEF InHand, Drives, JobOf
<1> QED
  BY <1>1 DEF DriverInv, RowsKept

\* An execution goes on and has its job still to settle.
LEMMA GoesOn ==
    ASSUME TypeOK, DriverInv, NEW e \in Execs, NEW s \in Driving, Goto(e, s),
           UNCHANGED <<api, queue, task, target, forsaken>>,
           \A j \in Jobs : api[j] \in {"idle", "read"} => status'[j] = "unborn",
           \A j \in Jobs : j # JobOf(e) /\ status'[j] \in InProgress =>
                               status[j] \in InProgress
    PROVE  DriverInv'
<1>1. \A f \in Execs : pc'[f] = IF f = e THEN s ELSE pc[f]
  BY DEF Goto, TypeOK
<1>2. \A j \in Jobs : InHand(j) => InHand(j)'
  <2> SUFFICES ASSUME NEW j \in Jobs, InHand(j)  PROVE InHand(j)'
    OBVIOUS
  <2>1. ASSUME NEW f \in Execs, Drives(f, j)  PROVE Drives(f, j)'
    BY <1>1, <2>1 DEF Drives, JobOf
  <2> QED
    BY <2>1 DEF InHand
<1>3. \A j \in Jobs : j = JobOf(e) => InHand(j)'
  <2>1. Drives(e, JobOf(e))'
    BY <1>1 DEF Drives, JobOf
  <2> QED
    BY <2>1 DEF InHand, Drives, JobOf
<1> QED
  BY <1>2, <1>3 DEF DriverInv

\* An execution is done with its job, which is settled or was not driven by it.
LEMMA IsDone ==
    ASSUME TypeOK, DriverInv, RowsKept, NEW e \in Execs, NEW s, Goto(e, s),
           UNCHANGED <<api, queue, task, target>>, forsaken \subseteq forsaken',
           \/ pc[e] \notin Driving
           \/ JobOf(e) \in forsaken'
           \/ JobOf(e) \in Jobs => status'[JobOf(e)] \notin InProgress
           \/ target[JobOf(e)] \in Unparsable
    PROVE  DriverInv'
<1>1. \A f \in Execs : f # e => pc'[f] = pc[f]
  BY DEF Goto, TypeOK
<1> SUFFICES ASSUME NEW j \in Jobs \ forsaken', status'[j] \in InProgress,
                    target[j] \notin Unparsable
             PROVE  InHand(j)'
  BY DEF DriverInv, RowsKept
<1>2. InHand(j)
  BY DEF DriverInv, RowsKept
<1>3. ASSUME NEW f \in Execs, Drives(f, j)  PROVE Drives(f, j)'
  <2>1. f # e
    BY <1>3 DEF Drives
  <2> QED
    BY <1>1, <1>3, <2>1 DEF Drives, JobOf
<1> QED
  BY <1>2, <1>3 DEF InHand

\* A message is sent, by an execution or for one that is lost.
LEMMA Sends ==
    ASSUME TypeOK, DriverInv, NEW t \in Tasks, Send(t),
           UNCHANGED <<status, target, task, forsaken>>,
           \A j \in Jobs : api'[j] = api[j] \/ (j = t[2] /\ api'[j] = "done"),
           \A j \in Jobs : api[j] \in {"idle", "read"} => api'[j] = api[j],
           \A f \in Execs : pc'[f] = pc[f] \/ JobOf(f) = t[2]
    PROVE  DriverInv'
<1>1. queue' = [queue EXCEPT ![t] = queue[t] + 1]
  BY DEF Send
<1>2. \A r \in Tasks : queue'[r] >= queue[r]
  BY <1>1 DEF TypeOK
<1>3. queue'[t] > 0
  BY <1>1 DEF TypeOK
<1>4. \A j \in Jobs : \A k \in Kinds : <<k, j>> \in Tasks /\ queue[<<k, j>>] \in Nat
                                       /\ queue'[<<k, j>>] \in Nat
  BY <1>1 DEF TypeOK, Tasks
<1>5. t[1] \in Kinds /\ t = <<t[1], t[2]>>
  BY DEF Tasks
<1> SUFFICES ASSUME NEW j \in Jobs \ forsaken, status[j] \in InProgress,
                    target[j] \notin Unparsable
             PROVE  InHand(j)'
  BY DEF DriverInv
<1>6. CASE j = t[2]
  BY <1>3, <1>5, <1>6 DEF InHand
<1>7. CASE j # t[2]
  <2>1. InHand(j)
    BY DEF DriverInv
  <2>2. ASSUME NEW f \in Execs, Drives(f, j)  PROVE Drives(f, j)'
    BY <1>7, <2>2 DEF Drives, JobOf
  <2>3. ASSUME NEW k \in Kinds, queue[<<k, j>>] > 0  PROVE queue'[<<k, j>>] > 0
    BY <1>2, <1>4, <2>3
  <2> QED
    BY <1>7, <2>1, <2>2, <2>3 DEF InHand
<1> QED
  BY <1>6, <1>7

\* A worker takes a message, and has the job of it.
LEMMA Takes ==
    ASSUME TypeOK, ControlInv, DriverInv, NEW t \in Tasks, NEW e \in Execs,
           Deliver(t, e)
    PROVE  DriverInv'
<1>1. /\ pc[e] = "free" /\ queue[t] > 0
      /\ queue' = [queue EXCEPT ![t] = queue[t] - 1]
      /\ task' = [task EXCEPT ![e] = t]
      /\ pc'[e] \in {"start", "load"} /\ \A f \in Execs : f # e => pc'[f] = pc[f]
      /\ UNCHANGED <<status, target, api, forsaken>>
  BY DEF Deliver, NextExec, Goto, dbVars, apiVars, history, TypeOK
<1>2. task'[e] = t /\ \A f \in Execs : f # e => task'[f] = task[f]
  BY <1>1 DEF TypeOK
<1> SUFFICES ASSUME NEW j \in Jobs \ forsaken, status[j] \in InProgress,
                    target[j] \notin Unparsable
             PROVE  InHand(j)'
  BY <1>1 DEF DriverInv
<1>3. InHand(j)
  BY DEF DriverInv
<1>4. Drives(e, t[2])'
  BY <1>1, <1>2 DEF Drives, JobOf, Driving, LiveStates
<1>5. ASSUME NEW f \in Execs, Drives(f, j)  PROVE Drives(f, j)'
  <2>1. f # e
    BY <1>1, <1>5 DEF Drives, Driving, LiveStates
  <2> QED
    BY <1>1, <1>2, <1>5, <2>1 DEF Drives, JobOf
<1>6. ASSUME NEW k \in Kinds, queue[<<k, j>>] > 0, j # t[2]
      PROVE  queue'[<<k, j>>] > 0
  <2>1. <<k, j>> \in Tasks /\ <<k, j>> # t
    BY <1>6 DEF Tasks
  <2> QED
    BY <1>1, <1>6, <2>1 DEF TypeOK
<1> QED
  BY <1>1, <1>3, <1>4, <1>5, <1>6 DEF InHand

LEMMA DriverStep ==
    ASSUME TypeOK, ControlInv, DriverInv, [Next]_vars
    PROVE  DriverInv'
<1> USE IngestionAssumption DEF vars, dbVars, apiVars, runVars, runLocals, history
<1>t. /\ status \in [Jobs -> Statuses] /\ api \in [Jobs -> ApiStates]
      /\ pc \in [Execs -> PcStates]
      /\ \A j \in Jobs : api[j] \in {"idle", "read"} => status[j] = "unborn"
  BY DEF TypeOK, DriverInv
\* Of an execution that holds a task.
<1>e. \A e \in Execs : pc[e] # "free" =>
        task[e] \in Tasks /\ JobOf(e) \in Jobs /\ api[JobOf(e)] = "done"
  BY DEF ControlInv, JobOf, Tasks
<1>1. ASSUME NEW j \in Jobs, NEW u \in Users, NEW s \in Slots,
             RequestGithub(j, u, s) \/ RequestNotion(j, u, s)
      PROVE  DriverInv'
  <2>1. /\ api[j] = "idle" /\ api' = [api EXCEPT ![j] = "read"]
        /\ target' = [target EXCEPT ![j] = s]
        /\ UNCHANGED <<status, queue, pc, task, forsaken>>
    BY <1>1 DEF RequestGithub, RequestNotion, ReadBadge
  <2>2. status[j] = "unborn"
    BY <1>t, <2>1
  <2>3. \A k \in Jobs : k # j => api'[k] = api[k] /\ target'[k] = target[k]
    BY <2>1 DEF TypeOK
  <2>4. \A k \in Jobs : k # j /\ InHand(k) => InHand(k)'
    BY <2>1, <2>3 DEF InHand, Drives, JobOf
  <2> QED
    BY <2>1, <2>2, <2>3, <2>4 DEF DriverInv, InProgress
<1>2. ASSUME NEW j \in Jobs, CommitRequest(j)  PROVE DriverInv'
  <2>1. /\ api' = [api EXCEPT ![j] = "committed"]
        /\ status' = [status EXCEPT ![j] = "queued"]
        /\ UNCHANGED <<target, queue, pc, task, forsaken>>
    BY <1>2 DEF CommitRequest
  <2>2. /\ api'[j] = "committed"
        /\ \A k \in Jobs : k # j => api'[k] = api[k] /\ status'[k] = status[k]
    BY <1>t, <2>1
  <2>3. \A k \in Jobs : InHand(k) => InHand(k)'
    BY <2>1, <2>2 DEF InHand, Drives, JobOf
  <2>4. InHand(j)'
    BY <2>2 DEF InHand
  <2> QED
    BY <2>1, <2>2, <2>3, <2>4 DEF DriverInv
<1>3. ASSUME NEW j \in Jobs, DispatchRequest(j)  PROVE DriverInv'
  <2>1. <<"ingest", j>> \in Tasks
    BY DEF Tasks, Kinds
  <2>2. api' = [api EXCEPT ![j] = "done"] /\ api[j] = "committed"
    BY <1>3 DEF DispatchRequest
  <2> QED
    BY <1>3, <1>t, <2>1, <2>2, Sends DEF DispatchRequest
<1>4. ASSUME NEW j \in Jobs, LoseDispatch(j)  PROVE DriverInv'
  <2>1. /\ api' = [api EXCEPT ![j] = "done"] /\ forsaken' = forsaken \cup {j}
        /\ UNCHANGED <<status, target, queue, pc, task>> /\ api[j] = "committed"
    BY <1>4 DEF LoseDispatch, Forsake
  <2>2. \A k \in Jobs : k # j => api'[k] = api[k]
    BY <1>t, <2>1
  <2>3. \A k \in Jobs : k # j /\ InHand(k) => InHand(k)'
    BY <2>1, <2>2 DEF InHand, Drives, JobOf
  <2>4. \A k \in Jobs : api'[k] \in {"idle", "read"} => api[k] \in {"idle", "read"}
    BY <1>t, <2>1
  <2> QED
    BY <2>1, <2>3, <2>4 DEF DriverInv
<1>5. ASSUME NEW j \in Jobs, ReadForCancel(j)  PROVE DriverInv'
  BY <1>5, <1>t, StandsBy DEF ReadForCancel, RowsKept
<1>6. ASSUME NEW j \in Jobs, CommitCancel(j)  PROVE DriverInv'
  <2>1. RowsKept
    BY <1>6, <1>t DEF CommitCancel, RowsKept, HasRow, RowStatuses, InProgress
  <2> QED
    BY <1>6, <2>1, StandsBy DEF CommitCancel
<1>7. ASSUME NEW u \in Users, WipeLibrary(u)  PROVE DriverInv'
  <2>1. RowsKept
    BY <1>7, <1>t DEF WipeLibrary, RowsKept, HasRow, RowStatuses, InProgress
  <2> QED
    BY <1>7, <2>1, StandsBy DEF WipeLibrary
<1>8. ASSUME NEW e \in Execs, pc[e] # "free", NEW s \in Driving, Goto(e, s),
             UNCHANGED <<api, queue, task, target, forsaken>>,
             \/ UNCHANGED status
             \/ \E v : status' = [status EXCEPT ![JobOf(e)] = v]
      PROVE  DriverInv'
  <2>1. \A j \in Jobs : j # JobOf(e) => status'[j] = status[j]
    BY <1>8, <1>t
  <2>2. \A j \in Jobs : api[j] \in {"idle", "read"} => j # JobOf(e)
    BY <1>8, <1>e
  <2> QED
    BY <1>8, <1>t, <2>1, <2>2, GoesOn
<1>9. ASSUME NEW e \in Execs, RunTask(e)  PROVE DriverInv'
  <2> USE DEF Driving, LiveStates
  <2>1. CASE RejectUrl(e)
    BY <1>t, <2>1, IsDone DEF RejectUrl, RowsKept
  <2>2. CASE StartIngest(e)
    BY <1>8, <2>2 DEF StartIngest
  <2>3. CASE \E n \in 0..MaxFiles : Fetch(e, n)
    BY <1>8, <2>3 DEF Fetch
  <2>4. CASE SkipFile(e) \/ AddFile(e)
    BY <1>8, <2>4 DEF SkipFile, AddFile, NextFile
  <2>5. CASE DeleteGithub(e) \/ DeleteNotion(e) \/ CommitSwap(e)
    BY <1>8, <2>5 DEF DeleteGithub, DeleteNotion, AwaitCommit, CommitSwap
  <2>6. CASE MarkEmbedding(e)
    BY <1>8, <2>6 DEF MarkEmbedding
  <2>7. CASE DispatchEmbedding(e)
    <3>1. JobOf(e) \in Jobs /\ <<"embed", JobOf(e)>> \in Tasks
      BY <1>e, <2>7 DEF DispatchEmbedding, Tasks, Kinds
    <3>2. \A f \in Execs : pc'[f] = pc[f] \/ JobOf(f) = JobOf(e)
      BY <1>t, <2>7 DEF DispatchEmbedding, Goto
    <3> QED
      BY <2>7, <3>1, <3>2, Sends DEF DispatchEmbedding, Leave
  <2>8. CASE LoadChunks(e)
    BY <1>8, <2>8 DEF LoadChunks, ReadList
  <2>9. CASE \E batch \in Batches(todo[e]) : EmbedBatch(e, batch)
    BY <1>8, <2>9 DEF EmbedBatch
  <2>10. CASE MarkComplete(e)
    <3>1. JobOf(e) \in Jobs /\ api[JobOf(e)] = "done"
      BY <1>e, <2>10 DEF MarkComplete
    <3>2. status' = [status EXCEPT ![JobOf(e)] = "complete"]
      BY <2>10 DEF MarkComplete
    <3>3. RowsKept /\ status'[JobOf(e)] \notin InProgress
      BY <1>t, <3>1, <3>2 DEF RowsKept, InProgress
    <3> QED
      BY <2>10, <3>3, IsDone DEF MarkComplete
  <2>11. CASE MarkReady(e)
    BY <1>t, <2>11, IsDone DEF MarkReady, Leave, RowsKept
  <2>12. CASE Raise(e)
    BY <1>8, <2>12 DEF Raise, Alive, Leave
  <2>13. CASE MarkFailed(e)
    <3>1. JobOf(e) \in Jobs /\ api[JobOf(e)] = "done"
      BY <1>e, <2>13 DEF MarkFailed
    <3>2. RowsKept /\ status'[JobOf(e)] \notin InProgress
      BY <1>t, <2>13, <3>1
         DEF MarkFailed, RowsKept, HasRow, RowStatuses, InProgress
    <3> QED
      BY <2>13, <3>2, IsDone DEF MarkFailed
  <2>14. CASE Acknowledge(e)
    BY <1>t, <2>14, IsDone DEF Acknowledge, RowsKept
  <2> QED
    BY <1>9, <2>1, <2>2, <2>3, <2>4, <2>5, <2>6, <2>7, <2>8, <2>9, <2>10,
       <2>11, <2>12, <2>13, <2>14 DEF RunTask
<1>10. ASSUME NEW e \in Execs, Environment(e)  PROVE DriverInv'
  <2>1. CASE WorkerDeath(e)
    BY <1>8, <2>1 DEF WorkerDeath, Alive, Leave, LiveStates, Driving
  <2>2. CASE ChildKilled(e)
    BY <1>t, <2>2, IsDone DEF ChildKilled, Forsake, Leave, RowsKept
  <2>3. CASE RestoreLost(e)
    <3>1. task[e] \in Tasks /\ JobOf(e) = task[e][2]
      BY <1>e, <2>3 DEF RestoreLost, JobOf
    <3>2. \A f \in Execs : pc'[f] = pc[f] \/ JobOf(f) = task[e][2]
      BY <1>t, <2>3, <3>1 DEF RestoreLost, Goto
    <3> QED
      BY <2>3, <3>1, <3>2, Sends DEF RestoreLost
  <2>4. CASE RestoreSlow(e)
    <3>1. task[e] \in Tasks
      BY <1>e, <2>4 DEF RestoreSlow, Alive, LiveStates
    <3> QED
      BY <2>4, <3>1, Sends DEF RestoreSlow
  <2>5. CASE LoseReport(e) \/ LoseBadge(e)
    BY <1>t, <2>5, IsDone DEF LoseReport, LoseBadge, Forsake, Leave, RowsKept
  <2> QED
    BY <1>10, <2>1, <2>2, <2>3, <2>4, <2>5 DEF Environment
<1>11. ASSUME NEW t \in Tasks, NEW e \in Execs, Deliver(t, e)  PROVE DriverInv'
  BY <1>11, Takes
<1>12. CASE UNCHANGED vars
  BY <1>12, <1>t, StandsBy DEF RowsKept
<1> QED
  BY <1>1, <1>2, <1>3, <1>4, <1>5, <1>6, <1>7, <1>9, <1>10, <1>11, <1>12
     DEF Next, Handlers

LEMMA DriverStart == Init => DriverInv
  BY DEF Init, DriverInv, InProgress

\* A job of a well-formed source that is under way has a message or a task that will
\* settle it, however workers die, messages come twice, users cancel and wipe, and
\* tasks fail; only a forsaken job, whose dispatch, task or last report was lost, may
\* hang: the routes of ingest.py, the tasks and celery_app.py.
THEOREM JobsAreDriven == Spec => []InProgressHasDriver
<1>1. Init => DriverInv
  BY DriverStart
<1>2. IndInv => TypeOK /\ ControlInv
  BY DEF IndInv
<1>3. IndInv /\ DriverInv /\ [Next]_vars => DriverInv'
  BY <1>2, DriverStep
<1>4. IndInv /\ DriverInv => InProgressHasDriver
  BY <1>2, DriverImplies
<1> QED
  BY <1>1, <1>3, <1>4, IndInvCorrect, PTL DEF Spec

------------------------------------------------------------------------------
(* One task at a time                                                      *)

Alone == \A e, f \in Execs : Alive(e) /\ Alive(f) => e = f

\* While its job has a row, nobody but the execution that works changes what it
\* has read to embed, or has committed.
Own(e) ==
    HasRow(JobOf(e)) =>
        /\ pc[e] = "batch" =>
            \A d \in todo[e] : d \in lib \ emb /\ Owner(d) = asker[JobOf(e)]
        /\ pc[e] \in {"files", "swap", "commit"} => made[e] \subseteq lib \cup pend[e]

SingleInv == Alone /\ \A e \in Execs : Own(e)

\* A task function goes on only where it runs, and changes only what is its own.
LEMMA TaskFrame ==
    ASSUME TypeOK, NEW f \in Execs, RunTask(f)
    PROVE  /\ Alive(f)
           /\ \A e \in Execs \ {f} : pc'[e] = pc[e]
           /\ UNCHANGED <<task, asker, target>>
           /\ \A j \in Jobs : HasRow(j)' => HasRow(j)
<1> USE DEF Alive, LiveStates, Goto, dbVars, apiVars, runLocals, HasRow
<1>1. \A e \in Execs : \A s : e # f => [pc EXCEPT ![f] = s][e] = pc[e]
  BY DEF TypeOK
<1>s. \A j \in Jobs : \A v : HasRow(JobOf(f)) /\ [status EXCEPT ![JobOf(f)] = v][j] \in RowStatuses
        => HasRow(j)
  BY DEF TypeOK
<1>2. CASE RejectUrl(f) \/ StartIngest(f) \/ (\E n \in 0..MaxFiles : Fetch(f, n))
  BY <1>1, <1>s, <1>2 DEF RejectUrl, StartIngest, Fetch
<1>3. CASE SkipFile(f) \/ AddFile(f)
  BY <1>1, <1>3 DEF SkipFile, AddFile, NextFile
<1>4. CASE DeleteGithub(f) \/ DeleteNotion(f) \/ CommitSwap(f)
  BY <1>1, <1>4 DEF DeleteGithub, DeleteNotion, AwaitCommit, CommitSwap
<1>5. CASE MarkEmbedding(f) \/ DispatchEmbedding(f) \/ LoadChunks(f)
  BY <1>1, <1>s, <1>5 DEF MarkEmbedding, DispatchEmbedding, LoadChunks, ReadList, Leave
<1>6. CASE \E batch \in Batches(todo[f]) : EmbedBatch(f, batch)
  BY <1>1, <1>6 DEF EmbedBatch
<1>7. CASE MarkComplete(f) \/ MarkReady(f) \/ Raise(f) \/ MarkFailed(f) \/ Acknowledge(f)
  BY <1>1, <1>s, <1>7 DEF MarkComplete, MarkReady, Raise, MarkFailed, Acknowledge, Leave
<1> QED
  BY <1>2, <1>3, <1>4, <1>5, <1>6, <1>7 DEF RunTask

\* What happens to an execution from outside leaves the database alone, the other
\* executions, and the locals of those that stay alive.
LEMMA EnvironmentFrame ==
    ASSUME TypeOK, NEW f \in Execs, Environment(f)
    PROVE  /\ UNCHANGED <<dbVars, apiVars, task, swapped>>
           /\ \A e \in Execs : Alive(e)' => Alive(e)
           /\ \A e \in Execs : Alive(e)' =>
                \/ pc'[e] = "ack"
                \/ pc'[e] = pc[e] /\ todo'[e] = todo[e] /\ made'[e] = made[e]
                   /\ pend'[e] = pend[e]
<1> USE DEF Alive, LiveStates, Goto, dbVars, apiVars, runVars, runLocals, history, TypeOK
<1>1. CASE WorkerDeath(f)
  BY <1>1 DEF WorkerDeath, Leave, Rollback
<1>2. CASE ChildKilled(f)
  BY <1>2 DEF ChildKilled, Leave, Rollback, Forsake
<1>3. CASE RestoreLost(f)
  BY <1>3 DEF RestoreLost
<1>4. CASE RestoreSlow(f)
  BY <1>4 DEF RestoreSlow
<1>5. CASE LoseReport(f) \/ LoseBadge(f)
  BY <1>5 DEF LoseReport, LoseBadge, Leave, Rollback, Forsake
<1> QED
  BY <1>1, <1>2, <1>3, <1>4, <1>5 DEF Environment

LEMMA AloneStep ==
    ASSUME Workers = 1, TypeOK, Alone, [Next]_vars
    PROVE  Alone'
<1>1. ASSUME \A e \in Execs : Alive(e)' => Alive(e)  PROVE Alone'
  BY <1>1 DEF Alone
<1>2. CASE UNCHANGED pc
  BY <1>1, <1>2 DEF Alive
<1>3. ASSUME NEW j \in Jobs, Handlers(j)  PROVE Alone'
  BY <1>2, <1>3 DEF Handlers, RequestGithub, RequestNotion, ReadBadge, CommitRequest,
     DispatchRequest, LoseDispatch, ReadForCancel, CommitCancel, runVars
<1>4. ASSUME NEW u \in Users, WipeLibrary(u)  PROVE Alone'
  BY <1>2, <1>4 DEF WipeLibrary, runVars
<1>5. ASSUME NEW t \in Tasks, NEW g \in Execs, Deliver(t, g)  PROVE Alone'
  <2> DEFINE alive == {f \in Execs : Alive(f)}
  <2>1. Cardinality(alive) < 1
    BY <1>5 DEF Deliver
  <2>2. IsFiniteSet(alive)
    <3>1. IsFiniteSet(Execs)
      BY FS_Interval, IngestionAssumption DEF Execs
    <3> QED
      BY <3>1, FS_Subset
  <2>3. alive = {}
    BY <2>1, <2>2, FS_CardinalityType, FS_EmptySet
  <2>4. \A f \in Execs : f # g => pc'[f] = pc[f]
    BY <1>5 DEF Deliver, Goto, TypeOK
  <2>5. \A f \in Execs : Alive(f)' => f = g
    BY <2>3, <2>4 DEF Alive
  <2> QED
    BY <2>5 DEF Alone
<1>6. ASSUME NEW f \in Execs, RunTask(f)  PROVE Alone'
  <2>1. Alive(f) /\ \A e \in Execs \ {f} : pc'[e] = pc[e]
    BY <1>6, TaskFrame
  <2> QED
    BY <1>1, <2>1 DEF Alive
<1>7. ASSUME NEW f \in Execs, Environment(f)  PROVE Alone'
  BY <1>1, <1>7, EnvironmentFrame
<1> QED
  BY <1>2, <1>3, <1>4, <1>5, <1>6, <1>7, IngestionAssumption DEF Next, vars, runVars


\* A job whose task has been started keeps its user and its slot, and a row that is
\* gone does not come back.
StartedKept ==
    \A e \in Execs : pc[e] # "free" =>
        /\ task'[e] = task[e]
        /\ asker'[JobOf(e)] = asker[JobOf(e)] /\ target'[JobOf(e)] = target[JobOf(e)]
        /\ HasRow(JobOf(e))' => HasRow(JobOf(e))

LEMMA StartedStep ==
    ASSUME TypeOK, ControlInv, [Next]_vars
    PROVE  StartedKept
<1> USE DEF dbVars, apiVars, runVars, runLocals
<1>e. \A e \in Execs : pc[e] # "free" => JobOf(e) \in Jobs /\ api[JobOf(e)] = "done"
  BY DEF ControlInv, JobOf, Tasks
<1>1. ASSUME NEW j \in Jobs, Handlers(j)  PROVE StartedKept
  <2>1. CASE \E u \in Users, s \in Slots : RequestGithub(j, u, s) \/ RequestNotion(j, u, s)
    <3>1. /\ api[j] = "idle" /\ UNCHANGED <<task, status>>
          /\ \E u : asker' = [asker EXCEPT ![j] = u]
          /\ \E s : target' = [target EXCEPT ![j] = s]
      BY <2>1 DEF RequestGithub, RequestNotion, ReadBadge
    <3>2. \A k \in Jobs : k # j => asker'[k] = asker[k] /\ target'[k] = target[k]
      BY <3>1 DEF TypeOK
    <3> QED
      BY <1>e, <3>1, <3>2 DEF StartedKept, HasRow, JobOf
  <2>2. CASE CommitRequest(j)
    <3>1. /\ api[j] = "read" /\ UNCHANGED <<task, asker, target>>
          /\ \A k \in Jobs : k # j => status'[k] = status[k]
      BY <2>2 DEF CommitRequest, TypeOK
    <3> QED
      BY <1>e, <3>1 DEF StartedKept, HasRow, JobOf
  <2>3. CASE CommitCancel(j)
    <3>1. /\ UNCHANGED <<task, asker, target>>
          /\ \A k \in Jobs : HasRow(k)' => HasRow(k)
      BY <2>3 DEF CommitCancel, HasRow, TypeOK
    <3> QED
      BY <1>e, <3>1 DEF StartedKept, HasRow, JobOf
  <2>4. CASE UNCHANGED <<task, asker, target, status>>
    BY <2>4 DEF StartedKept, HasRow, JobOf
  <2> QED
    BY <1>1, <2>1, <2>2, <2>3, <2>4
       DEF Handlers, DispatchRequest, LoseDispatch, ReadForCancel
<1>2. ASSUME NEW u \in Users, WipeLibrary(u)  PROVE StartedKept
  <2>1. /\ UNCHANGED <<task, asker, target>>
        /\ \A k \in Jobs : HasRow(k)' => HasRow(k)
    BY <1>2 DEF WipeLibrary, HasRow, RowStatuses
  <2> QED
    BY <1>e, <2>1 DEF StartedKept, HasRow, JobOf
<1>3. ASSUME NEW t \in Tasks, NEW g \in Execs, Deliver(t, g)  PROVE StartedKept
  <2>1. /\ pc[g] = "free" /\ UNCHANGED <<asker, target, status>>
        /\ \A f \in Execs : f # g => task'[f] = task[f]
    BY <1>3 DEF Deliver, NextExec, TypeOK
  <2> QED
    BY <2>1 DEF StartedKept, HasRow, JobOf
<1>4. ASSUME NEW f \in Execs, RunTask(f)  PROVE StartedKept
  <2>1. UNCHANGED <<task, asker, target>> /\ \A k \in Jobs : HasRow(k)' => HasRow(k)
    BY <1>4, TaskFrame
  <2> QED
    BY <1>e, <2>1 DEF StartedKept, HasRow, JobOf
<1>5. ASSUME NEW f \in Execs, Environment(f)  PROVE StartedKept
  BY <1>5, EnvironmentFrame DEF StartedKept, HasRow, JobOf
<1>6. CASE UNCHANGED vars
  BY <1>6 DEF vars, StartedKept, HasRow, JobOf
<1> QED
  BY <1>1, <1>2, <1>3, <1>4, <1>5, <1>6, IngestionAssumption DEF Next

\* Documents are of executions that were started, so their owners stay.
LEMMA OwnersKept ==
    ASSUME TypeOK, ControlInv, DocsInv, StartedKept
    PROVE  \A d \in lib : Owner(d)' = Owner(d) /\ SlotOf(d)' = SlotOf(d)
<1> SUFFICES ASSUME NEW d \in lib
             PROVE  Owner(d)' = Owner(d) /\ SlotOf(d)' = SlotOf(d)
  OBVIOUS
<1>1. d[1] \in Execs /\ d \in made[d[1]]
  BY DEF TypeOK, Docs, DocsInv
<1>2. pc[d[1]] # "free"
  BY <1>1 DEF DocsInv
<1> QED
  BY <1>1, <1>2 DEF StartedKept, Owner, SlotOf, JobOf

\* The execution that works itself.
LEMMA OwnTask ==
    ASSUME TypeOK, DocsInv, NEW e \in Execs, Own(e), RunTask(e),
           StartedKept, \A d \in lib : Owner(d)' = Owner(d)
    PROVE  Own(e)'
<1> USE DEF dbVars, apiVars, runVars, runLocals, Goto, TypeOK
<1>1. pc[e] # "free"
  BY TaskFrame DEF Alive, LiveStates
<1>2. /\ task'[e] = task[e] /\ asker'[JobOf(e)] = asker[JobOf(e)]
      /\ JobOf(e)' = JobOf(e) /\ HasRow(JobOf(e))' => HasRow(JobOf(e))
  BY <1>1 DEF StartedKept, JobOf, HasRow
<1>own. ASSUME HasRow(JobOf(e)) =>
                 /\ pc'[e] = "batch" =>
                     \A d \in todo'[e] : /\ d \in lib /\ Owner(d) = asker[JobOf(e)]
                                        /\ d \in lib' \ emb'
                 /\ pc'[e] \in {"files", "swap", "commit"} => made'[e] \subseteq lib' \cup pend'[e]
        PROVE  Own(e)'
  <2> SUFFICES ASSUME HasRow(JobOf(e))'
               PROVE  /\ pc'[e] = "batch" =>
                          \A d \in todo'[e] :
                              d \in lib' \ emb' /\ Owner(d)' = asker'[JobOf(e)']
                      /\ pc'[e] \in {"files", "swap", "commit"} =>
                          made'[e] \subseteq lib' \cup pend'[e]
    BY DEF Own
  <2>1. asker'[JobOf(e)'] = asker[JobOf(e)]
    BY <1>2 DEF JobOf
  <2>2. HasRow(JobOf(e))
    BY <1>2 DEF HasRow, JobOf
  <2> QED
    BY ONLY <1>own, <2>1, <2>2, \A d \in lib : Owner(d)' = Owner(d)
<1>3. CASE \E n \in 0..MaxFiles : Fetch(e, n)
  <2>1. pc[e] = "fetch" /\ made' = made /\ pc'[e] \in {"finish", "files"}
    BY <1>3 DEF Fetch
  <2>2. made[e] = {}
    BY <2>1 DEF DocsInv
  <2> QED
    BY <1>own, <2>1, <2>2
<1>4. CASE SkipFile(e)
  <2>1. /\ pc[e] = "files" /\ UNCHANGED <<made, pend, lib>> /\ pc'[e] \in {"swap", "files"}
    BY <1>4 DEF SkipFile, NextFile
  <2>2. HasRow(JobOf(e)) => made'[e] \subseteq lib' \cup pend'[e]
    BY <2>1 DEF Own
  <2> QED
    BY ONLY <1>own, <2>1, <2>2
<1>5. CASE AddFile(e)
  <2> DEFINE doc == <<e, idx[e] + 1>>
  <2>1. /\ pc[e] = "files" /\ pc'[e] \in {"swap", "files"}
        /\ made'[e] = made[e] \cup {doc}
        /\ \/ lib' = lib \cup pend[e] \cup {doc}
           \/ lib' = lib /\ pend'[e] = pend[e] \cup {doc}
    BY <1>5 DEF AddFile, NextFile
  <2>2. HasRow(JobOf(e)) => made'[e] \subseteq lib' \cup pend'[e]
    BY <2>1 DEF Own
  <2>3. pc'[e] # "batch"
    BY <2>1
  <2> HIDE DEF doc
  <2> QED
    BY ONLY <1>own, <2>2, <2>3
<1>6. CASE LoadChunks(e)
  <2>1. /\ pc'[e] \in {"finish", "batch"} /\ UNCHANGED <<lib, emb>>
        /\ todo'[e] = {d \in lib \ emb : Owner(d) = asker[JobOf(e)]}
    BY <1>6 DEF LoadChunks, ReadList
  <2>2. \A d \in todo'[e] : /\ d \in lib /\ Owner(d) = asker[JobOf(e)]
                            /\ d \in lib' \ emb'
    BY ONLY <2>1
  <2>3. pc'[e] \notin {"files", "swap", "commit"}
    BY ONLY <2>1
  <2> QED
    BY ONLY <1>own, <2>2, <2>3
<1>7. CASE \E batch \in Batches(todo[e]) : EmbedBatch(e, batch)
  <2>1. PICK batch : EmbedBatch(e, batch)
    BY <1>7
  <2>2. /\ pc[e] = "batch" /\ lib' = lib /\ emb' = emb \cup batch
        /\ todo'[e] = todo[e] \ batch
        /\ pc'[e] \in {"raise", "finish", "batch"}
    BY <2>1 DEF EmbedBatch
  <2>3. HasRow(JobOf(e)) =>
            \A d \in todo[e] : d \in lib \ emb /\ Owner(d) = asker[JobOf(e)]
    BY ONLY <2>2, Own(e) DEF Own
  <2>4. HasRow(JobOf(e)) =>
            \A d \in todo'[e] : /\ d \in lib /\ Owner(d) = asker[JobOf(e)]
                               /\ d \in lib' \ emb'
    BY ONLY <2>2, <2>3
  <2>5. pc'[e] \notin {"files", "swap", "commit"}
    BY ONLY <2>2
  <2> QED
    BY ONLY <1>own, <2>4, <2>5
<1>8. ASSUME pc'[e] \notin {"batch", "files", "swap", "commit"}  PROVE Own(e)'
  BY <1>8 DEF Own
<1>9. CASE RejectUrl(e) \/ StartIngest(e) \/ MarkEmbedding(e) \/ DispatchEmbedding(e)
  BY <1>8, <1>9 DEF RejectUrl, StartIngest, MarkEmbedding, DispatchEmbedding
<1>10. CASE DeleteGithub(e) \/ DeleteNotion(e)
  <2>1. /\ pc[e] = "swap" /\ UNCHANGED <<made, pend, lib>> /\ pc'[e] = "commit"
    BY <1>10 DEF DeleteGithub, DeleteNotion, AwaitCommit
  <2>2. HasRow(JobOf(e)) => made'[e] \subseteq lib' \cup pend'[e]
    BY <2>1 DEF Own
  <2> QED
    BY ONLY <1>own, <2>1, <2>2
<1>12. CASE CommitSwap(e)
  BY <1>8, <1>12 DEF CommitSwap
<1>11. CASE MarkComplete(e) \/ MarkReady(e) \/ Raise(e) \/ MarkFailed(e) \/ Acknowledge(e)
  BY <1>8, <1>11 DEF MarkComplete, MarkReady, Raise, MarkFailed, Acknowledge
<1> QED
  BY <1>3, <1>4, <1>5, <1>6, <1>7, <1>9, <1>10, <1>11, <1>12 DEF RunTask

\* A wipe takes the documents of a user with the rows of his jobs.
LEMMA OwnWipe ==
    ASSUME TypeOK, ControlInv, DocsInv, NEW e \in Execs, Own(e), NEW u \in Users,
           WipeLibrary(u), StartedKept, \A d \in lib : Owner(d)' = Owner(d)
    PROVE  Own(e)'
<1> SUFFICES ASSUME HasRow(JobOf(e))', pc[e] \in {"batch", "files", "swap", "commit"}
             PROVE  Own(e)'
  BY DEF Own, WipeLibrary, runVars
<1>1. pc[e] # "free" /\ JobOf(e) \in Jobs
  BY DEF ControlInv, JobOf, Tasks
<1>2. UNCHANGED <<pc, task, todo, made, pend, asker>>
  BY DEF WipeLibrary, runVars, runLocals
<1>3. HasRow(JobOf(e)) /\ JobOf(e)' = JobOf(e)
  BY <1>1, <1>2 DEF StartedKept, JobOf
<1>4. asker[JobOf(e)] # u
  BY <1>1, <1>2, <1>3 DEF WipeLibrary, HasRow, RowStatuses, JobOf
<1>5. lib' = {d \in lib : Owner(d) # u} /\ emb' = {d \in emb : Owner(d) # u}
  BY DEF WipeLibrary
<1>6. \A d \in made[e] : Owner(d) = asker[JobOf(e)]
  BY DEF DocsInv, Owner, JobOf
<1> QED
  BY <1>2, <1>3, <1>4, <1>5, <1>6 DEF Own

LEMMA SingleStep ==
    ASSUME Workers = 1, TypeOK, ControlInv, DocsInv, SingleInv, [Next]_vars
    PROVE  SingleInv'
<1> SUFFICES ASSUME NEW e \in Execs, Alive(e)'  PROVE Own(e)'
  BY AloneStep DEF SingleInv, Own, Alive, LiveStates
<1> USE DEF dbVars, apiVars, runVars, runLocals
<1>k. StartedKept /\ (\A d \in lib : Owner(d)' = Owner(d)) /\ Own(e) /\ Alone
  BY StartedStep, OwnersKept DEF SingleInv
\* Nothing that the execution depends on has changed.
<1>1. ASSUME UNCHANGED <<lib, emb>>, pc[e] # "free", pc'[e] = pc[e],
             todo'[e] = todo[e], made'[e] = made[e], pend'[e] = pend[e]
      PROVE  Own(e)'
  <2>1. /\ JobOf(e)' = JobOf(e) /\ asker'[JobOf(e)] = asker[JobOf(e)]
        /\ HasRow(JobOf(e))' => HasRow(JobOf(e))
    BY <1>k, <1>1 DEF StartedKept, JobOf
  <2> QED
    BY <1>k, <1>1, <2>1 DEF Own
<1>2. ASSUME UNCHANGED <<lib, emb, pc, runLocals>>  PROVE Own(e)'
  <2>1. pc[e] # "free"
    BY <1>2 DEF Alive, LiveStates
  <2> QED
    BY <1>1, <1>2, <2>1
<1>3. ASSUME NEW j \in Jobs, Handlers(j)  PROVE Own(e)'
  BY <1>2, <1>3 DEF Handlers, RequestGithub, RequestNotion, ReadBadge, CommitRequest,
     DispatchRequest, LoseDispatch, ReadForCancel, CommitCancel
<1>4. ASSUME NEW u \in Users, WipeLibrary(u)  PROVE Own(e)'
  BY <1>k, <1>4, OwnWipe
<1>5. ASSUME NEW t \in Tasks, NEW g \in Execs, Deliver(t, g)  PROVE Own(e)'
  <2>1. CASE e = g
    <3>1. pc'[e] \in {"start", "load"}
      BY <1>5, <2>1 DEF Deliver, Goto, TypeOK
    <3> QED
      BY <3>1 DEF Own
  <2>2. CASE e # g
    <3>1. pc'[e] = pc[e] /\ UNCHANGED <<lib, emb, todo, made, pend>>
      BY <1>5, <2>2 DEF Deliver, Goto, TypeOK
    <3>2. pc[e] # "free"
      BY <3>1 DEF Alive, LiveStates
    <3> QED
      BY <1>1, <3>1, <3>2
  <2> QED
    BY <2>1, <2>2
<1>6. ASSUME NEW f \in Execs, RunTask(f)  PROVE Own(e)'
  <2>1. CASE e = f
    BY <1>k, <1>6, <2>1, OwnTask
  <2>2. CASE e # f
    <3>1. Alive(f) /\ pc'[e] = pc[e]
      BY <1>6, <2>2, TaskFrame
    <3> QED
      BY <1>k, <2>2, <3>1 DEF Alone, Alive
  <2> QED
    BY <2>1, <2>2
<1>7. ASSUME NEW f \in Execs, Environment(f)  PROVE Own(e)'
  <2>1. CASE pc'[e] = "ack"
    BY <2>1 DEF Own
  <2>2. CASE pc'[e] # "ack"
    <3>1. /\ UNCHANGED <<lib, emb>> /\ pc'[e] = pc[e] /\ todo'[e] = todo[e]
          /\ made'[e] = made[e] /\ pend'[e] = pend[e]
      BY <1>7, <2>2, EnvironmentFrame
    <3>2. pc[e] # "free"
      BY <3>1 DEF Alive, LiveStates
    <3> QED
      BY <1>1, <3>1, <3>2
  <2> QED
    BY <2>1, <2>2
<1>8. CASE UNCHANGED vars
  BY <1>2, <1>8 DEF vars
<1> QED
  BY <1>3, <1>4, <1>5, <1>6, <1>7, <1>8, IngestionAssumption DEF Next

LEMMA SingleStart == Init => SingleInv
  BY DEF Init, SingleInv, Alone, Own, Alive, LiveStates

LEMMA SingleAlways == Workers = 1 => (Spec => [](IndInv /\ SingleInv))
<1> SUFFICES ASSUME Workers = 1  PROVE Spec => [](IndInv /\ SingleInv)
  OBVIOUS
<1>1. IndInv /\ SingleInv /\ [Next]_vars => SingleInv'
  BY SingleStep DEF IndInv
<1> QED
  BY <1>1, SingleStart, IndInvCorrect, PTL DEF Spec

\* With one task at a time an embedding insert meets no chunk that another task has
\* embedded or deleted: embed_chunks in embeddings.py, which reads its list once.
THEOREM EmbedsMeetNoConflict == Workers = 1 => (Spec => []NoEmbedConflict)
<1>1. SingleInv => NoEmbedConflict
  BY DEF SingleInv, Own, NoEmbedConflict
<1> QED
  BY <1>1, SingleAlways, PTL

\* With one task at a time a repository that is indexed again is never left empty,
\* although the old documents go in one step and new ones were committed before:
\* the delete of ingest_github_repo, which spares the documents of its run.
THEOREM ReindexKeepsLibrary == Workers = 1 => (Spec => GithubReindexKeepsLibrary)
<1> SUFFICES ASSUME Workers = 1  PROVE Spec => GithubReindexKeepsLibrary
  OBVIOUS
<1>1. ASSUME IndInv, SingleInv, [Next]_vars  PROVE SwapKeeps(GithubSlots)
  <2> SUFFICES ASSUME NEW e \in swapped' \ swapped, HasRow(JobOf(e)),
                      target[JobOf(e)] \in GithubSlots,
                      NEW old \in lib, SlotOf(old) = target[JobOf(e)]
               PROVE  \E d \in lib' : SlotOf(d) = target[JobOf(e)]
    BY DEF SwapKeeps, SlotDocs
  <2>t. TypeOK /\ ControlInv /\ DocsInv
    BY <1>1 DEF IndInv
  <2>1. e \in Execs /\ CommitSwap(e)
    <3> USE DEF dbVars, apiVars, runVars, runLocals, history, Forsake
    <3>1. ASSUME NEW f \in Execs, RunTask(f)  PROVE e = f /\ CommitSwap(e)
      <4>1. CommitSwap(f)
        BY <3>1 DEF RunTask, RejectUrl, StartIngest, Fetch, SkipFile, AddFile,
           DeleteGithub, DeleteNotion, AwaitCommit, MarkEmbedding, DispatchEmbedding,
           LoadChunks, ReadList, EmbedBatch, MarkComplete, MarkReady, Raise,
           MarkFailed, Acknowledge
      <4> QED
        BY <4>1 DEF CommitSwap
    <3>2. ASSUME NEW f \in Execs, Environment(f)  PROVE FALSE
      BY <2>t, <3>2, EnvironmentFrame
    <3>3. ASSUME NEW j \in Jobs, Handlers(j)  PROVE FALSE
      BY <3>3 DEF Handlers, RequestGithub, RequestNotion, ReadBadge, CommitRequest,
         DispatchRequest, LoseDispatch, ReadForCancel, CommitCancel
    <3>4. ~UNCHANGED vars /\ (\A u \in Wipers : ~WipeLibrary(u))
          /\ (\A t \in Tasks, f \in Execs : ~Deliver(t, f))
      BY DEF vars, WipeLibrary, Deliver
    <3> QED
      BY <1>1, <3>1, <3>2, <3>3, <3>4, <2>t DEF Next, TypeOK
  <2>2. pc[e] = "commit" /\ made[e] \subseteq lib \cup pend[e]
    BY <1>1, <2>1 DEF CommitSwap, SingleInv, Own
  <2>c. lib' = (lib \cup pend[e]) \ doomed[e]
    BY <2>1 DEF CommitSwap
  <2>3. CASE made[e] = {}
    <3>1. doomed[e] = {}
      BY <1>1, <2>1, <2>2, <2>3 DEF IndInv, SwapInv
    <3> QED
      BY <2>c, <3>1
  <2>4. ASSUME NEW d \in made[e]  PROVE d \in lib' /\ SlotOf(d) = target[JobOf(e)]
    <3>1. d[1] = e /\ d \notin doomed[e]
      BY <2>t, <2>1, <2>4 DEF DocsInv
    <3> QED
      BY <2>2, <2>4, <2>c, <3>1 DEF SlotOf
  <2> QED
    BY <2>3, <2>4
<1>2. (IndInv /\ SingleInv) /\ [Next]_vars => SwapKeeps(GithubSlots)
  BY <1>1
<1> QED
  BY <1>2, SingleAlways, PTL DEF Spec, GithubReindexKeepsLibrary
==============================================================================
