---------------------------- MODULE SourcesProofs -----------------------------
(***************************************************************************)
(* Theorems about Sources for any set of repositories and workspaces, any  *)
(* number of jobs and polls, and any tour.  They concern what the pages    *)
(* leave behind when they are gone: requests of the onboarding page, and   *)
(* the ids of jobs in localStorage.                                        *)
(***************************************************************************)
EXTENDS Sources, FiniteSetTheorems, TLAPS

LEMMA Constants == Sources \cap {Default} = {} /\ IsFiniteSet(Sources)
  BY SourcesAssumption

------------------------------------------------------------------------------
(* The ids in localStorage                                                 *)

GhostType ==
    /\ registry \in Seq(Jobs)
    /\ status \in [Jobs -> Stations \cup {"none"}]
    /\ param \in Jobs \cup {NoJob}

GhostInv == GhostType /\ GhostsAreLate

\* registerJob adds the new id and may drop others.
LEMMA RegisterAdds ==
    ASSUME NEW q \in Seq(Jobs), NEW j \in Jobs
    PROVE  /\ RegisterJob(q, j) \in Seq(Jobs)
           /\ SetOf(RegisterJob(q, j)) \subseteq SetOf(q) \cup {j}
<1>1. CASE j \in SetOf(q)
  BY <1>1 DEF RegisterJob
<1>2. CASE j \notin SetOf(q)
  <2> DEFINE all == <<j>> \o q
             n == IF Len(all) < Keep THEN Len(all) ELSE Keep
  <2>1. all \in Seq(Jobs) /\ Len(all) = Len(q) + 1 /\ Len(q) \in Nat
    OBVIOUS
  <2>2. \A i \in 1..Len(all) : all[i] \in SetOf(q) \cup {j}
    <3> SUFFICES ASSUME NEW i \in 1..Len(all)  PROVE all[i] \in SetOf(q) \cup {j}
      OBVIOUS
    <3>1. CASE i = 1
      BY <3>1
    <3>2. CASE i # 1
      <4>1. i - 1 \in 1..Len(q) /\ all[i] = q[i - 1]
        BY <3>2, <2>1
      <4> QED
        BY <4>1 DEF SetOf
    <3> QED
      BY <3>1, <3>2
  <2>3. n \in 0..Len(all)
    BY <2>1, SourcesAssumption
  <2> HIDE DEF all
  <2>4. /\ SubSeq(all, 1, n) \in Seq(Jobs)
        /\ DOMAIN SubSeq(all, 1, n) = 1..n
        /\ \A i \in 1..n : SubSeq(all, 1, n)[i] = all[i]
    BY <2>1, <2>3
  <2>5. RegisterJob(q, j) = SubSeq(all, 1, n)
    BY <1>2 DEF RegisterJob, Prefix, all
  <2>6. \A i \in 1..n : all[i] \in SetOf(q) \cup {j}
    BY <2>1, <2>2, <2>3
  <2> HIDE DEF n
  <2> QED
    BY <2>4, <2>5, <2>6 DEF SetOf
<1> QED
  BY <1>1, <1>2

\* A step that registers nothing: no row goes, or the wipe is yet to be heard of.
LEMMA KeepsGhost ==
    ASSUME GhostInv, UNCHANGED <<registry, late>>,
           status' \in [Jobs -> Stations \cup {"none"}],
           param' \in Jobs \cup {NoJob},
           \/ wiping' = "done" \/ unheard'
           \/ /\ wiping # "done" /\ ~unheard
              /\ \A j \in Jobs : status'[j] = "none" => status[j] = "none"
    PROVE  GhostInv'
<1>1. GhostType'
  BY DEF GhostInv, GhostType
<1>2. \A j \in SetOf(registry) : j \in Jobs
  BY DEF GhostInv, GhostType, SetOf
<1>3. GhostsAreLate'
  BY <1>2 DEF GhostInv, GhostsAreLate
<1> QED
  BY <1>1, <1>3 DEF GhostInv

\* A step that registers a job: if the row is gone, that is noted.
LEMMA RememberGhost ==
    ASSUME GhostInv, NEW j \in Jobs, Remember(j),
           UNCHANGED <<status, param, wiping, unheard>>
    PROVE  GhostInv'
<1>1. registry' \in Seq(Jobs) /\ SetOf(registry') \subseteq SetOf(registry) \cup {j}
  BY RegisterAdds DEF GhostInv, GhostType, Remember
<1>2. late \subseteq late' /\ (j \notin SetOf(registry) /\ status[j] = "none" => j \in late')
  BY DEF Remember
<1>3. SetOf(registry)' = SetOf(registry')
  BY DEF SetOf
<1>4. GhostsAreLate'
  BY <1>1, <1>2, <1>3 DEF GhostInv, GhostsAreLate
<1> QED
  BY <1>1, <1>4 DEF GhostInv, GhostType

LEMMA GhostStart == SourcesInit => GhostInv
<1> SUFFICES ASSUME SourcesInit  PROVE GhostInv
  OBVIOUS
<1>1. registry = <<>> /\ param = NoJob
  BY DEF SourcesInit
<1>2. status \in [Jobs -> Stations \cup {"none"}]
  BY DEF SourcesInit, Before, Stations
<1>3. GhostType
  BY <1>1, <1>2 DEF GhostType
<1>4. SetOf(registry) = {}
  BY <1>1 DEF SetOf
<1> QED
  BY <1>3, <1>4 DEF GhostInv, GhostsAreLate

LEMMA FrameGhost ==
    ASSUME GhostInv, UNCHANGED <<status, registryVars, wiping, unheard>>,
           param' \in Jobs \cup {NoJob}
    PROVE  GhostInv'
<1>1. UNCHANGED <<status, registry, late, wiping, unheard>>
  BY DEF registryVars
<1>2. status' \in [Jobs -> Stations \cup {"none"}]
  BY <1>1 DEF GhostInv, GhostType
<1> QED
  BY <1>1, <1>2, KeepsGhost

\* A step that changes the status of one job, never to "none".
LEMMA StatusGhost ==
    ASSUME GhostInv, NEW j \in Jobs, NEW s \in Stations,
           status' = [status EXCEPT ![j] = s],
           UNCHANGED <<registryVars, wiping, unheard>>,
           param' \in Jobs \cup {NoJob}
    PROVE  GhostInv'
<1>1. UNCHANGED <<registry, late, wiping, unheard>>
  BY DEF registryVars
<1>2. status \in [Jobs -> Stations \cup {"none"}]
  BY DEF GhostInv, GhostType
<1>3. status' \in [Jobs -> Stations \cup {"none"}]
  BY <1>2
<1>4. \A k \in Jobs : status'[k] = "none" => status[k] = "none"
  BY <1>2 DEF Stations
<1> QED
  BY <1>1, <1>3, <1>4, KeepsGhost

\* The document is left, or the wipe moves on: a reply is to come, or is lost.
LEMMA WipeGhost ==
    ASSUME GhostInv, UNCHANGED <<registryVars>>,
           status' \in [Jobs -> Stations \cup {"none"}],
           param' \in Jobs \cup {NoJob},
           \/ wiping' = "done" \/ unheard'
           \/ wiping # "done" /\ ~unheard /\ UNCHANGED status
    PROVE  GhostInv'
<1>1. UNCHANGED <<registry, late>>
  BY DEF registryVars
<1> QED
  BY <1>1, KeepsGhost

LEMMA GhostStep == GhostInv /\ [SourcesNext]_sourcesVars => GhostInv'
<1> SUFFICES ASSUME GhostInv, [SourcesNext]_sourcesVars
             PROVE  GhostInv'
  OBVIOUS
<1> USE DEF serverVars, askVars, connVars, jobsVars, setupVars
<1>t. param \in Jobs \cup {NoJob} /\ status \in [Jobs -> Stations \cup {"none"}]
  BY DEF GhostInv, GhostType
<1>1. ASSUME NEW p \in Pages, Go(p)  PROVE GhostInv'
  BY <1>1, FrameGhost DEF Go
<1>2. ASSUME NEW j \in Jobs, Serve(j)  PROVE GhostInv'
  <2>1. CASE Accept(j)
    BY <2>1, StatusGhost, <1>t DEF Accept, Stations
  <2>2. CASE Refuse(j)
    BY <2>2, FrameGhost, <1>t DEF Refuse
  <2>3. CASE Work(j)
    <3>1. UNCHANGED <<registryVars, wiping, unheard, param>>
      BY <2>3, Zenon DEF Work
    <3>2. UNCHANGED status \/ \E s \in Stations : status' = [status EXCEPT ![j] = s]
      BY <2>3, Zenon DEF Work, Write
    <3> QED
      BY <3>1, <3>2, StatusGhost, FrameGhost, <1>t
  <2>4. CASE ServeCancel(j)
    <3>1. CASE status[j] = "running"
      BY <2>4, <3>1, StatusGhost, <1>t DEF ServeCancel, Write, Stations
    <3>2. CASE status[j] # "running"
      BY <2>4, <3>2, FrameGhost, <1>t DEF ServeCancel
    <3> QED
      BY <3>1, <3>2
  <2> QED
    BY <1>2, <2>1, <2>2, <2>3, <2>4 DEF Serve
<1>3. ASSUME NEW j \in Jobs, HearCall(j)  PROVE GhostInv'
  <2>1. UNCHANGED <<status, param, wiping, unheard>>
    BY <1>3 DEF HearCall
  <2>2. UNCHANGED registryVars \/ Remember(j)
    BY <1>3 DEF HearCall, HearSpace, HearIndex
  <2> QED
    BY <2>1, <2>2, FrameGhost, RememberGhost, <1>t
<1>4. ASSUME NEW j \in Jobs, GrantJob(j)  PROVE GhostInv'
  BY <1>4, StatusGhost, <1>t DEF GrantJob, Stations
<1>5. CASE LoadJobList
  <2>1. UNCHANGED <<status, param, wiping, unheard>>
    BY <1>5 DEF LoadJobList
  <2>2. UNCHANGED registryVars \/ (param # NoJob /\ Remember(param))
    BY <1>5 DEF LoadJobList
  <2> QED
    BY <2>1, <2>2, FrameGhost, RememberGhost, <1>t
<1>6. CASE LoadDocs \/ ShowProviders \/ Focus \/ ReindexAll
  BY <1>6, FrameGhost, <1>t DEF LoadDocs, ShowProviders, Focus, ReindexAll
<1>7. ASSUME NEW r \in Repos, AddRepo(r) \/ Reindex(r)  PROVE GhostInv'
  BY <1>7, FrameGhost, <1>t DEF AddRepo, Reindex
<1>8. ASSUME NEW w \in Spaces,
             IndexSpace(w) \/ AskDisconnect(w) \/ Disconnect(w) \/ GrantSpace(w)
      PROVE  GhostInv'
  BY <1>8, FrameGhost, <1>t DEF IndexSpace, AskDisconnect, Disconnect, GrantSpace
<1>9. CASE Connect
  <2>1. UNCHANGED <<status, registryVars>> /\ param' = NoJob
    BY <1>9 DEF Connect
  <2>2. unheard' = (unheard \/ wiping = "done")
    BY <1>9 DEF Connect, Unload
  <2> QED
    BY <2>1, <2>2, WipeGhost, <1>t
<1>10. CASE AbandonGrant
  BY <1>10, FrameGhost, <1>t DEF AbandonGrant
<1>11. CASE Poll \/ AnyList \/ AnyShow
  BY <1>11, FrameGhost, <1>t DEF Poll, AnyList, ListJobs, AnyShow, ShowJobs
<1>12. ASSUME NEW i \in DOMAIN shown, Cancel(i) \/ Rerun(i)  PROVE GhostInv'
  BY <1>12, FrameGhost, <1>t DEF Cancel, Rerun
<1>13. CASE LoadProviders \/ Retry \/ StartIndexing
  BY <1>13, FrameGhost, <1>t DEF LoadProviders, Retry, StartIndexing
<1>14. CASE Redirect
  BY <1>14, FrameGhost DEF Redirect
<1>15. ASSUME NEW S, LoadResources(S)  PROVE GhostInv'
  BY <1>15, FrameGhost, <1>t DEF LoadResources
<1>16. ASSUME NEW s \in Sources, Toggle(s)  PROVE GhostInv'
  BY <1>16, FrameGhost, <1>t DEF Toggle
<1>17. CASE AskWipe
  <2>1. UNCHANGED <<status, registryVars, param, unheard>> /\ wiping = "no"
    BY <1>17 DEF AskWipe
  <2> QED
    BY <2>1, WipeGhost, <1>t
<1>18. CASE ServeWipe
  <2>1. UNCHANGED <<registryVars, param>> /\ wiping \in {"asked", "deaf"}
    BY <1>18 DEF ServeWipe
  <2>2. CASE status' = [j \in Jobs |-> "none"] /\ (wiping' = "done" \/ unheard')
    BY <2>1, <2>2, WipeGhost, <1>t
  <2>3. CASE UNCHANGED <<status, unheard>>
    BY <2>1, <2>3, WipeGhost, <1>t
  <2> QED
    BY <1>18, <2>2, <2>3 DEF ServeWipe
<1>19. CASE HearWipe
  <2>1. UNCHANGED <<status, param>> /\ registry' = <<>>
    BY <1>19 DEF HearWipe, ForgetJobs
  <2>2. SetOf(registry)' = {}
    BY <2>1 DEF SetOf
  <2>3. GhostsAreLate'
    BY <2>2 DEF GhostsAreLate
  <2> QED
    BY <2>1, <2>3, <1>t DEF GhostInv, GhostType
<1>20. CASE LoseWipe
  <2>1. UNCHANGED <<status, registryVars, param>> /\ unheard' = TRUE
    BY <1>20 DEF LoseWipe
  <2> QED
    BY <2>1, WipeGhost, <1>t
<1>21. CASE UNCHANGED sourcesVars
  BY <1>21, FrameGhost, <1>t DEF sourcesVars
<1> QED
  BY <1>1, <1>2, <1>3, <1>4, <1>5, <1>6, <1>7, <1>8, <1>9, <1>10, <1>11, <1>12,
     <1>13, <1>14, <1>15, <1>16, <1>17, <1>18, <1>19, <1>20, <1>21
     DEF SourcesNext, SourcesStep

\* A registered job whose row is gone was registered by a reply that was under way
\* when the library was wiped: registerJob in jobs/page.tsx, handleWipe in
\* settings/page.tsx, wipe_library in admin.py.
THEOREM GhostsTheorem == SourcesSpec => []GhostsAreLate
<1>1. GhostInv => GhostsAreLate
  BY DEF GhostInv
<1> QED
  BY <1>1, GhostStart, GhostStep, PTL DEF SourcesSpec

------------------------------------------------------------------------------
(* The onboarding page                                                     *)

Fields == {"by", "src", "phase", "here", "batch"}
SetupStates == {"none", "loading", "error", "ready", "posting", "done"}

SetupType ==
    /\ DOMAIN call = Jobs
    /\ \A j \in Jobs : DOMAIN call[j] = Fields
    /\ wired \subseteq Spaces
    /\ DOMAIN setup = {"st", "first", "offered", "chosen"}
    /\ setup.st \in SetupStates
    /\ setup.first \subseteq Spaces
    /\ setup.offered \subseteq Sources
    /\ setup.chosen \subseteq Sources

\* The request that made job j is one of the onboarding page that is open.
Mine(j) == call[j].by = "setup" /\ call[j].here

\* Requests of the page are there after its button was used, which it is once, and
\* all belong to the last batch.
MineInv ==
    /\ page # "setup" => setup.st = "none"
    /\ \A j \in Jobs : Mine(j) =>
        setup.st \in {"posting", "done"} /\ call[j].batch = batch

AnsweredInv == setup.st = "done" => \A j \in Jobs : Mine(j) => call[j].phase = "over"
OnceInv == \A j, k \in Jobs : Mine(j) /\ Mine(k) /\ call[j].src = call[k].src => j = k

SetupInv == SetupType /\ MineInv /\ AnsweredInv /\ OnceInv

LEMMA SetupImplies == SetupInv => StartedMeansAnswered /\ EachChosenPostedOnce
  BY DEF SetupInv, AnsweredInv, OnceInv, Mine, StartedMeansAnswered,
         EachChosenPostedOnce

\* The sequence of a finite set has each of its elements once.
LEMMA ListingOnce ==
    ASSUME NEW S, IsFiniteSet(S)
    PROVE  \A i, k \in DOMAIN Listing(S) : Listing(S)[i] = Listing(S)[k] => i = k
<1> DEFINE n == Cardinality(S)
           Lists(q) == \A x \in S : \E i \in DOMAIN q : q[i] = x
<1>1. n \in Nat /\ ExistsBijection(1..n, S)
  BY FS_CardinalityType
<1>2. PICK b : b \in Surjection(1..n, S)
  BY <1>1 DEF ExistsBijection, Bijection
<1>3. b \in [1..n -> S] /\ Lists(b)
  BY <1>2 DEF Surjection
<1>4. Listing(S) = CHOOSE q \in [1..n -> S] : Lists(q)
  BY DEF Listing
<1>5. Listing(S) \in [1..n -> S] /\ Lists(Listing(S))
  <2> HIDE DEF Lists, n
  <2> QED
    BY <1>3, <1>4
<1>6. Listing(S) \in Surjection(1..n, S)
  BY <1>5 DEF Surjection
<1>7. IsFiniteSet(1..n) /\ Cardinality(1..n) = n
  BY <1>1, FS_Interval
<1>8. Listing(S) \in Injection(1..n, S)
  BY <1>6, <1>7, FS_Surjection
<1> QED
  BY <1>8 DEF Injection, IsInjective

\* A job that was posted is a new one, made by its poster, or is as it was; no two
\* new ones are for the same place of the sequence.
LEMMA PostEffect ==
    ASSUME SetupType, NEW q, NEW maker, NEW number, Post(q, maker, number)
    PROVE  /\ DOMAIN call' = Jobs
           /\ \A j \in Jobs :
               \/ call'[j] = call[j]
               \/ /\ DOMAIN call'[j] = Fields
                  /\ call'[j].by = maker /\ call'[j].batch = number
                  /\ \E i \in DOMAIN q :
                       call'[j].src = q[i] /\ NextIds(Len(q))[i] = j
<1> DEFINE ids == NextIds(Len(q))
           place(j) == CHOOSE i \in DOMAIN q : ids[i] = j
           new(j) == [by |-> maker, src |-> q[place(j)], phase |-> "sent",
                      here |-> TRUE, batch |-> number]
           chosen(j) == \E i \in DOMAIN q : ids[i] = j
<1>1. call' = [j \in Jobs |-> IF chosen(j) THEN new(j) ELSE call[j]]
  BY DEF Post
<1>2. \A j \in Jobs : chosen(j) => place(j) \in DOMAIN q /\ ids[place(j)] = j
  <2> HIDE DEF ids
  <2> QED
    OBVIOUS
<1>3. \A j \in Jobs :
        /\ DOMAIN new(j) = Fields
        /\ new(j).by = maker /\ new(j).batch = number /\ new(j).src = q[place(j)]
  BY DEF Fields
<1> HIDE DEF ids, place, new
<1>4. \A j \in Jobs : \/ call'[j] = call[j]
                      \/ call'[j] = new(j) /\ chosen(j)
  BY <1>1
<1> QED
  BY <1>1, <1>2, <1>3, <1>4 DEF ids

\* A step in which no request becomes one of the page.
LEMMA KeepsSetup ==
    ASSUME SetupInv, SetupType', UNCHANGED <<page, batch>>, setup'.st = setup.st,
           \A j \in Jobs : Mine(j)' =>
               /\ Mine(j) /\ call'[j].batch = call[j].batch
               /\ call'[j].src = call[j].src
               /\ call[j].phase = "over" => call'[j].phase = "over"
    PROVE  SetupInv'
<1>1. MineInv'
  BY DEF SetupInv, MineInv
<1>2. AnsweredInv'
  BY DEF SetupInv, AnsweredInv
<1>3. OnceInv'
  BY DEF SetupInv, OnceInv
<1> QED
  BY <1>1, <1>2, <1>3 DEF SetupInv

\* A step that leaves the page with no requests.
LEMMA NoneMine ==
    ASSUME SetupType', \A j \in Jobs : ~Mine(j)', page' # "setup" => setup'.st = "none"
    PROVE  SetupInv'
  BY DEF SetupInv, MineInv, AnsweredInv, OnceInv

LEMMA SetupFrame ==
    ASSUME SetupInv, UNCHANGED <<call, setup, page, batch>>, wired' \subseteq Spaces
    PROVE  SetupInv'
<1>1. SetupType'
  BY DEF SetupInv, SetupType
<1> QED
  BY <1>1, KeepsSetup DEF Mine

LEMMA OverShape ==
    ASSUME NEW c, DOMAIN c = Fields
    PROVE  /\ DOMAIN Over(c) = Fields
           /\ Over(c).src = c.src /\ Over(c).phase = "over"
           /\ Over(c).by = "setup" /\ Over(c).here =>
                c.by = "setup" /\ c.here /\ Over(c).batch = c.batch
<1>1. CASE c.here /\ c.by \in {"space", "setup"}
  <2>1. Over(c) = [c EXCEPT !.phase = "over"]
    BY <1>1 DEF Over
  <2> QED
    BY <2>1, <1>1 DEF Fields
<1>2. CASE ~(c.here /\ c.by \in {"space", "setup"})
  <2>1. Over(c) = [NoCall EXCEPT !.phase = "over", !.src = c.src]
    BY <1>2 DEF Over
  <2>2. Over(c) = [by |-> "nobody", src |-> c.src, phase |-> "over",
                   here |-> FALSE, batch |-> 0]
    BY <2>1 DEF NoCall
  <2> QED
    BY <2>2 DEF Fields
<1> QED
  BY <1>1, <1>2

\* When a page is gone nothing is its request any more.
LEMMA ApartShape ==
    ASSUME NEW c, DOMAIN c = Jobs, \A j \in Jobs : DOMAIN c[j] = Fields
    PROVE  /\ DOMAIN Apart(c) = Jobs
           /\ \A j \in Jobs : DOMAIN Apart(c)[j] = Fields
           /\ \A j \in Jobs : ~Apart(c)[j].here
<1> DEFINE gone(j) == [c[j] EXCEPT !.here = FALSE]
<1>1. Apart(c) = [j \in Jobs |-> IF c[j].phase = "over" THEN Over(gone(j)) ELSE gone(j)]
  BY DEF Apart
<1>2. \A j \in Jobs : DOMAIN gone(j) = Fields /\ gone(j).here = FALSE
  BY DEF Fields
<1> HIDE DEF gone
<1>3. \A j \in Jobs : DOMAIN Over(gone(j)) = Fields
  BY <1>2, OverShape
<1>4. \A j \in Jobs : Over(gone(j)).here = FALSE
  <2> SUFFICES ASSUME NEW j \in Jobs  PROVE Over(gone(j)).here = FALSE
    OBVIOUS
  <2>1. Over(gone(j)) = [NoCall EXCEPT !.phase = "over", !.src = gone(j).src]
    BY <1>2 DEF Over
  <2>2. Over(gone(j)) = [by |-> "nobody", src |-> gone(j).src, phase |-> "over",
                         here |-> FALSE, batch |-> 0]
    BY <2>1 DEF NoCall
  <2> QED
    BY <2>2
<1> QED
  BY <1>1, <1>2, <1>3, <1>4

\* Any other page is opened.
LEMMA OpenSetup ==
    ASSUME SetupInv, NEW p, NEW d, NEW n, Open(p, d, n), UNCHANGED wired,
           DOMAIN call' = Jobs, \A j \in Jobs : DOMAIN call'[j] = Fields,
           \A j \in Jobs : ~(call'[j].by = "setup" /\ call'[j].here)
    PROVE  SetupInv'
<1>1. page' = p /\ setup' = IF p = "setup" THEN [NoSetup EXCEPT !.st = "loading"]
                            ELSE NoSetup
  BY DEF Open
<1>2. \/ setup' = [st |-> "loading", first |-> {}, offered |-> {}, chosen |-> {}]
      \/ setup' = [st |-> "none", first |-> {}, offered |-> {}, chosen |-> {}]
  BY <1>1 DEF NoSetup
<1>3. page' # "setup" => setup'.st = "none"
  BY <1>1 DEF NoSetup
<1>4. SetupType'
  BY <1>2 DEF SetupInv, SetupType, SetupStates
<1> QED
  BY <1>3, <1>4, NoneMine DEF Mine

LEMMA PartSetup ==
    ASSUME SetupInv, NEW p, NEW d, NEW n, Open(p, d, n), UNCHANGED wired,
           NEW c, call' = Apart(c), DOMAIN c = Jobs,
           \A j \in Jobs : DOMAIN c[j] = Fields
    PROVE  SetupInv'
  BY ApartShape, OpenSetup

LEMMA DeafenShape ==
    ASSUME SetupType, Deafen
    PROVE  \E c : /\ call' = Apart(c) /\ DOMAIN c = Jobs
                  /\ \A j \in Jobs : DOMAIN c[j] = Fields
<1> DEFINE heard(j) ==
             CASE call[j].phase = "sent" -> [call[j] EXCEPT !.by = "nobody"]
               [] call[j].phase = "refused" -> NoCall
               [] call[j].phase = "accepted" -> Over(call[j])
               [] OTHER -> call[j]
           c == [j \in Jobs |-> heard(j)]
<1>1. call' = Apart(c)
  BY DEF Deafen
<1>2. \A j \in Jobs : DOMAIN heard(j) = Fields
  <2> SUFFICES ASSUME NEW j \in Jobs  PROVE DOMAIN heard(j) = Fields
    OBVIOUS
  <2>1. DOMAIN call[j] = Fields
    BY DEF SetupType
  <2>2. DOMAIN [call[j] EXCEPT !.by = "nobody"] = Fields
    BY <2>1
  <2>3. DOMAIN NoCall = Fields
    BY DEF NoCall, Fields
  <2>4. DOMAIN Over(call[j]) = Fields
    BY <2>1, OverShape
  <2> QED
    BY <2>1, <2>2, <2>3, <2>4
<1>3. DOMAIN c = Jobs /\ \A j \in Jobs : DOMAIN c[j] = Fields
  BY <1>2
<1> HIDE DEF c
<1> QED
  BY <1>1, <1>3

\* Another page posts.
LEMMA PostSetup ==
    ASSUME SetupInv, NEW q, NEW maker, NEW number, Post(q, maker, number),
           maker # "setup", UNCHANGED <<setup, page, batch, wired>>
    PROVE  SetupInv'
<1>1. SetupType
  BY DEF SetupInv
<1>2. /\ DOMAIN call' = Jobs
      /\ \A j \in Jobs : \/ call'[j] = call[j]
                         \/ DOMAIN call'[j] = Fields /\ call'[j].by = maker
  BY <1>1, PostEffect
<1>3. SetupType'
  BY <1>1, <1>2 DEF SetupType
<1> QED
  BY <1>2, <1>3, KeepsSetup DEF Mine

LEMMA SetupStart == SourcesInit => SetupInv
<1> SUFFICES ASSUME SourcesInit  PROVE SetupInv
  OBVIOUS
<1>1. wired \subseteq Spaces /\ DOMAIN call = Jobs
  BY DEF SourcesInit, Before
<1>2. setup = IF page = "setup" THEN [NoSetup EXCEPT !.st = "loading"] ELSE NoSetup
  BY DEF SourcesInit
<1>3. \/ setup = [st |-> "loading", first |-> {}, offered |-> {}, chosen |-> {}]
      \/ setup = [st |-> "none", first |-> {}, offered |-> {}, chosen |-> {}]
  BY <1>2 DEF NoSetup
<1>4. page # "setup" => setup.st = "none"
  BY <1>2 DEF NoSetup
<1>5. \A j \in Jobs : DOMAIN call[j] = Fields /\ ~call[j].here
  <2>1. \A j \in Jobs : \/ call[j] = NoCall
                        \/ \E w \in wired :
                             call[j] = [NoCall EXCEPT !.src = w, !.phase = "over"]
    BY DEF SourcesInit, Before
  <2>2. \A w : /\ DOMAIN [NoCall EXCEPT !.src = w, !.phase = "over"] = Fields
              /\ [NoCall EXCEPT !.src = w, !.phase = "over"].here = FALSE
    BY DEF NoCall, Fields
  <2>3. DOMAIN NoCall = Fields /\ NoCall.here = FALSE
    BY DEF NoCall, Fields
  <2> QED
    BY <2>1, <2>2, <2>3
<1>6. SetupType
  BY <1>1, <1>3, <1>5 DEF SetupType, SetupStates
<1> QED
  BY <1>4, <1>5, <1>6, <1>3 DEF SetupInv, MineInv, AnsweredInv, OnceInv, Mine

\* The server, or a reply, changes one request, none of the page's being made.
LEMMA OneCall ==
    ASSUME SetupInv, NEW j \in Jobs, NEW c, call' = [call EXCEPT ![j] = c],
           DOMAIN c = Fields,
           c.by = "setup" /\ c.here =>
               /\ Mine(j) /\ c.batch = call[j].batch /\ c.src = call[j].src
               /\ call[j].phase = "over" => c.phase = "over",
           UNCHANGED <<setup, page, batch, wired>>
    PROVE  SetupInv'
<1>1. SetupType
  BY DEF SetupInv
<1>2. DOMAIN call' = Jobs /\ \A k \in Jobs : call'[k] = IF k = j THEN c ELSE call[k]
  BY <1>1 DEF SetupType
<1>3. SetupType'
  BY <1>1, <1>2 DEF SetupType
<1> QED
  BY <1>2, <1>3, KeepsSetup DEF Mine

LEMMA ServeSetup ==
    ASSUME SetupInv, NEW j \in Jobs, Serve(j)
    PROVE  SetupInv'
<1> USE DEF serverVars, askVars, connVars, jobsVars, setupVars
<1>1. DOMAIN call[j] = Fields /\ wired \subseteq Spaces
  BY DEF SetupInv, SetupType
<1>2. DOMAIN NoCall = Fields /\ ~NoCall.here
  BY DEF NoCall, Fields
<1>3. CASE Accept(j)
  <2>1. CASE call[j].by = "nobody"
    <3>1. call' = [call EXCEPT ![j] = Over(call[j])]
      BY <1>3, <2>1 DEF Accept
    <3> QED
      BY <1>1, <1>3, <3>1, OverShape, OneCall DEF Accept, Mine
  <2>2. CASE call[j].by # "nobody"
    <3> DEFINE c == [call[j] EXCEPT !.phase = "accepted"]
    <3>1. call' = [call EXCEPT ![j] = c] /\ call[j].phase = "sent"
      BY <1>3, <2>2 DEF Accept
    <3>2. /\ DOMAIN c = Fields /\ c.by = call[j].by /\ c.here = call[j].here
          /\ c.src = call[j].src /\ c.batch = call[j].batch
      BY <1>1 DEF Fields
    <3> HIDE DEF c
    <3> QED
      BY <1>3, <3>1, <3>2, OneCall DEF Accept, Mine
  <2> QED
    BY <2>1, <2>2
<1>4. CASE Refuse(j)
  <2>1. CASE call[j].by = "nobody"
    <3>1. call' = [call EXCEPT ![j] = NoCall]
      BY <1>4, <2>1 DEF Refuse
    <3> QED
      BY <1>2, <1>4, <3>1, OneCall DEF Refuse
  <2>2. CASE call[j].by # "nobody"
    <3> DEFINE c == [call[j] EXCEPT !.phase = "refused"]
    <3>1. call' = [call EXCEPT ![j] = c] /\ call[j].phase = "sent"
      BY <1>4, <2>2 DEF Refuse
    <3>2. /\ DOMAIN c = Fields /\ c.by = call[j].by /\ c.here = call[j].here
          /\ c.src = call[j].src /\ c.batch = call[j].batch
      BY <1>1 DEF Fields
    <3> HIDE DEF c
    <3> QED
      BY <1>4, <3>1, <3>2, OneCall DEF Refuse, Mine
  <2> QED
    BY <2>1, <2>2
<1>5. CASE Work(j)
  BY <1>1, <1>5, SetupFrame DEF Work
<1>6. CASE ServeCancel(j)
  BY <1>1, <1>6, SetupFrame DEF ServeCancel
<1> QED
  BY <1>3, <1>4, <1>5, <1>6 DEF Serve

\* A reply: the last one of the batch says that all are answered.
LEMMA HearSetupInv ==
    ASSUME SetupInv, NEW j \in Jobs, HearCall(j)
    PROVE  SetupInv'
<1> DEFINE c == IF call[j].phase = "refused" THEN NoCall ELSE Over(call[j])
<1>1. /\ call' = [call EXCEPT ![j] = c]
      /\ call[j].phase \in {"accepted", "refused"}
      /\ UNCHANGED <<page, batch, wired>>
      /\ \/ UNCHANGED setup
         \/ call[j].by = "setup" /\ HearSetup(j)
  BY DEF HearCall, serverVars
<1>2. /\ DOMAIN c = Fields
      /\ c.by = "setup" /\ c.here =>
           /\ Mine(j) /\ c.batch = call[j].batch /\ c.src = call[j].src
           /\ c.phase = "over"
  <2>1. DOMAIN call[j] = Fields
    BY DEF SetupInv, SetupType
  <2>2. DOMAIN NoCall = Fields /\ ~NoCall.here
    BY DEF NoCall, Fields
  <2> QED
    BY <2>1, <2>2, OverShape DEF Mine
<1> HIDE DEF c
<1>3. CASE UNCHANGED setup
  BY <1>1, <1>2, <1>3, OneCall
<1>4. ASSUME call[j].by = "setup", HearSetup(j), setup' # setup
      PROVE  SetupInv'
  <2>1. call[j].here /\ BatchEnds(j) /\ setup' = [setup EXCEPT !.st = "done"]
    BY <1>4 DEF HearSetup
  <2>2. SetupType /\ MineInv /\ OnceInv /\ Mine(j)
    BY <1>4, <2>1 DEF SetupInv, Mine
  <2>3. DOMAIN call' = Jobs /\ \A k \in Jobs : call'[k] = IF k = j THEN c ELSE call[k]
    BY <1>1, <2>2 DEF SetupType
  <2>4. /\ DOMAIN setup' = DOMAIN setup /\ setup'.st = "done"
        /\ setup'.first = setup.first /\ setup'.offered = setup.offered
        /\ setup'.chosen = setup.chosen
    BY <2>1, <2>2 DEF SetupType
  <2>5. SetupType'
    BY <1>1, <1>2, <2>2, <2>3, <2>4 DEF SetupType, SetupStates
  <2>6. \A k \in Jobs : Mine(k)' =>
          /\ Mine(k) /\ call'[k].batch = call[k].batch
          /\ call'[k].src = call[k].src /\ call'[k].phase = "over"
    <3> SUFFICES ASSUME NEW k \in Jobs, Mine(k)'
                 PROVE  /\ Mine(k) /\ call'[k].batch = call[k].batch
                        /\ call'[k].src = call[k].src /\ call'[k].phase = "over"
      OBVIOUS
    <3>1. CASE k = j
      BY <3>1, <1>2, <2>3 DEF Mine
    <3>2. CASE k # j
      <4>1. call'[k] = call[k] /\ Mine(k)
        BY <3>2, <2>3 DEF Mine
      <4>2. call[k].batch = batch /\ call[j].batch = batch
        BY <4>1, <2>2 DEF MineInv
      <4> QED
        BY <3>2, <4>1, <4>2, <2>1 DEF BatchEnds, Mine
    <3> QED
      BY <3>1, <3>2
  <2>7. MineInv'
    BY <1>1, <2>2, <2>4, <2>6 DEF MineInv
  <2>8. AnsweredInv' /\ OnceInv'
    BY <2>2, <2>6 DEF AnsweredInv, OnceInv
  <2> QED
    BY <2>5, <2>7, <2>8 DEF SetupInv
<1> QED
  BY <1>1, <1>3, <1>4

\* The button: it is there only when nothing was posted from this page.
LEMMA StartSetup ==
    ASSUME SetupInv, StartIndexing
    PROVE  SetupInv'
<1> DEFINE q == Listing(setup.chosen)
<1>1. SetupType /\ MineInv
  BY DEF SetupInv
<1>2. setup.st = "ready"
  BY DEF StartIndexing, SetupScreen
<1>3. \A j \in Jobs : ~Mine(j)
  BY <1>1, <1>2 DEF MineInv
<1>4. /\ Post(q, "setup", batch + 1) /\ setup' = [setup EXCEPT !.st = "posting"]
      /\ batch' = batch + 1 /\ UNCHANGED <<page, wired>>
  BY DEF StartIndexing, serverVars
<1>5. IsFiniteSet(setup.chosen)
  BY <1>1, Constants, FS_Subset DEF SetupType
<1>6. \A i, k \in DOMAIN q : q[i] = q[k] => i = k
  BY <1>5, ListingOnce
<1> HIDE DEF q
<1>7. /\ DOMAIN call' = Jobs
      /\ \A j \in Jobs :
          \/ call'[j] = call[j]
          \/ /\ DOMAIN call'[j] = Fields
             /\ call'[j].by = "setup" /\ call'[j].batch = batch + 1
             /\ \E i \in DOMAIN q : call'[j].src = q[i] /\ NextIds(Len(q))[i] = j
  BY <1>1, <1>4, PostEffect
<1>8. /\ DOMAIN setup' = DOMAIN setup /\ setup'.st = "posting"
      /\ setup'.first = setup.first /\ setup'.offered = setup.offered
      /\ setup'.chosen = setup.chosen
  BY <1>1, <1>4 DEF SetupType
<1>9. SetupType'
  BY <1>1, <1>4, <1>7, <1>8 DEF SetupType, SetupStates
<1>10. \A j \in Jobs : Mine(j)' =>
         /\ call'[j].batch = batch'
         /\ \E i \in DOMAIN q : call'[j].src = q[i] /\ NextIds(Len(q))[i] = j
  BY <1>3, <1>4, <1>7 DEF Mine
<1>11. MineInv'
  BY <1>1, <1>2, <1>4, <1>8, <1>10 DEF MineInv
<1>12. OnceInv'
  BY <1>6, <1>10 DEF OnceInv
<1> QED
  BY <1>8, <1>9, <1>11, <1>12 DEF SetupInv, AnsweredInv

LEMMA SetupStep == SetupInv /\ [SourcesNext]_sourcesVars => SetupInv'
<1> SUFFICES ASSUME SetupInv, [SourcesNext]_sourcesVars
             PROVE  SetupInv'
  OBVIOUS
<1> USE DEF serverVars, askVars, connVars, jobsVars, setupVars
<1>t. /\ SetupType /\ MineInv
      /\ DOMAIN call = Jobs /\ \A j \in Jobs : DOMAIN call[j] = Fields
      /\ wired \subseteq Spaces
  BY DEF SetupInv, SetupType
<1>1. ASSUME NEW p \in Pages, Go(p)  PROVE SetupInv'
  BY <1>1, <1>t, PartSetup DEF Go, Part
<1>2. ASSUME NEW j \in Jobs, GrantJob(j)  PROVE SetupInv'
  <2> DEFINE c == Over([NoCall EXCEPT !.src = CHOOSE w \in grant : TRUE])
  <2>1. /\ page = "notion" /\ call' = [call EXCEPT ![j] = c]
        /\ Open("connections", Empty({}), Empty(<<>>)) /\ UNCHANGED wired
    BY <1>2 DEF GrantJob
  <2>2. \A k \in Jobs : ~Mine(k)
    BY <1>t, <2>1 DEF MineInv
  <2>3. DOMAIN c = Fields /\ ~(c.by = "setup" /\ c.here)
    <3> DEFINE made == [NoCall EXCEPT !.src = CHOOSE w \in grant : TRUE]
    <3>1. DOMAIN made = Fields /\ made.here = FALSE
      BY DEF NoCall, Fields
    <3> HIDE DEF made
    <3>2. DOMAIN Over(made) = Fields
          /\ ~(Over(made).by = "setup" /\ Over(made).here)
      BY <3>1, OverShape
    <3> QED
      BY <3>2 DEF made
  <2> HIDE DEF c
  <2>4. DOMAIN call' = Jobs /\ \A k \in Jobs : call'[k] = IF k = j THEN c ELSE call[k]
    BY <1>t, <2>1
  <2> QED
    BY <1>t, <2>1, <2>2, <2>3, <2>4, OpenSetup DEF Mine
<1>3. CASE LoadDocs \/ LoadJobList \/ ShowProviders \/ Focus
  BY <1>3, <1>t, SetupFrame DEF LoadDocs, LoadJobList, ShowProviders, Focus
<1>4. ASSUME NEW r \in Repos, AddRepo(r) \/ Reindex(r)  PROVE SetupInv'
  BY <1>4, PostSetup DEF AddRepo, Reindex
<1>5. ASSUME NEW w \in Spaces, IndexSpace(w)  PROVE SetupInv'
  BY <1>5, PostSetup DEF IndexSpace
<1>6. ASSUME NEW w \in Spaces, AskDisconnect(w) \/ Disconnect(w) \/ GrantSpace(w)
      PROVE  SetupInv'
  BY <1>6, <1>t, SetupFrame DEF AskDisconnect, Disconnect, GrantSpace
<1>7. CASE ReindexAll
  BY <1>7, PostSetup DEF ReindexAll
<1>8. CASE Connect
  <2>1. /\ Deafen /\ Open("notion", Empty({}), Empty(<<>>)) /\ UNCHANGED wired
    BY <1>8 DEF Connect, Unload
  <2> QED
    BY <1>t, <2>1, DeafenShape, PartSetup
<1>9. CASE AbandonGrant
  <2>1. /\ page = "notion" /\ Open("connections", Empty({}), Empty(<<>>))
        /\ UNCHANGED <<call, wired>>
    BY <1>9 DEF AbandonGrant
  <2>2. \A k \in Jobs : ~Mine(k)
    BY <1>t, <2>1 DEF MineInv
  <2> QED
    BY <1>t, <2>1, <2>2, OpenSetup DEF Mine
<1>10. CASE Poll \/ AnyList \/ AnyShow
  BY <1>10, <1>t, SetupFrame DEF Poll, AnyList, ListJobs, AnyShow, ShowJobs
<1>11. ASSUME NEW i \in DOMAIN shown, Cancel(i)  PROVE SetupInv'
  BY <1>11, <1>t, SetupFrame DEF Cancel
<1>12. ASSUME NEW i \in DOMAIN shown, Rerun(i)  PROVE SetupInv'
  BY <1>12, PostSetup DEF Rerun
<1>13. ASSUME UNCHANGED <<call, page, batch, wired>>,
              DOMAIN setup' = DOMAIN setup,
              setup'.st = setup.st, setup'.first = setup.first,
              setup'.offered \subseteq Sources, setup'.chosen \subseteq Sources
       PROVE  SetupInv'
  <2>1. SetupType'
    BY <1>t, <1>13 DEF SetupType
  <2> QED
    BY <1>13, <2>1, KeepsSetup DEF Mine
<1>14. ASSUME setup.st \in {"loading", "error"},
              UNCHANGED <<call, page, batch, wired>>,
              DOMAIN setup' = DOMAIN setup,
              setup'.st \in SetupStates, setup'.first \subseteq Spaces,
              UNCHANGED <<setup.offered, setup.chosen>>
       PROVE  SetupInv'
  <2>1. SetupType'
    BY <1>t, <1>14 DEF SetupType
  <2>2. \A k \in Jobs : ~Mine(k)
    BY <1>t, <1>14 DEF MineInv
  <2>3. page = "setup"
    BY <1>t, <1>14 DEF MineInv
  <2> QED
    BY <1>14, <2>1, <2>2, <2>3, NoneMine DEF Mine
<1>15. CASE LoadProviders
  <2>1. setup.st = "loading" /\ UNCHANGED <<call, page, batch, wired>>
    BY <1>15 DEF LoadProviders
  <2>2. CASE \E f \in IF wired = {} THEN {{}} ELSE {{w} : w \in wired} :
               setup' = [setup EXCEPT !.st = "ready", !.first = f]
    <3>1. PICK f : f \subseteq Spaces /\ setup' = [setup EXCEPT !.st = "ready", !.first = f]
      BY <1>t, <2>2
    <3>2. /\ DOMAIN setup' = DOMAIN setup /\ setup'.st = "ready" /\ setup'.first = f
          /\ setup'.offered = setup.offered /\ setup'.chosen = setup.chosen
      BY <1>t, <3>1 DEF SetupType
    <3> QED
      BY <1>14, <2>1, <3>1, <3>2 DEF SetupStates
  <2>3. CASE setup' = [setup EXCEPT !.st = "error"]
    <3>1. /\ DOMAIN setup' = DOMAIN setup /\ setup'.st = "error"
          /\ setup'.first = setup.first /\ setup.first \subseteq Spaces
          /\ setup'.offered = setup.offered /\ setup'.chosen = setup.chosen
      BY <1>t, <2>3 DEF SetupType
    <3> QED
      BY <1>14, <2>1, <3>1 DEF SetupStates
  <2> QED
    BY <1>15, <2>2, <2>3 DEF LoadProviders
<1>16. CASE Retry
  <2>1. setup.st = "error" /\ setup' = [setup EXCEPT !.st = "loading"]
        /\ UNCHANGED <<call, page, batch, wired>>
    BY <1>16 DEF Retry, SetupScreen
  <2>2. /\ DOMAIN setup' = DOMAIN setup /\ setup'.st = "loading"
        /\ setup'.first = setup.first /\ setup.first \subseteq Spaces
        /\ setup'.offered = setup.offered /\ setup'.chosen = setup.chosen
    BY <1>t, <2>1 DEF SetupType
  <2> QED
    BY <1>14, <2>1, <2>2 DEF SetupStates
<1>17. CASE StartIndexing
  BY <1>17, StartSetup
<1>18. CASE Redirect
  BY <1>18, <1>t, PartSetup DEF Redirect, Part
<1>19. ASSUME NEW S \in {Repos} \cup {{w} : w \in Spaces}, LoadResources(S)
       PROVE  SetupInv'
  <2>1. S \subseteq Sources
    BY DEF Sources
  <2>2. setup' = [setup EXCEPT !.offered = @ \cup S]
        /\ UNCHANGED <<call, page, batch, wired>>
    BY <1>19 DEF LoadResources
  <2>3. /\ DOMAIN setup' = DOMAIN setup /\ setup'.st = setup.st
        /\ setup'.first = setup.first /\ setup'.offered = setup.offered \cup S
        /\ setup'.chosen = setup.chosen
    BY <1>t, <2>2 DEF SetupType
  <2> QED
    BY <1>13, <1>t, <2>1, <2>2, <2>3 DEF SetupType
<1>20. ASSUME NEW s \in Sources, Toggle(s)  PROVE SetupInv'
  <2>1. \E C \in SUBSET Sources : setup' = [setup EXCEPT !.chosen = C]
    <3>1. setup.chosen \ {s} \subseteq Sources /\ setup.chosen \cup {s} \subseteq Sources
      BY <1>t DEF SetupType
    <3>2. setup' = [setup EXCEPT !.chosen =
                      IF s \in setup.chosen THEN setup.chosen \ {s}
                                            ELSE setup.chosen \cup {s}]
      BY <1>20 DEF Toggle
    <3> QED
      BY <3>1, <3>2
  <2>2. PICK C \in SUBSET Sources : setup' = [setup EXCEPT !.chosen = C]
    BY <2>1
  <2>3. /\ DOMAIN setup' = DOMAIN setup /\ setup'.st = setup.st
        /\ setup'.first = setup.first /\ setup'.offered = setup.offered
        /\ setup'.chosen = C
    BY <1>t, <2>2 DEF SetupType
  <2>4. UNCHANGED <<call, page, batch, wired>>
    BY <1>20 DEF Toggle
  <2> QED
    BY <1>13, <1>t, <2>3, <2>4 DEF SetupType
<1>21. CASE AskWipe \/ ServeWipe \/ LoseWipe
  BY <1>21, <1>t, SetupFrame DEF AskWipe, ServeWipe, LoseWipe
<1>22. CASE HearWipe
  <2>1. Deafen /\ Open(page, Empty({}), Empty(<<>>)) /\ UNCHANGED wired
    BY <1>22 DEF HearWipe
  <2> QED
    BY <1>t, <2>1, DeafenShape, PartSetup
<1>23. CASE UNCHANGED sourcesVars
  BY <1>23, <1>t, SetupFrame DEF sourcesVars
<1> QED
  BY <1>1, <1>2, <1>3, <1>4, <1>5, <1>6, <1>7, <1>8, <1>9, <1>10, <1>11, <1>12,
     <1>15, <1>16, <1>17, <1>18, <1>19, <1>20, <1>21, <1>22, <1>23,
     ServeSetup, HearSetupInv DEF SourcesNext, SourcesStep

LEMMA SetupAlways == SourcesSpec => []SetupInv
  BY SetupStart, SetupStep, PTL DEF SourcesSpec

\* The onboarding page says "done" when every request of its batch has been
\* answered, although replies of another batch, started before the page was left
\* and opened again, arrive in between: startIndexing in onboarding/page.tsx.
THEOREM AnsweredTheorem == SourcesSpec => []StartedMeansAnswered
  BY SetupAlways, SetupImplies, PTL

\* One visit of the onboarding page posts a source at most once, however long the
\* requests take and in whatever order they fail: startIndexing.
THEOREM OnceTheorem == SourcesSpec => []EachChosenPostedOnce
  BY SetupAlways, SetupImplies, PTL
==============================================================================
