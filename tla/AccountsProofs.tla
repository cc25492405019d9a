---------------------------- MODULE AccountsProofs ----------------------------
(***************************************************************************)
(* Theorems about Accounts for any number of browsers, people, requests    *)
(* and tokens, and any plan.  What is checked is strengthened in layers:   *)
(* where requests and pages can be, sign-up, slugs, the plan's limit, the  *)
(* scope of tokens and names, each kept with the help of those before it.  *)
(***************************************************************************)
EXTENDS Accounts, Sequences, FiniteSetTheorems, TLAPS

\* What slugs are made from.
Bases == {Login[u] : u \in Users} \cup Names

\* The pages behind the sign-in, and the states of a request that has chosen its
\* slug or may choose one.
Inside == {"dashboard", "onboarding", "app"}
Choosing == {"allowed", "picked", "inserted"}

\* What a request is, follows from where it is: it has an owner from its arrival
\* on, the owner of a creation is a user and so is that of a committed request,
\* and every committed creation has its team.
WorkInv ==
    \A r \in Reqs :
        /\ kind[r] = "none" <=> pc[r] = "idle"
        /\ kind[r] # "none" => owner[r] \in Users
        /\ pc[r] \in {"upserted", "new", "ready"} => kind[r] = "login"
        /\ pc[r] = "allowed" => kind[r] = "create"
        /\ kind[r] = "create" => owner[r] \in users
        /\ pc[r] = "committed" => owner[r] \in users
        /\ r \in teams => pc[r] = "committed"
        /\ pc[r] = "committed" /\ kind[r] = "create" => r \in teams

\* Somebody is signed in on the pages behind the sign-in; a creation is waited
\* for there only; what a browser knows of workspaces, it knows of committed ones.
PageInv ==
    \A b \in Browsers :
        /\ signed[b] # NoOne => signed[b] \in users
        /\ page[b] \in Inside => signed[b] # NoOne
        /\ \A r \in Reqs : from[r] = b /\ kind[r] = "create" => page[b] \in Inside
        /\ cards[b] \subseteq teams
        /\ active[b] \in teams \cup {NoOne}

\* The row of a user is held by one login at a time, which makes a team only for
\* one who is no user yet; every user has his default team, and only one.
SignupInv ==
    /\ \A r, q \in Reqs :
        /\ kind[r] = "login" /\ kind[q] = "login" /\ owner[r] = owner[q]
        /\ pc[r] \in HoldsUser /\ pc[q] \in HoldsUser
        => r = q
    /\ \A r \in Reqs : kind[r] = "login" =>
        /\ pc[r] \in {"new", "picked", "inserted"} => owner[r] \notin users
        /\ pc[r] = "ready" => owner[r] \in users
    /\ \A u \in users : \E r \in teams : owner[r] = u /\ Default(r)
    /\ \A r, q \in teams : Default(r) /\ Default(q) /\ owner[r] = owner[q] => r = q

\* A slug is a base, or a base with the hex of the one request that made it.  Two
\* requests that have chosen know of each other, and when one of the two is
\* committed with the slug of the other, the other still knows.
SlugInv ==
    /\ \A r \in Reqs : \/ slug[r] = NoSlug
                       \/ \E n \in Bases : slug[r] = <<n>> \/ slug[r] = <<n, r>>
    /\ \A r, q \in Reqs :
        /\ r # q /\ pc[r] \in {"picked", "inserted"}
        /\ \/ pc[q] \in {"picked", "inserted"}
           \/ q \in teams /\ slug[q] = slug[r]
        => q \in rivals[r]
    /\ SlugLostInRaceOnly

\* Of two creations of one user that may make a workspace one is counted; while
\* one that is not is under way there is room for it.
PlanInv ==
    /\ \A r \in Reqs :
        kind[r] = "create" /\ (pc[r] \in Choosing \/ r \in teams)
        => plan.can_create_teams
    /\ \A r, q \in Reqs :
        /\ r # q /\ owner[r] = owner[q] /\ kind[r] = "create" /\ kind[q] = "create"
        /\ pc[r] \in Choosing /\ pc[q] \in Choosing
        => r \in counted \/ q \in counted
    /\ \A r \in Reqs :
        kind[r] = "create" /\ pc[r] \in Choosing /\ r \notin counted
        => Cardinality(TeamsOf(owner[r]) \ counted) < plan.max_workspaces
    /\ WithinPlan

BaseInv == AccountsTypeOK /\ WorkInv /\ PageInv

------------------------------------------------------------------------------
(* Where requests and pages can be                                         *)

\* The bound on faults leaves room for the one it allows.
LEMMA Spare == Fault /\ faults \in 0..MaxEvents => faults' \in 0..MaxEvents
BY AccountsAssumption DEF Fault, AccountsAssumption

\* A slug is one of Slugs.
LEMMA SlugType ==
    ASSUME NEW r \in Reqs, NEW n \in Bases
    PROVE  PickedSlug(r, n) \in Slugs
BY DEF PickedSlug, Slugs, Bases

\* A scope is one of the user's workspaces.
LEMMA ScopeType ==
    ASSUME NEW u, NEW h, teams \subseteq Reqs
    PROVE  Scope(u, h) \subseteq TeamsOf(u) /\ TeamsOf(u) \subseteq teams
BY DEF Scope, Fallback, TeamsOf

LEMMA BaseInit == Init => BaseInv
<1> SUFFICES ASSUME Init PROVE BaseInv
  OBVIOUS
<1>1. AccountsTypeOK
  BY AccountsAssumption DEF AccountsAssumption, Init, AccountsTypeOK, Slugs, NoSlug, Rows,
     Pages, Open, Over
<1>2. WorkInv /\ PageInv
  BY AccountsAssumption DEF AccountsAssumption, Init, WorkInv, PageInv, Inside
<1> QED
  BY <1>1, <1>2 DEF BaseInv

\* A step of a handler.
LEMMA BaseHandle ==
    ASSUME BaseInv, NEW r \in Reqs, Handle(r)
    PROVE  BaseInv'
<1>0. AccountsTypeOK /\ WorkInv /\ PageInv
  BY DEF BaseInv
<1>1. AccountsTypeOK'
  <2>1. CASE PickDefault(r) \/ PickSlug(r)
    <3>1. \E n \in Bases : slug' = [slug EXCEPT ![r] = PickedSlug(r, n)]
      BY <1>0, <2>1 DEF PickDefault, PickSlug, Bases, WorkInv, AccountsTypeOK
    <3>2. slug' \in [Reqs -> Slugs]
      BY <1>0, <3>1, SlugType DEF AccountsTypeOK
    <3>3. rivals' \in [Reqs -> SUBSET Reqs]
      <4> DEFINE beside == {p \in Reqs \ {r} : InFlight(p)}
                 now(q) == IF q = r THEN beside
                           ELSE IF pc[q] \in {"picked", "inserted"}
                                THEN rivals[q] \cup {r} ELSE rivals[q]
      <4>1. rivals' = [q \in Reqs |-> now(q)]
        BY <2>1 DEF PickDefault, PickSlug, Meet
      <4>2. beside \in SUBSET Reqs
        OBVIOUS
      <4> HIDE DEF beside
      <4>3. ASSUME NEW q \in Reqs PROVE now(q) \in SUBSET Reqs
        BY <1>0, <4>2 DEF AccountsTypeOK
      <4> HIDE DEF now
      <4> QED
        BY <4>1, <4>3
    <3>4. pc' \in [Reqs -> {"idle"} \cup Open \cup Over]
      BY <1>0, <2>1 DEF PickDefault, PickSlug, To, Open, HoldsUser, AccountsTypeOK
    <3>5. UNCHANGED <<plan, users, teams, token, kind, owner, from, use, browserVars,
                      counted, faults>>
      BY <2>1 DEF PickDefault, PickSlug
    <3> QED
      BY <1>0, <3>2, <3>3, <3>4, <3>5 DEF AccountsTypeOK, browserVars
  <2>2. CASE Commit(r)
    BY <1>0, <2>2 DEF Commit, To, Open, Over, HoldsUser, WorkInv, AccountsTypeOK, browserVars
  <2>3. CASE Fail(r)
    BY <1>0, <2>3, Spare DEF Fail, To, Over, Slugs, AccountsTypeOK, browserVars
  <2>4. CASE Upsert(r) \/ CountTeams(r) \/ CheckPlan(r) \/ Insert(r)
    BY <1>0, <2>4 DEF Upsert, CountTeams, CheckPlan, Insert, To, Open, Over, HoldsUser,
       AccountsTypeOK, dbVars, browserVars
  <2> QED
    BY <2>1, <2>2, <2>3, <2>4 DEF Handle
<1>2. WorkInv'
  BY <1>0 DEF Handle, Upsert, CountTeams, PickDefault, CheckPlan, PickSlug, Insert, Commit,
     Fail, InFlight, Open, HoldsUser, To, dbVars, WorkInv, AccountsTypeOK
<1>3. PageInv'
  <2>1. UNCHANGED <<kind, from, browserVars>> /\ users \subseteq users'
        /\ teams \subseteq teams'
    BY DEF Handle, Upsert, CountTeams, PickDefault, CheckPlan, PickSlug, Insert, Commit,
       Fail, dbVars
  <2> QED
    BY <1>0, <2>1 DEF PageInv, browserVars
<1> QED
  BY <1>1, <1>2, <1>3 DEF BaseInv

\* A step of the token routes.
LEMMA BaseTokens ==
    ASSUME BaseInv, NEW t \in Tokens,
           \/ ReadToken(t) \/ TouchToken(t)
           \/ \E b \in Browsers : Mint(b, t) \/ Revoke(b, t)
    PROVE  BaseInv'
<1>0. AccountsTypeOK /\ WorkInv /\ PageInv
  BY DEF BaseInv
<1>1. AccountsTypeOK'
  <2>1. ASSUME NEW b \in Browsers, Mint(b, t) PROVE AccountsTypeOK'
    <3>1. signed[b] \in Users
      BY <1>0, <2>1 DEF Mint, PageInv, Inside, AccountsTypeOK
    <3>2. token' \in [Tokens -> Rows]
      BY <1>0, <2>1, <3>1, ScopeType DEF Mint, Rows, AccountsTypeOK
    <3> QED
      BY <1>0, <2>1, <3>2 DEF Mint, AccountsTypeOK, reqVars, browserVars
  <2>2. ASSUME NEW b \in Browsers, Revoke(b, t) PROVE AccountsTypeOK'
    <3>1. signed[b] \in Users
      BY <1>0, <2>2 DEF Revoke, PageInv, Inside, AccountsTypeOK
    <3>2. token[t] \in [user : Users, team : Reqs, revoked : BOOLEAN]
      BY <1>0, <2>2, <3>1, AccountsAssumption
         DEF Revoke, Rows, NoRow, AccountsTypeOK, AccountsAssumption
    <3>3. token' \in [Tokens -> Rows]
      BY <1>0, <2>2, <3>2 DEF Revoke, Rows, AccountsTypeOK
    <3> QED
      BY <1>0, <2>2, <3>3 DEF Revoke, AccountsTypeOK, reqVars, browserVars
  <2>3. CASE ReadToken(t) \/ TouchToken(t)
    BY <1>0, <2>3 DEF ReadToken, TouchToken, AccountsTypeOK, dbVars, browserVars
  <2> QED
    BY <2>1, <2>2, <2>3
<1>2. UNCHANGED <<users, teams, kind, owner, pc, from, browserVars>>
  BY DEF ReadToken, TouchToken, Mint, Revoke, dbVars, reqVars
<1> QED
  BY <1>0, <1>1, <1>2 DEF BaseInv, WorkInv, PageInv, browserVars

\* A page that is mounted is typed, and knows nothing yet.
LEMMA MountType ==
    ASSUME AccountsTypeOK, NEW b \in Browsers, NEW p \in Pages, Mount(b, p)
    PROVE  /\ page' \in [Browsers -> Pages] /\ cards' \in [Browsers -> SUBSET Reqs]
           /\ offer' \in [Browsers -> BOOLEAN] /\ busy' \in [Browsers -> Reqs \cup {NoOne}]
           /\ list' \in [Browsers -> SUBSET Reqs] /\ name' \in [Browsers -> Reqs \cup {NoOne}]
           /\ crossed' \subseteq Browsers /\ listed' \in [Browsers -> SUBSET Tokens]
           /\ page'[b] = p /\ cards'[b] = {}
           /\ \A d \in Browsers \ {b} : page'[d] = page[d] /\ cards'[d] = cards[d]
BY DEF AccountsTypeOK, Mount

\* What a document waited for is forgotten when it is left.
LEMMA UnloadType ==
    ASSUME AccountsTypeOK, NEW b \in Browsers, Unload(b)
    PROVE  /\ from' \in [Reqs -> Browsers \cup {NoOne}]
           /\ \A r \in Reqs : from'[r] # NoOne => from'[r] = from[r]
           /\ \A r \in Reqs : from'[r] # b
BY AccountsAssumption DEF AccountsTypeOK, Unload, AccountsAssumption

\* A request arrives: one that was not there, for a person who is a user already
\* if it is a creation.
Arrival ==
    \E r \in Reqs, k \in {"login", "create"}, u \in Users, b \in Browsers \cup {NoOne} :
        /\ kind[r] = "none"
        /\ k = "create" => u \in users
        /\ Arrive(r, k, u, b)
        /\ UNCHANGED <<plan, dbVars, rivals, counted>>

\* The server does nothing.
ServerRests == UNCHANGED <<plan, users, teams, slug, kind, owner, pc, rivals, counted>>

\* An arrival keeps the types and the places of requests.
LEMMA ArrivalKeeps ==
    ASSUME AccountsTypeOK, WorkInv, Arrival
    PROVE  /\ owner' \in [Reqs -> Users \cup {NoOne}]
           /\ kind' \in [Reqs -> {"none", "login", "create"}]
           /\ pc' \in [Reqs -> {"idle"} \cup Open \cup Over]
           /\ from' \in [Reqs -> Browsers \cup {NoOne}]
           /\ use' = use
           /\ WorkInv'
<1> PICK r \in Reqs, k \in {"login", "create"}, u \in Users, b \in Browsers \cup {NoOne} :
        /\ kind[r] = "none"
        /\ k = "create" => u \in users
        /\ Arrive(r, k, u, b)
        /\ UNCHANGED <<plan, dbVars, rivals, counted>>
  BY DEF Arrival
<1>1. /\ owner' \in [Reqs -> Users \cup {NoOne}]
      /\ kind' \in [Reqs -> {"none", "login", "create"}]
      /\ pc' \in [Reqs -> {"idle"} \cup Open \cup Over]
      /\ from' \in [Reqs -> Browsers \cup {NoOne}]
      /\ use' = use
  BY DEF Arrive, To, Open, AccountsTypeOK
<1>2. WorkInv'
  BY DEF Arrive, To, WorkInv, AccountsTypeOK, dbVars
<1> QED
  BY <1>1, <1>2

\* A step that starts a request.
LEMMA BaseSend ==
    ASSUME BaseInv,
           \/ \E u \in Users : Post(u)
           \/ \E b \in Browsers : Create(b) \/ \E u \in Users : SignIn(b, u)
    PROVE  BaseInv' /\ Arrival
<1>0. AccountsTypeOK /\ WorkInv /\ PageInv
  BY DEF BaseInv
<1>1. ASSUME NEW b \in Browsers, NEW u \in Users, SignIn(b, u) PROVE BaseInv' /\ Arrival
  <2>1. Arrival
    BY <1>0, <1>1 DEF SignIn, Arrival, Unused
  <2>2. AccountsTypeOK'
    BY <1>0, <1>1, <2>1, ArrivalKeeps, MountType DEF SignIn, AccountsTypeOK, dbVars, Pages
  <2>3. PageInv'
    <3>1. \A r \in Reqs : from[r] = b => kind[r] # "create"
      BY <1>0, <1>1 DEF SignIn, PageInv, Inside
    <3> QED
      BY <1>0, <1>1, <3>1, MountType
         DEF SignIn, PageInv, Inside, Pages, Arrive, Unused, AccountsTypeOK, dbVars
  <2> QED
    BY <1>0, <2>1, <2>2, <2>3, ArrivalKeeps DEF BaseInv
<1>2. ASSUME NEW b \in Browsers, Create(b) PROVE BaseInv' /\ Arrival
  <2>1. signed[b] \in users
    BY <1>0, <1>2 DEF Create, PageInv, Inside
  <2>2. Arrival
    BY <1>0, <1>2, <2>1 DEF Create, Arrival, Unused, AccountsTypeOK
  <2>3. AccountsTypeOK'
    BY <1>0, <1>2, <2>2, ArrivalKeeps DEF Create, Unused, AccountsTypeOK, dbVars
  <2>4. PageInv'
    BY <1>0, <1>2 DEF Create, PageInv, Inside, Arrive, Unused, AccountsTypeOK, dbVars
  <2> QED
    BY <1>0, <2>2, <2>3, <2>4, ArrivalKeeps DEF BaseInv
<1>3. ASSUME NEW u \in Users, Post(u) PROVE BaseInv' /\ Arrival
  <2>1. Arrival
    BY <1>0, <1>3 DEF Post, Arrival, Unused
  <2>2. AccountsTypeOK'
    BY <1>0, <1>3, <2>1, ArrivalKeeps DEF Post, AccountsTypeOK, dbVars, browserVars
  <2>3. PageInv'
    BY <1>0, <1>3, AccountsAssumption
       DEF Post, PageInv, Arrive, Unused, AccountsTypeOK, dbVars, browserVars,
           AccountsAssumption
  <2> QED
    BY <1>0, <2>1, <2>2, <2>3, ArrivalKeeps DEF BaseInv
<1> QED
  BY <1>1, <1>2, <1>3

\* A browser leaves its document ...
Leaves(b) ==
    \/ GiveUp(b) \/ Logout(b)
    \/ \E p \in Inside : Browse(b, p)
    \/ \E r \in Reqs : HearLogin(b, r)

\* ... or moves and shows what it hears within it, or another tab does something.
Stays(b) ==
    \/ ShowCards(b) \/ ShowOffer(b) \/ ReadTeams(b) \/ ShowName(b) \/ ShowTokens(b)
    \/ OtherTab(b)
    \/ \E p \in Inside : Follow(b, p)
    \/ \E r \in Reqs : Enter(b, r) \/ HearCreate(b, r) \/ LoseReply(b, r)

\* The name of the sidebar is one of the workspaces that were read.
LEMMA NamedType ==
    ASSUME NEW shown, NEW id
    PROVE  Named(shown, id) \subseteq shown
BY DEF Named

\* The steps that leave the document.
LEMMA BaseLeave ==
    ASSUME BaseInv, NEW b \in Browsers, Leaves(b)
    PROVE  BaseInv' /\ ServerRests
<1>0. AccountsTypeOK /\ WorkInv /\ PageInv
  BY DEF BaseInv
<1>1. PICK q \in Pages : Mount(b, q) /\ (q \in Inside => signed'[b] # NoOne)
  BY <1>0, AccountsAssumption DEF Leaves, GiveUp, Logout, Browse, HearLogin, Pages, Inside,
     WorkInv, AccountsTypeOK, AccountsAssumption
<1>2. /\ UNCHANGED <<plan, dbVars, kind, owner, pc, use, active, rivals, counted, faults>>
      /\ Unload(b)
  BY DEF Leaves, GiveUp, Logout, Browse, HearLogin
<1>3. /\ signed' \in [Browsers -> Users \cup {NoOne}]
      /\ \A d \in Browsers : signed'[d] # NoOne => signed'[d] \in users
      /\ \A d \in Browsers \ {b} : signed'[d] = signed[d]
  BY <1>0 DEF Leaves, GiveUp, Logout, Browse, HearLogin, PageInv, WorkInv, AccountsTypeOK
<1>4. AccountsTypeOK'
  BY <1>0, <1>1, <1>2, <1>3, MountType, UnloadType DEF AccountsTypeOK, dbVars
<1>5. WorkInv'
  BY <1>0, <1>2 DEF WorkInv, dbVars
<1>6. PageInv'
  <2> SUFFICES ASSUME NEW d \in Browsers
               PROVE  /\ page'[d] \in Inside => signed'[d] # NoOne
                      /\ \A q2 \in Reqs : from'[q2] = d /\ kind[q2] = "create"
                                          => page'[d] \in Inside
                      /\ cards'[d] \subseteq teams
                      /\ active[d] \in teams \cup {NoOne}
    BY <1>2, <1>3 DEF PageInv, dbVars
  <2>1. CASE d = b
    BY <1>0, <1>1, <1>2, <2>1, MountType, UnloadType DEF PageInv
  <2>2. CASE d # b
    BY <1>0, <1>1, <1>2, <1>3, <2>2, MountType, UnloadType, AccountsAssumption
       DEF PageInv, AccountsAssumption
  <2> QED
    BY <2>1, <2>2
<1> QED
  BY <1>2, <1>4, <1>5, <1>6 DEF BaseInv, ServerRests, dbVars

\* The other steps of a browser.
LEMMA BaseStay ==
    ASSUME BaseInv, NEW b \in Browsers, Stays(b)
    PROVE  BaseInv' /\ ServerRests
<1>0. AccountsTypeOK /\ WorkInv /\ PageInv
  BY DEF BaseInv
<1>1. CASE ShowCards(b) \/ ShowOffer(b) \/ ReadTeams(b) \/ ShowName(b) \/ ShowTokens(b)
  <2>1. AccountsTypeOK'
    <3>1. CASE ShowCards(b)
      BY <1>0, <3>1 DEF ShowCards, TeamsOf, AccountsTypeOK, dbVars, reqVars
    <3>2. CASE ShowOffer(b)
      BY <1>0, <3>2, AccountsAssumption
         DEF ShowOffer, AccountsTypeOK, dbVars, reqVars, AccountsAssumption
    <3>3. CASE ShowName(b)
      BY <1>0, <3>3, NamedType DEF ShowName, AccountsTypeOK, dbVars, reqVars
    <3>4. CASE ShowTokens(b)
      BY <1>0, <3>4 DEF ShowTokens, AccountsTypeOK, dbVars, reqVars
    <3>5. CASE ReadTeams(b)
      BY <1>0, <3>5 DEF ReadTeams, TeamsOf, AccountsTypeOK, dbVars, reqVars
    <3> QED
      BY <1>1, <3>1, <3>2, <3>3, <3>4, <3>5
  <2>2. /\ UNCHANGED <<plan, dbVars, reqVars, signed, active, page, rivals, counted>>
        /\ \A d \in Browsers : cards'[d] \subseteq teams
    BY <1>0, <1>1 DEF ShowCards, ShowOffer, ReadTeams, ShowName, ShowTokens, TeamsOf, PageInv,
       AccountsTypeOK
  <2> QED
    BY <1>0, <2>1, <2>2 DEF BaseInv, WorkInv, PageInv, ServerRests, dbVars, reqVars
<1>2. CASE (\E p \in Inside : Follow(b, p)) \/ \E r \in Reqs : Enter(b, r)
  <2>1. PICK q \in Inside : Mount(b, q)
    BY <1>2 DEF Follow, Enter, Inside
  <2>2. /\ UNCHANGED <<plan, dbVars, reqVars, signed, rivals, counted, faults>>
        /\ active' \in [Browsers -> Reqs \cup {NoOne}]
        /\ \A d \in Browsers : active'[d] \in teams \cup {NoOne}
        /\ page[b] \in Inside
    BY <1>0, <1>2 DEF Follow, Enter, Inside, PageInv, AccountsTypeOK
  <2>3. AccountsTypeOK'
    BY <1>0, <2>1, <2>2, MountType DEF AccountsTypeOK, dbVars, reqVars, Inside, Pages
  <2>4. /\ page'[b] = q /\ cards'[b] = {}
        /\ \A d \in Browsers \ {b} : page'[d] = page[d] /\ cards'[d] = cards[d]
    BY <1>0, <2>1, MountType DEF Inside, Pages
  <2>5. UNCHANGED <<users, teams, signed, from, kind>>
    BY <2>2 DEF dbVars, reqVars
  <2>6. PageInv'
    <3> SUFFICES ASSUME NEW d \in Browsers
                 PROVE  /\ signed[d] # NoOne => signed[d] \in users
                        /\ page'[d] \in Inside => signed[d] # NoOne
                        /\ \A r \in Reqs : from[r] = d /\ kind[r] = "create"
                                           => page'[d] \in Inside
                        /\ cards'[d] \subseteq teams
                        /\ active'[d] \in teams \cup {NoOne}
      BY <2>5 DEF PageInv
    <3>1. CASE d = b
      BY <1>0, <2>2, <2>4, <3>1 DEF PageInv
    <3>2. CASE d # b
      BY <1>0, <2>2, <2>4, <3>2 DEF PageInv
    <3> QED
      BY <3>1, <3>2
  <2> QED
    BY <1>0, <2>2, <2>3, <2>6 DEF BaseInv, WorkInv, ServerRests, dbVars, reqVars
<1>3. ASSUME NEW r \in Reqs, HearCreate(b, r) PROVE BaseInv' /\ ServerRests
  <2>1. /\ UNCHANGED <<plan, dbVars, kind, owner, pc, use, signed, rivals, counted, faults>>
        /\ from' = [from EXCEPT ![r] = NoOne]
        /\ page[b] \in Inside
    BY <1>0, <1>3 DEF HearCreate, PageInv
  <2>2. CASE pc[r] = "committed"
    <3>1. Mount(b, "onboarding") /\ active' = [active EXCEPT ![b] = r] /\ r \in teams
      BY <1>0, <1>3, <2>2 DEF HearCreate, WorkInv
    <3>2. AccountsTypeOK'
      BY <1>0, <2>1, <3>1, MountType DEF AccountsTypeOK, dbVars, Pages
    <3>3. PageInv'
      BY <1>0, <2>1, <3>1, MountType, AccountsAssumption
         DEF PageInv, AccountsTypeOK, dbVars, Inside, Pages, AccountsAssumption
    <3> QED
      BY <1>0, <2>1, <3>2, <3>3 DEF BaseInv, WorkInv, ServerRests, dbVars
  <2>3. CASE pc[r] # "committed"
    <3>1. AccountsTypeOK'
      BY <1>0, <1>3, <2>1, <2>3 DEF HearCreate, AccountsTypeOK, dbVars
    <3>2. PageInv'
      BY <1>0, <1>3, <2>1, <2>3, AccountsAssumption
         DEF HearCreate, PageInv, AccountsTypeOK, dbVars, AccountsAssumption
    <3> QED
      BY <1>0, <2>1, <3>1, <3>2 DEF BaseInv, WorkInv, ServerRests, dbVars
  <2> QED
    BY <2>2, <2>3
<1>4. ASSUME NEW r \in Reqs, LoseReply(b, r) PROVE BaseInv' /\ ServerRests
  <2>1. AccountsTypeOK'
    BY <1>0, <1>4, Spare DEF LoseReply, AccountsTypeOK, dbVars
  <2>2. PageInv'
    BY <1>0, <1>4, AccountsAssumption
       DEF LoseReply, PageInv, AccountsTypeOK, dbVars, AccountsAssumption
  <2> QED
    BY <1>0, <1>4, <2>1, <2>2 DEF LoseReply, BaseInv, WorkInv, ServerRests, dbVars
<1>5. CASE OtherTab(b)
  <2>1. /\ UNCHANGED <<plan, dbVars, reqVars, page, cards, rivals, counted>>
        /\ signed' \in [Browsers -> Users \cup {NoOne}]
        /\ \A d \in Browsers : \/ signed'[d] = signed[d]
                               \/ signed'[d] \in users /\ signed'[d] # NoOne
        /\ active' \in [Browsers -> Reqs \cup {NoOne}]
        /\ \A d \in Browsers : active'[d] = active[d] \/ active'[d] \in teams
    <3>0. /\ UNCHANGED <<plan, dbVars, reqVars, page, cards, rivals, counted>>
          /\ teams \subseteq Reqs /\ users \subseteq Users /\ NoOne \notin Users
      BY <1>0, <1>5, AccountsAssumption DEF OtherTab, AccountsTypeOK, AccountsAssumption
    <3>1. CASE UNCHANGED signed
      <4>1. \E w \in teams : active' = [active EXCEPT ![b] = w]
        BY <1>0, <1>5, <3>0, <3>1 DEF OtherTab, AccountsTypeOK
      <4> QED
        BY <1>0, <3>0, <3>1, <4>1 DEF AccountsTypeOK
    <3>2. CASE UNCHANGED active
      <4>1. (\E u \in users : signed' = [signed EXCEPT ![b] = u]) \/ signed' = signed
        BY <1>0, <1>5, <3>0, <3>2 DEF OtherTab, AccountsTypeOK
      <4> QED
        BY <1>0, <3>0, <3>2, <4>1 DEF AccountsTypeOK
    <3> QED
      BY <1>5, <3>1, <3>2 DEF OtherTab
  <2>2. AccountsTypeOK'
    BY <1>0, <1>5, <2>1, Spare DEF OtherTab, AccountsTypeOK, dbVars, reqVars
  <2>3. PageInv'
    BY <1>0, <2>1 DEF PageInv, dbVars, reqVars
  <2> QED
    BY <1>0, <2>1, <2>2, <2>3 DEF BaseInv, WorkInv, ServerRests, dbVars, reqVars
<1> QED
  BY <1>1, <1>2, <1>3, <1>4, <1>5 DEF Stays

\* Every step is one of a handler, an arrival, or leaves the server's part of the
\* state alone.
LEMMA Cases ==
    ASSUME BaseInv, [Next]_vars
    PROVE  BaseInv' /\ (\/ \E r \in Reqs : Handle(r)
                        \/ Arrival
                        \/ ServerRests)
<1>1. ASSUME NEW r \in Reqs, Handle(r) PROVE BaseInv'
  BY <1>1, BaseHandle
<1>2. ASSUME NEW t \in Tokens, \/ ReadToken(t) \/ TouchToken(t)
                               \/ \E b \in Browsers : Mint(b, t) \/ Revoke(b, t)
      PROVE  BaseInv' /\ ServerRests
  BY <1>2, BaseTokens DEF ReadToken, TouchToken, Mint, Revoke, ServerRests, dbVars, reqVars
<1>3. ASSUME \/ \E u \in Users : Post(u)
             \/ \E b \in Browsers : Create(b) \/ \E u \in Users : SignIn(b, u)
      PROVE  BaseInv' /\ Arrival
  BY <1>3, BaseSend
<1>4. ASSUME NEW b \in Browsers, Leaves(b) \/ Stays(b) PROVE BaseInv' /\ ServerRests
  BY <1>4, BaseLeave, BaseStay
<1>5. CASE UNCHANGED vars
  BY <1>5 DEF BaseInv, AccountsTypeOK, WorkInv, PageInv, ServerRests, vars, dbVars, reqVars,
     browserVars
<1> QED
  BY <1>1, <1>2, <1>3, <1>4, <1>5 DEF Next, Leaves, Stays, Inside

------------------------------------------------------------------------------
(* Signing up                                                              *)

LEMMA SignupInit == Init => SignupInv
BY DEF Init, SignupInv, HoldsUser

\* Before the commit a handler only moves on.
LEMMA SignupHandle ==
    ASSUME BaseInv, SignupInv, NEW r \in Reqs, Handle(r), ~Commit(r)
    PROVE  SignupInv'
<1>0. AccountsTypeOK /\ WorkInv
  BY DEF BaseInv
<1>1. /\ UNCHANGED <<users, teams, kind, owner>>
      /\ \A q \in Reqs \ {r} : pc'[q] = pc[q]
  BY <1>0 DEF Handle, Upsert, CountTeams, PickDefault, CheckPlan, PickSlug, Insert, Fail, To,
     dbVars, AccountsTypeOK
<1>2. kind[r] = "login" /\ pc'[r] \in HoldsUser =>
        \/ pc[r] \in HoldsUser
        \/ \A q \in Reqs : kind[q] = "login" /\ owner[q] = owner[r] => pc[q] \notin HoldsUser
  BY <1>0 DEF Handle, Upsert, CountTeams, PickDefault, CheckPlan, PickSlug, Insert, Fail, To,
     HoldsUser, WorkInv, AccountsTypeOK
<1>3. owner[r] \in users <=> TeamsOf(owner[r]) # {}
  <2>1. owner[r] \in users => TeamsOf(owner[r]) # {}
    BY DEF SignupInv, TeamsOf
  <2>2. TeamsOf(owner[r]) # {} => owner[r] \in users
    BY <1>0 DEF TeamsOf, WorkInv, AccountsTypeOK
  <2> QED
    BY <2>1, <2>2
<1>4. kind[r] = "login" =>
        /\ pc'[r] \in {"new", "picked", "inserted"} => owner[r] \notin users
        /\ pc'[r] = "ready" => owner[r] \in users
  BY <1>0, <1>3 DEF Handle, Upsert, CountTeams, PickDefault, CheckPlan, PickSlug, Insert,
     Fail, To, SignupInv, WorkInv, AccountsTypeOK
<1> QED
  BY <1>1, <1>2, <1>4 DEF SignupInv, Default

\* A commit makes a user with his default team, or adds to a user's teams.
LEMMA SignupCommit ==
    ASSUME BaseInv, SignupInv, NEW r \in Reqs, Commit(r)
    PROVE  SignupInv'
<1>0. AccountsTypeOK /\ WorkInv
  BY DEF BaseInv
<1>1. /\ UNCHANGED <<kind, owner>> /\ pc' = [pc EXCEPT ![r] = "committed"]
      /\ users' = users \cup {owner[r]}
      /\ pc[r] = "ready" \/ pc[r] = "inserted"
      /\ teams' = IF pc[r] = "inserted" THEN teams \cup {r} ELSE teams
  BY DEF Commit, To
<1>2. \A q \in Reqs \ {r} : pc'[q] = pc[q]
  BY <1>0, <1>1 DEF AccountsTypeOK
<1>3. pc'[r] = "committed"
  BY <1>0, <1>1 DEF AccountsTypeOK
<1>4. CASE owner[r] \in users
  <2>1. pc[r] = "inserted" => ~Default(r)
    BY <1>4 DEF SignupInv, Default
  <2>2. users' = users
    BY <1>1, <1>4
  <2>3. \A q \in teams' : Default(q) => q \in teams
    BY <1>1, <2>1
  <2>4. teams \subseteq teams'
    BY <1>1
  <2> QED
    BY <1>1, <1>2, <1>3, <2>2, <2>3, <2>4 DEF SignupInv, Default, HoldsUser
<1>5. CASE owner[r] \notin users
  <2>1. kind[r] = "login" /\ pc[r] = "inserted"
    BY <1>0, <1>1, <1>5 DEF SignupInv, WorkInv, AccountsTypeOK
  <2>2. teams' = teams \cup {r} /\ Default(r)
    BY <1>1, <2>1 DEF Default
  <2>3. \A q \in teams : owner[q] # owner[r]
    BY <1>0, <1>5 DEF WorkInv, AccountsTypeOK
  <2>4. \A q \in Reqs \ {r} : kind[q] = "login" /\ pc[q] \in HoldsUser => owner[q] # owner[r]
    BY <1>1, <2>1 DEF SignupInv, HoldsUser
  <2> QED
    BY <1>1, <1>2, <1>3, <2>2, <2>3, <2>4 DEF SignupInv, Default, HoldsUser
<1> QED
  BY <1>4, <1>5

LEMMA SignupStep ==
    ASSUME BaseInv, SignupInv, [Next]_vars
    PROVE  SignupInv'
<1>1. CASE Arrival
  <2> PICK r \in Reqs, k \in {"login", "create"}, u \in Users, b \in Browsers \cup {NoOne} :
          /\ kind[r] = "none"
          /\ Arrive(r, k, u, b)
          /\ UNCHANGED <<plan, dbVars, rivals, counted>>
    BY <1>1 DEF Arrival
  <2>1. /\ \A q \in Reqs \ {r} : kind'[q] = kind[q] /\ owner'[q] = owner[q] /\ pc'[q] = pc[q]
        /\ pc'[r] = "sent" /\ users' = users /\ teams' = teams /\ r \notin teams
        /\ teams \subseteq Reqs
    BY DEF BaseInv, AccountsTypeOK, WorkInv, Arrive, To, dbVars
  <2> QED
    BY <2>1 DEF SignupInv, Default, HoldsUser
<1>2. CASE ServerRests
  BY <1>2 DEF SignupInv, Default, ServerRests
<1> QED
  BY <1>1, <1>2, Cases, SignupHandle, SignupCommit

LEMMA SignupAlways == Spec => [](BaseInv /\ SignupInv)
BY BaseInit, SignupInit, Cases, SignupStep, PTL DEF Spec

\* Every variable keeps its type.
THEOREM TypeCorrect == Spec => []AccountsTypeOK
<1>1. BaseInv => AccountsTypeOK
  BY DEF BaseInv
<1> QED
  BY SignupAlways, <1>1, PTL

\* Signing up is all or nothing and happens once, however many first logins of one
\* person run together and wherever they fail.
THEOREM SignupsAreWhole == Spec => []SignupIsWhole
<1>1. BaseInv /\ SignupInv => SignupIsWhole
  <2> SUFFICES ASSUME BaseInv, SignupInv, NEW u \in Users
               PROVE  /\ Cardinality({r \in TeamsOf(u) : Default(r)}) =
                            (IF u \in users THEN 1 ELSE 0)
                      /\ u \notin users => TeamsOf(u) = {}
    BY DEF SignupIsWhole
  <2> DEFINE D == {r \in TeamsOf(u) : Default(r)}
  <2>1. CASE u \in users
    <3>1. PICK r \in teams : owner[r] = u /\ Default(r)
      BY <2>1 DEF SignupInv
    <3>2. D = {r}
      BY <3>1 DEF SignupInv, TeamsOf
    <3> QED
      BY <2>1, <3>2, FS_Singleton
  <2>2. CASE u \notin users
    <3>1. TeamsOf(u) = {}
      BY <2>2 DEF BaseInv, AccountsTypeOK, WorkInv, TeamsOf
    <3>2. D = {}
      BY <3>1
    <3> QED
      BY <2>2, <3>1, <3>2, FS_EmptySet
  <2> QED
    BY <2>1, <2>2
<1> QED
  BY SignupAlways, <1>1, PTL

------------------------------------------------------------------------------
(* Slugs                                                                   *)

\* A slug with hex is not a base, and nobody else makes it.
LEMMA Hex ==
    ASSUME NEW m, NEW n, NEW q, NEW r
    PROVE  <<n, r>> # <<m>> /\ (<<n, r>> = <<m, q>> => r = q) /\ <<n>> # NoSlug
           /\ <<n, r>> # NoSlug
<1>1. Len(<<n, r>>) = 2 /\ Len(<<m>>) = 1 /\ Len(NoSlug) = 0 /\ Len(<<n>>) = 1
  BY DEF NoSlug
<1> QED
  BY <1>1

LEMMA SlugInit == Init => SlugInv
BY DEF Init, SlugInv, SlugLostInRaceOnly

\* A request chooses: no team has what it chooses, and it meets those that have
\* chosen before.
LEMMA SlugPick ==
    ASSUME BaseInv, SlugInv, NEW r \in Reqs, PickDefault(r) \/ PickSlug(r)
    PROVE  SlugInv'
<1>0. AccountsTypeOK /\ WorkInv
  BY DEF BaseInv
<1>1. /\ UNCHANGED <<teams, kind, owner>> /\ pc[r] \in {"new", "allowed"}
      /\ pc' = [pc EXCEPT ![r] = "picked"] /\ Meet(r)
      /\ \E n \in Bases : slug' = [slug EXCEPT ![r] = PickedSlug(r, n)]
  BY <1>0 DEF PickDefault, PickSlug, To, Bases, WorkInv, AccountsTypeOK
<1>2. PICK n \in Bases : slug' = [slug EXCEPT ![r] = PickedSlug(r, n)]
  BY <1>1
<1>3. /\ pc'[r] = "picked" /\ slug'[r] = PickedSlug(r, n)
      /\ \A q \in Reqs \ {r} : pc'[q] = pc[q] /\ slug'[q] = slug[q]
  BY <1>0, <1>1, <1>2 DEF AccountsTypeOK
<1>4. /\ rivals'[r] = {p \in Reqs \ {r} : InFlight(p)}
      /\ \A q \in Reqs \ {r} : /\ rivals[q] \subseteq rivals'[q]
                               /\ pc[q] \in {"picked", "inserted"} => r \in rivals'[q]
  BY <1>1 DEF Meet
<1>5. r \notin teams /\ teams \subseteq Reqs
  BY <1>0, <1>1 DEF WorkInv, AccountsTypeOK
<1>6. ASSUME NEW q \in teams PROVE slug[q] # PickedSlug(r, n)
  <2>1. CASE Taken(<<n>>)
    <3>1. PickedSlug(r, n) = <<n, r>> /\ q # r
      BY <1>5, <2>1 DEF PickedSlug
    <3>2. \/ slug[q] = NoSlug
          \/ \E m \in Bases : slug[q] = <<m>> \/ slug[q] = <<m, q>>
      BY <1>5 DEF SlugInv
    <3> QED
      BY <3>1, <3>2, Hex
  <2>2. CASE ~Taken(<<n>>)
    BY <2>2 DEF PickedSlug, Taken
  <2> QED
    BY <2>1, <2>2
<1>7. \A q \in Reqs : \/ slug'[q] = NoSlug
                      \/ \E m \in Bases : slug'[q] = <<m>> \/ slug'[q] = <<m, q>>
  BY <1>3 DEF SlugInv, PickedSlug
<1>8. ASSUME NEW p \in Reqs, NEW q \in Reqs, p # q, pc'[p] \in {"picked", "inserted"},
             pc'[q] \in {"picked", "inserted"} \/ (q \in teams /\ slug'[q] = slug'[p])
      PROVE  q \in rivals'[p]
  <2>1. CASE p = r
    <3>1. pc'[q] \in {"picked", "inserted"}
      BY <1>3, <1>6, <1>8, <2>1
    <3> QED
      BY <1>3, <1>4, <1>8, <2>1, <3>1 DEF InFlight, Open, HoldsUser
  <2>2. CASE q = r
    BY <1>3, <1>4, <1>5, <1>8, <2>2
  <2>3. CASE p # r /\ q # r
    BY <1>3, <1>4, <1>8, <2>3 DEF SlugInv
  <2> QED
    BY <2>1, <2>2, <2>3
<1>9. SlugLostInRaceOnly'
  <2> SUFFICES ASSUME NEW p \in Reqs, pc'[p] = "conflict"
               PROVE  \E q \in rivals'[p] : q \in teams' /\ slug'[q] = slug'[p]
    BY DEF SlugLostInRaceOnly
  <2>1. p # r /\ pc[p] = "conflict"
    BY <1>3
  <2>2. PICK q \in rivals[p] : q \in teams /\ slug[q] = slug[p]
    BY <2>1 DEF SlugInv, SlugLostInRaceOnly
  <2> QED
    BY <1>1, <1>3, <1>4, <1>5, <2>1, <2>2
<1> QED
  BY <1>1, <1>7, <1>8, <1>9 DEF SlugInv

\* The other steps of a handler leave the slugs of all but failed requests alone.
LEMMA SlugHandle ==
    ASSUME BaseInv, SlugInv, NEW r \in Reqs, Handle(r), ~(PickDefault(r) \/ PickSlug(r))
    PROVE  SlugInv'
<1>0. AccountsTypeOK /\ WorkInv
  BY DEF BaseInv
<1>1. CASE Upsert(r) \/ CountTeams(r) \/ CheckPlan(r)
  <2>1. /\ UNCHANGED <<teams, slug, rivals>> /\ \A q \in Reqs \ {r} : pc'[q] = pc[q]
        /\ pc'[r] \notin {"picked", "inserted", "conflict"}
    BY <1>0, <1>1 DEF Upsert, CountTeams, CheckPlan, To, dbVars, AccountsTypeOK
  <2> QED
    BY <2>1 DEF SlugInv, SlugLostInRaceOnly
<1>2. CASE Insert(r)
  <2>1. /\ UNCHANGED <<teams, slug, rivals>> /\ \A q \in Reqs \ {r} : pc'[q] = pc[q]
        /\ pc[r] = "picked"
        /\ \/ pc'[r] = "inserted"
           \/ pc'[r] = "conflict" /\ Taken(slug[r])
    BY <1>0, <1>2 DEF Insert, To, dbVars, AccountsTypeOK
  <2>2. pc'[r] = "conflict" => \E q \in rivals[r] : q \in teams /\ slug[q] = slug[r]
    BY <1>0, <2>1 DEF Taken, SlugInv, WorkInv, AccountsTypeOK
  <2> QED
    BY <2>1, <2>2 DEF SlugInv, SlugLostInRaceOnly
<1>3. CASE Commit(r)
  <2>1. /\ UNCHANGED slug /\ \A q \in Reqs \ {r} : pc'[q] = pc[q] /\ rivals'[q] = rivals[q]
        /\ pc'[r] = "committed" /\ teams \subseteq teams'
        /\ \A q \in teams' : q \in teams \/ (q = r /\ pc[r] = "inserted")
    BY <1>0, <1>3 DEF Commit, To, AccountsTypeOK
  <2> QED
    BY <2>1 DEF SlugInv, SlugLostInRaceOnly
<1>4. CASE Fail(r)
  <2>1. /\ UNCHANGED teams /\ r \notin teams /\ teams \subseteq Reqs
        /\ \A q \in Reqs \ {r} : pc'[q] = pc[q] /\ rivals'[q] = rivals[q] /\ slug'[q] = slug[q]
        /\ pc'[r] = "failed" /\ slug'[r] = NoSlug
    BY <1>0, <1>4 DEF Fail, To, InFlight, Open, HoldsUser, WorkInv, AccountsTypeOK
  <2> QED
    BY <2>1 DEF SlugInv, SlugLostInRaceOnly
<1> QED
  BY <1>1, <1>2, <1>3, <1>4 DEF Handle

LEMMA SlugStep ==
    ASSUME BaseInv, SlugInv, [Next]_vars
    PROVE  SlugInv'
<1>1. CASE Arrival
  <2> PICK r \in Reqs, k \in {"login", "create"}, u \in Users, b \in Browsers \cup {NoOne} :
          /\ kind[r] = "none"
          /\ Arrive(r, k, u, b)
          /\ UNCHANGED <<plan, dbVars, rivals, counted>>
    BY <1>1 DEF Arrival
  <2>1. /\ UNCHANGED <<teams, slug, rivals>> /\ \A q \in Reqs \ {r} : pc'[q] = pc[q]
        /\ pc'[r] = "sent"
    BY DEF BaseInv, AccountsTypeOK, Arrive, To, dbVars
  <2> QED
    BY <2>1 DEF SlugInv, SlugLostInRaceOnly
<1>2. CASE ServerRests
  BY <1>2 DEF SlugInv, SlugLostInRaceOnly, ServerRests
<1> QED
  BY <1>1, <1>2, Cases, SlugPick, SlugHandle

\* A login or a creation loses its slug only to one that was under way beside it:
\* the choice of a slug never runs into a team that was there before.
THEOREM SlugsAreLostInRacesOnly == Spec => []SlugLostInRaceOnly
<1>1. SlugInv => SlugLostInRaceOnly
  BY DEF SlugInv
<1> QED
  BY BaseInit, SlugInit, Cases, SlugStep, <1>1, PTL DEF Spec

------------------------------------------------------------------------------
(* The plan's limit                                                        *)

\* Workspaces are finitely many, so counting them means something.
LEMMA Counting ==
    ASSUME AccountsTypeOK, NEW u
    PROVE  /\ IsFiniteSet(TeamsOf(u)) /\ IsFiniteSet(TeamsOf(u) \ counted)
           /\ Cardinality(TeamsOf(u)) \in Nat
           /\ Cardinality(TeamsOf(u) \ counted) \in Nat
           /\ Cardinality(TeamsOf(u) \ counted) <= Cardinality(TeamsOf(u))
<1>1. IsFiniteSet(Reqs)
  BY FS_Interval, AccountsAssumption DEF Reqs, AccountsAssumption
<1>2. TeamsOf(u) \subseteq Reqs /\ TeamsOf(u) \ counted \subseteq TeamsOf(u)
  BY DEF TeamsOf, AccountsTypeOK
<1>3. IsFiniteSet(TeamsOf(u))
  BY <1>1, <1>2, FS_Subset
<1> QED
  BY <1>2, <1>3, FS_Subset, FS_CardinalityType

\* The limit of a plan is a number of workspaces.
LEMMA PlanType ==
    ASSUME AccountsTypeOK
    PROVE  plan.max_workspaces \in Nat \ {0} /\ plan.can_create_teams \in BOOLEAN
BY AccountsAssumption DEF AccountsTypeOK, AccountsAssumption

LEMMA PlanInit == Init => PlanInv
<1> SUFFICES ASSUME Init PROVE PlanInv
  OBVIOUS
<1>1. AccountsTypeOK
  BY BaseInit DEF BaseInv
<1>2. \A u \in Users : TeamsOf(u) \ counted = {}
  BY DEF Init, TeamsOf
<1>3. \A u \in Users : Cardinality(TeamsOf(u) \ counted) = 0
  BY <1>2, FS_EmptySet
<1> QED
  BY <1>1, <1>3, PlanType DEF Init, PlanInv, WithinPlan, Choosing

\* A step that makes no workspace, lets no creation choose and forgets no count.
PlanRests ==
    /\ UNCHANGED <<plan, teams, counted>>
    /\ \A r \in Reqs : /\ r \in teams => kind'[r] = kind[r] /\ owner'[r] = owner[r]
                       /\ kind'[r] = "create" /\ pc'[r] \in Choosing =>
                            /\ kind[r] = "create" /\ pc[r] \in Choosing
                            /\ owner'[r] = owner[r]

LEMMA PlanStays ==
    ASSUME AccountsTypeOK, PlanInv, PlanRests,
           \A r \in teams : kind[r] # "none"
    PROVE  PlanInv'
<1> DEFINE next(u) == {q \in teams' : owner'[q] = u}
<1>1. ASSUME NEW u PROVE next(u) = TeamsOf(u)
  BY DEF PlanRests, TeamsOf, AccountsTypeOK
<1>2. ASSUME NEW u \in Users
      PROVE  Cardinality(next(u) \ counted) <=
                (IF plan.can_create_teams THEN plan.max_workspaces ELSE 1)
  BY <1>1 DEF PlanInv, WithinPlan
<1>3. ASSUME NEW r \in Reqs, kind'[r] = "create", pc'[r] \in Choosing \/ r \in teams'
      PROVE  plan.can_create_teams
  BY <1>3 DEF PlanRests, PlanInv
<1>4. ASSUME NEW r \in Reqs, NEW q \in Reqs, r # q, owner'[r] = owner'[q],
             kind'[r] = "create", kind'[q] = "create",
             pc'[r] \in Choosing, pc'[q] \in Choosing
      PROVE  r \in counted \/ q \in counted
  BY <1>4 DEF PlanRests, PlanInv
<1>5. ASSUME NEW r \in Reqs, kind'[r] = "create", pc'[r] \in Choosing, r \notin counted
      PROVE  Cardinality(next(owner'[r]) \ counted) < plan.max_workspaces
  <2>1. owner'[r] = owner[r] /\ kind[r] = "create" /\ pc[r] \in Choosing
    BY <1>5 DEF PlanRests
  <2>2. next(owner'[r]) \ counted = TeamsOf(owner[r]) \ counted
    BY <1>1, <2>1
  <2>3. Cardinality(TeamsOf(owner[r]) \ counted) < plan.max_workspaces
    BY <1>5, <2>1 DEF PlanInv
  <2> HIDE DEF next
  <2> QED
    BY <2>2, <2>3
<1>6. plan' = plan /\ counted' = counted
  BY DEF PlanRests
<1> QED
  BY <1>2, <1>3, <1>4, <1>5, <1>6 DEF PlanInv, WithinPlan, TeamsOf, Choosing

\* The check of the plan: a creation that passes leaves room, and counts among the
\* counted when another one is under way.
LEMMA PlanCheck ==
    ASSUME BaseInv, PlanInv, NEW r \in Reqs, CheckPlan(r)
    PROVE  PlanInv'
<1>0. AccountsTypeOK /\ WorkInv
  BY DEF BaseInv
<1>1. /\ UNCHANGED <<plan, teams, kind, owner>> /\ pc[r] = "sent" /\ kind[r] = "create"
      /\ \A q \in Reqs \ {r} : pc'[q] = pc[q]
      /\ pc'[r] \in {"allowed", "refused"}
      /\ pc'[r] = "allowed" => /\ plan.can_create_teams
                               /\ Cardinality(TeamsOf(owner[r])) < plan.max_workspaces
      /\ counted \subseteq counted' /\ counted' \subseteq counted \cup {r}
  BY <1>0 DEF CheckPlan, To, dbVars, AccountsTypeOK
<1>2. ASSUME NEW q \in Reqs \ {r}, kind[q] = "create", owner[q] = owner[r], pc[q] \in Choosing
      PROVE  r \in counted'
  BY <1>2 DEF CheckPlan, InFlight, Open, HoldsUser, Choosing
<1>3. r \notin teams
  BY <1>0, <1>1 DEF WorkInv
<1> DEFINE next(u) == {q \in teams' : owner'[q] = u}
<1>4. ASSUME NEW u PROVE next(u) \ counted' = TeamsOf(u) \ counted
  BY <1>1, <1>3 DEF TeamsOf
<1>5. ASSUME NEW u \in Users
      PROVE  Cardinality(next(u) \ counted') <=
                (IF plan'.can_create_teams THEN plan'.max_workspaces ELSE 1)
  <2> HIDE DEF next
  <2> QED
    BY <1>1, <1>4 DEF PlanInv, WithinPlan
<1>6. ASSUME NEW p \in Reqs, kind'[p] = "create", pc'[p] \in Choosing, p \notin counted'
      PROVE  Cardinality(next(owner'[p]) \ counted') < plan'.max_workspaces
  <2> HIDE DEF next
  <2>1. next(owner'[p]) \ counted' = TeamsOf(owner[p]) \ counted
    BY <1>1, <1>4
  <2>2. CASE p = r
    <3>1. Cardinality(TeamsOf(owner[r])) < plan.max_workspaces
      BY <1>1, <1>6, <2>2 DEF Choosing
    <3>2. Cardinality(TeamsOf(owner[r]) \ counted) <= Cardinality(TeamsOf(owner[r]))
      BY <1>0, Counting
    <3> QED
      BY <1>0, <1>1, <2>1, <2>2, <3>1, <3>2, Counting, PlanType
  <2>3. CASE p # r
    <3>1. Cardinality(TeamsOf(owner[p]) \ counted) < plan.max_workspaces
      BY <1>1, <1>6, <2>3 DEF PlanInv
    <3> QED
      BY <1>1, <2>1, <3>1
  <2> QED
    BY <2>2, <2>3
<1>7. \A p \in Reqs : kind'[p] = "create" /\ (pc'[p] \in Choosing \/ p \in teams')
                      => plan'.can_create_teams
  BY <1>1 DEF PlanInv, Choosing
<1>8. ASSUME NEW p \in Reqs, NEW q \in Reqs, p # q, owner'[p] = owner'[q],
             kind'[p] = "create", kind'[q] = "create",
             pc'[p] \in Choosing, pc'[q] \in Choosing
      PROVE  p \in counted' \/ q \in counted'
  BY <1>1, <1>2, <1>8 DEF PlanInv
<1> QED
  BY <1>5, <1>6, <1>7, <1>8 DEF PlanInv, WithinPlan, TeamsOf, Choosing

\* A commit: a default team is the first one, a creation that is not counted has
\* room and is alone.
LEMMA PlanCommit ==
    ASSUME BaseInv, SignupInv, PlanInv, NEW r \in Reqs, Commit(r)
    PROVE  PlanInv'
<1>0. AccountsTypeOK /\ WorkInv
  BY DEF BaseInv
<1>1. /\ UNCHANGED <<plan, kind, owner, counted>> /\ pc[r] \in {"ready", "inserted"}
      /\ \A q \in Reqs \ {r} : pc'[q] = pc[q]
      /\ pc'[r] = "committed"
      /\ teams' = IF pc[r] = "inserted" THEN teams \cup {r} ELSE teams
  BY <1>0 DEF Commit, To, AccountsTypeOK
<1>2. r \notin teams /\ kind[r] \in {"login", "create"} /\ owner[r] \in Users
  BY <1>0, <1>1 DEF WorkInv, AccountsTypeOK
<1>3. CASE pc[r] = "ready"
  <2>1. PlanRests
    BY <1>1, <1>3 DEF PlanRests, Choosing
  <2> QED
    BY <1>0, <2>1, PlanStays DEF WorkInv, AccountsTypeOK
<1>4. CASE pc[r] = "inserted"
  <2> DEFINE next(u) == {q \in teams' : owner'[q] = u}
             before == TeamsOf(owner[r]) \ counted
             after == next(owner[r]) \ counted
  <2>1. /\ \A u : u # owner[r] => next(u) = TeamsOf(u)
        /\ next(owner[r]) = TeamsOf(owner[r]) \cup {r}
    BY <1>1, <1>4 DEF TeamsOf
  <2>2. IsFiniteSet(before) /\ Cardinality(before) \in Nat
    BY <1>0, Counting
  <2>3. r \notin before
    BY <1>2 DEF TeamsOf
  <2> HIDE DEF next
  <2>4. Cardinality(after) <= (IF plan.can_create_teams THEN plan.max_workspaces ELSE 1)
    <3>1. CASE r \in counted
      <4>1. after = before
        BY <2>1, <3>1
      <4> QED
        BY <1>2, <4>1 DEF PlanInv, WithinPlan
    <3>2. CASE r \notin counted
      <4>1. after = before \cup {r}
        BY <2>1, <3>2
      <4>2. Cardinality(after) = Cardinality(before) + 1
        BY <4>1, <2>2, <2>3, FS_AddElement
      <4>3. CASE kind[r] = "create"
        <5>1. plan.can_create_teams /\ Cardinality(before) < plan.max_workspaces
          BY <1>4, <3>2, <4>3 DEF PlanInv, Choosing
        <5> QED
          BY <1>0, <2>2, <4>2, <5>1, PlanType
      <4>4. CASE kind[r] = "login"
        <5>1. before = {}
          BY <1>0, <1>4, <4>4 DEF SignupInv, WorkInv, AccountsTypeOK, TeamsOf
        <5>2. Cardinality(before) = 0
          BY <5>1, FS_EmptySet
        <5> QED
          BY <1>0, <4>2, <5>2, PlanType
      <4> QED
        BY <1>2, <4>3, <4>4
    <3> QED
      BY <3>1, <3>2
  <2>5. ASSUME NEW u \in Users
        PROVE  Cardinality(next(u) \ counted) <=
                    (IF plan.can_create_teams THEN plan.max_workspaces ELSE 1)
    <3>1. CASE u = owner[r]
      BY <2>4, <3>1
    <3>2. CASE u # owner[r]
      BY <2>1, <3>2 DEF PlanInv, WithinPlan
    <3> QED
      BY <3>1, <3>2
  <2>6. ASSUME NEW p \in Reqs, kind[p] = "create", pc'[p] \in Choosing, p \notin counted
        PROVE  Cardinality(next(owner[p]) \ counted) < plan.max_workspaces
    <3>1. p # r /\ pc[p] \in Choosing
      BY <1>1, <2>6 DEF Choosing
    <3>2. Cardinality(TeamsOf(owner[p]) \ counted) < plan.max_workspaces
      BY <2>6, <3>1 DEF PlanInv
    <3>3. CASE owner[p] # owner[r]
      BY <2>1, <3>2, <3>3
    <3>4. CASE owner[p] = owner[r]
      <4>1. kind[r] # "login"
        BY <1>0, <1>4, <2>6, <3>4 DEF SignupInv, WorkInv
      <4>2. r \in counted
        BY <1>2, <1>4, <2>6, <3>1, <3>4, <4>1 DEF PlanInv, Choosing
      <4>3. next(owner[p]) \ counted = TeamsOf(owner[p]) \ counted
        BY <2>1, <3>4, <4>2
      <4> QED
        BY <3>2, <4>3
    <3> QED
      BY <3>3, <3>4
  <2>7. \A p \in Reqs : kind[p] = "create" /\ (pc'[p] \in Choosing \/ p \in teams')
                        => plan.can_create_teams
    BY <1>1, <1>4 DEF PlanInv, Choosing
  <2>8. \A p, q \in Reqs :
          /\ p # q /\ owner[p] = owner[q] /\ kind[p] = "create" /\ kind[q] = "create"
          /\ pc'[p] \in Choosing /\ pc'[q] \in Choosing
          => p \in counted \/ q \in counted
    BY <1>1 DEF PlanInv, Choosing
  <2> QED
    BY <1>1, <2>5, <2>6, <2>7, <2>8 DEF PlanInv, WithinPlan, TeamsOf, Choosing, next
<1> QED
  BY <1>1, <1>3, <1>4

LEMMA PlanStep ==
    ASSUME BaseInv, SignupInv, PlanInv, [Next]_vars
    PROVE  PlanInv'
<1>0. AccountsTypeOK /\ WorkInv
  BY DEF BaseInv
<1>1. \A r \in teams : kind[r] # "none"
  BY <1>0 DEF WorkInv, AccountsTypeOK
<1>2. ASSUME NEW r \in Reqs, Handle(r), ~CheckPlan(r), ~Commit(r)
      PROVE  PlanInv'
  <2>1. UNCHANGED <<plan, teams, kind, owner, counted>>
        /\ (pc'[r] \in Choosing => pc[r] \in Choosing \/ kind[r] = "login")
        /\ \A q \in Reqs \ {r} : pc'[q] = pc[q]
    BY <1>0, <1>2 DEF Handle, Upsert, CountTeams, PickDefault, PickSlug, Insert, Fail, To,
       Choosing, dbVars, WorkInv, AccountsTypeOK
  <2>2. PlanRests
    BY <2>1 DEF PlanRests
  <2> QED
    BY <1>0, <1>1, <2>2, PlanStays
<1>3. CASE Arrival
  <2> PICK r \in Reqs, k \in {"login", "create"}, u \in Users, b \in Browsers \cup {NoOne} :
          /\ kind[r] = "none"
          /\ Arrive(r, k, u, b)
          /\ UNCHANGED <<plan, dbVars, rivals, counted>>
    BY <1>3 DEF Arrival
  <2>1. PlanRests
    BY <1>0, <1>1 DEF PlanRests, Arrive, To, dbVars, Choosing, AccountsTypeOK
  <2> QED
    BY <1>0, <1>1, <2>1, PlanStays
<1>4. CASE ServerRests
  <2>1. PlanRests
    BY <1>4 DEF PlanRests, ServerRests
  <2> QED
    BY <1>0, <1>1, <2>1, PlanStays
<1> QED
  BY <1>2, <1>3, <1>4, Cases, PlanCheck, PlanCommit

\* Only creations that counted beside another one of their user pass the limit of
\* his plan, and none at all without the plan's leave.
THEOREM PlansAreKept == Spec => []WithinPlan
<1>1. PlanInv => WithinPlan
  BY DEF PlanInv
<1> QED
  BY BaseInit, SignupInit, PlanInit, Cases, SignupStep, PlanStep, <1>1, PTL DEF Spec

------------------------------------------------------------------------------
(* The scope of tokens and of the name in the sidebar                      *)

\* A committed team stays, and stays its owner's.
LEMMA TeamsStay ==
    ASSUME BaseInv, [Next]_vars
    PROVE  /\ teams \subseteq teams' /\ teams' \subseteq Reqs
           /\ \A r \in teams : owner'[r] = owner[r] /\ kind'[r] = kind[r]
<1>0. AccountsTypeOK /\ WorkInv /\ AccountsTypeOK'
  BY Cases DEF BaseInv
<1>1. CASE Arrival
  BY <1>0, <1>1 DEF Arrival, Arrive, dbVars, WorkInv, AccountsTypeOK
<1>2. CASE ServerRests
  BY <1>0, <1>2 DEF ServerRests, AccountsTypeOK
<1>3. ASSUME NEW r \in Reqs, Handle(r)
      PROVE  teams \subseteq teams' /\ UNCHANGED <<owner, kind>>
  BY <1>3 DEF Handle, Upsert, CountTeams, PickDefault, CheckPlan, PickSlug, Insert, Commit,
     Fail, dbVars
<1> QED
  BY <1>0, <1>1, <1>2, <1>3, Cases DEF AccountsTypeOK

\* Only minting and revoking write rows of tokens.
LEMMA TokenCases ==
    ASSUME [Next]_vars
    PROVE  \/ UNCHANGED token
           \/ \E b \in Browsers, t \in Tokens : Mint(b, t) \/ Revoke(b, t)
BY DEF Next, Handle, Upsert, CountTeams, PickDefault, CheckPlan, PickSlug, Insert, Commit,
   Fail, ReadToken, TouchToken, Post, GiveUp, Logout, ShowCards, ShowOffer, Create, ShowName,
   ShowTokens, SignIn, Browse, Follow, HearLogin, Enter, HearCreate, ReadTeams, LoseReply,
   OtherTab, dbVars, vars

LEMMA TokenStep ==
    ASSUME BaseInv, TokensStayHome, [Next]_vars
    PROVE  TokensStayHome'
<1>0. AccountsTypeOK /\ PageInv
  BY DEF BaseInv
<1> SUFFICES ASSUME NEW t \in Tokens, token'[t] # NoRow
             PROVE  token'[t].team \in teams' /\ owner'[token'[t].team] = token'[t].user
  BY DEF TokensStayHome, TeamsOf
<1>1. CASE token'[t] # NoRow /\ token'[t].team = token[t].team
           /\ token'[t].user = token[t].user /\ token[t] # NoRow
  <2>1. token[t].team \in teams /\ owner[token[t].team] = token[t].user
    BY <1>1 DEF TokensStayHome, TeamsOf
  <2> QED
    BY <1>1, <2>1, TeamsStay
<1>2. ASSUME NEW b \in Browsers, Mint(b, t)
      PROVE  token'[t].team \in teams' /\ owner'[token'[t].team] = token'[t].user
  <2>1. PICK w \in Scope(signed[b], active[b]) :
            token' = [token EXCEPT ![t] = [user |-> signed[b], team |-> w,
                                           revoked |-> FALSE]]
    BY <1>2 DEF Mint
  <2>2. token'[t] = [user |-> signed[b], team |-> w, revoked |-> FALSE]
    BY <1>0, <2>1 DEF AccountsTypeOK
  <2>3. w \in teams /\ owner[w] = signed[b]
    BY <1>0, <2>1, ScopeType DEF TeamsOf, AccountsTypeOK
  <2> QED
    BY <2>2, <2>3, TeamsStay
<1>3. ASSUME NEW b \in Browsers, Revoke(b, t)
      PROVE  token'[t].team \in teams' /\ owner'[token'[t].team] = token'[t].user
  <2>1. signed[b] # NoOne /\ token[t].user = signed[b]
    BY <1>0, <1>3 DEF Revoke, PageInv, Inside
  <2>2. token[t] # NoRow
    BY <2>1 DEF NoRow
  <2>3. token' = [token EXCEPT ![t].revoked = TRUE]
    BY <1>3 DEF Revoke
  <2>4. token[t] \in [user : Users, team : Reqs, revoked : BOOLEAN]
    BY <1>0, <2>2 DEF AccountsTypeOK, Rows
  <2>5. token'[t].team = token[t].team /\ token'[t].user = token[t].user
    BY <1>0, <2>3, <2>4 DEF AccountsTypeOK
  <2> QED
    BY <1>1, <2>2, <2>5
<1>4. CASE token'[t] = token[t]
  BY <1>1, <1>4
<1>5. ASSUME NEW b \in Browsers, NEW q \in Tokens \ {t}, Mint(b, q) \/ Revoke(b, q)
      PROVE  token'[t] = token[t]
  BY <1>0, <1>5 DEF Mint, Revoke, AccountsTypeOK
<1> QED
  BY <1>2, <1>3, <1>4, <1>5, TokenCases

LEMMA TokenInit == Init => TokensStayHome
BY DEF Init, TokensStayHome

\* What a token reaches belongs to the user who minted it, whatever workspace the
\* browser was left with.
THEOREM TokensReachHome == Spec => []TokensStayHome
BY BaseInit, TokenInit, Cases, TokenStep, PTL DEF Spec

\* A revoked token stays revoked.
THEOREM RevocationsHold == Spec => RevokedForGood
<1>1. ASSUME BaseInv, [Next]_vars, NEW t \in Tokens, token[t].revoked
      PROVE  token'[t].revoked
  <2>0. AccountsTypeOK
    BY <1>1 DEF BaseInv
  <2>1. ASSUME NEW b \in Browsers, NEW q \in Tokens, Mint(b, q) PROVE token'[t].revoked
    <3>1. q # t
      BY <1>1, <2>1 DEF Mint, NoRow
    <3>2. token'[t] = token[t]
      BY <2>0, <2>1, <3>1 DEF Mint, AccountsTypeOK
    <3> QED
      BY <1>1, <3>2
  <2>2. ASSUME NEW b \in Browsers, NEW q \in Tokens, Revoke(b, q) PROVE token'[t].revoked
    <3>1. token[t] # NoRow /\ token[t] \in [user : Users, team : Reqs, revoked : BOOLEAN]
      BY <1>1, <2>0 DEF NoRow, Rows, AccountsTypeOK
    <3>2. token' = [token EXCEPT ![q].revoked = TRUE]
      BY <2>2 DEF Revoke
    <3>3. CASE q = t
      BY <2>0, <3>1, <3>2, <3>3 DEF AccountsTypeOK
    <3>4. CASE q # t
      BY <1>1, <2>0, <3>2, <3>4 DEF AccountsTypeOK
    <3> QED
      BY <3>3, <3>4
  <2> QED
    BY <1>1, <2>1, <2>2, TokenCases
<1>2. BaseInv /\ [Next]_vars => [\A t \in Tokens : token[t].revoked => token'[t].revoked]_vars
  BY <1>1
<1> QED
  BY BaseInit, Cases, <1>2, PTL DEF Spec, RevokedForGood

\* The workspaces the layout has read for its name, unless another tab has written
\* localStorage since: they are the user's, with his default one and with the
\* one he has entered if that is his.
ReadWell(b) ==
    /\ list[b] \subseteq TeamsOf(signed[b])
    /\ \E r \in list[b] : Default(r)
    /\ active[b] \in TeamsOf(signed[b]) => active[b] \in list[b]

\* The layout reads and names workspaces on its own page only, and right.
NameInv ==
    /\ \A b \in Browsers :
        /\ list[b] # {} \/ name[b] # NoOne => page[b] = "app"
        /\ b \notin crossed /\ list[b] # {} => ReadWell(b)
    /\ NameIsScope

LEMMA NameInit == Init => NameInv
BY DEF Init, NameInv, NameIsScope

\* A page that is mounted has read nothing and shows no name yet; a page that stays
\* keeps its user and his workspace, but for what another tab does.
LEMMA NameCases ==
    ASSUME BaseInv, [Next]_vars, NEW b \in Browsers
    PROVE  \/ name'[b] = NoOne /\ list'[b] = {}
           \/ /\ UNCHANGED <<name[b], list[b], page[b], signed[b], active[b]>>
              /\ b \in crossed' <=> b \in crossed
           \/ ReadTeams(b) \/ ShowName(b) \/ OtherTab(b)
<1> DEFINE Rests(d) == /\ UNCHANGED <<name[d], list[d], page[d], signed[d], active[d]>>
                       /\ d \in crossed' <=> d \in crossed
           Bare(d) == name'[d] = NoOne /\ list'[d] = {}
<1>0. AccountsTypeOK
  BY DEF BaseInv
<1>1. CASE UNCHANGED <<name, list, page, signed, active, crossed>>
  BY <1>1
<1>2. ASSUME NEW d \in Browsers, NEW p \in Pages, Mount(d, p),
             \A c \in Browsers \ {d} : signed'[c] = signed[c] /\ active'[c] = active[c]
      PROVE  Bare(b) \/ Rests(b)
  <2>1. CASE b = d
    BY <1>0, <1>2, <2>1 DEF Mount, AccountsTypeOK
  <2>2. CASE b # d
    BY <1>0, <1>2, <2>2 DEF Mount, AccountsTypeOK
  <2> QED
    BY <2>1, <2>2
<1>3. ASSUME NEW d \in Browsers,
             \/ \E u \in Users : SignIn(d, u)
             \/ Leaves(d) \/ \E p \in Inside : Follow(d, p) \/ \E r \in Reqs : Enter(d, r)
      PROVE  Bare(b) \/ Rests(b)
  <2>1. \E p \in Pages : Mount(d, p)
    BY <1>3 DEF SignIn, Leaves, GiveUp, Logout, Browse, HearLogin, Follow, Enter, Inside, Pages
  <2>2. \A c \in Browsers \ {d} : signed'[c] = signed[c] /\ active'[c] = active[c]
    BY <1>0, <1>3 DEF SignIn, Leaves, GiveUp, Logout, Browse, HearLogin, Follow, Enter,
       AccountsTypeOK
  <2> QED
    BY <1>2, <2>1, <2>2
<1>4. ASSUME NEW d \in Browsers, NEW r \in Reqs, HearCreate(d, r)
      PROVE  Bare(b) \/ Rests(b)
  <2>1. CASE pc[r] = "committed"
    <3>1. /\ Mount(d, "onboarding") /\ "onboarding" \in Pages
          /\ \A c \in Browsers \ {d} : signed'[c] = signed[c] /\ active'[c] = active[c]
      BY <1>0, <1>4, <2>1 DEF HearCreate, Pages, AccountsTypeOK
    <3> QED
      BY <1>2, <3>1
  <2>2. CASE pc[r] # "committed"
    BY <1>4, <2>2 DEF HearCreate
  <2> QED
    BY <2>1, <2>2
<1>5. ASSUME NEW d \in Browsers, ReadTeams(d) \/ ShowName(d) \/ OtherTab(d)
      PROVE  Rests(b) \/ ReadTeams(b) \/ ShowName(b) \/ OtherTab(b)
  <2>1. CASE b = d
    BY <1>5, <2>1
  <2>2. CASE b # d
    BY <1>0, <1>5, <2>2 DEF ReadTeams, ShowName, OtherTab, AccountsTypeOK
  <2> QED
    BY <2>1, <2>2
<1>6. ASSUME NEW r \in Reqs, Handle(r)
      PROVE  UNCHANGED <<name, list, page, signed, active, crossed>>
  BY <1>6 DEF Handle, Upsert, CountTeams, PickDefault, CheckPlan, PickSlug, Insert, Commit,
     Fail, browserVars
<1>7. ASSUME NEW t \in Tokens, \/ ReadToken(t) \/ TouchToken(t)
                               \/ \E d \in Browsers : Mint(d, t) \/ Revoke(d, t)
      PROVE  UNCHANGED <<name, list, page, signed, active, crossed>>
  BY <1>7 DEF ReadToken, TouchToken, Mint, Revoke, browserVars
<1>8. ASSUME NEW d \in Browsers,
             \/ ShowCards(d) \/ ShowOffer(d) \/ ShowTokens(d) \/ Create(d)
             \/ \E r \in Reqs : LoseReply(d, r)
             \/ \E u \in Users : Post(u)
      PROVE  UNCHANGED <<name, list, page, signed, active, crossed>>
  BY <1>8 DEF ShowCards, ShowOffer, ShowTokens, Create, LoseReply, Post, browserVars
<1>9. CASE UNCHANGED vars
  BY <1>9 DEF vars, browserVars
<1> QED
  BY <1>1, <1>3, <1>4, <1>5, <1>6, <1>7, <1>8, <1>9 DEF Next, Leaves, Inside

\* What was read well stays so while its browser's localStorage does.
LEMMA ReadStays ==
    ASSUME BaseInv, [Next]_vars, NEW b \in Browsers, ReadWell(b),
           UNCHANGED <<list[b], signed[b], active[b]>>
    PROVE  ReadWell(b)'
<1>1. active[b] \in teams \cup {NoOne} /\ NoOne \notin teams'
  BY AccountsAssumption, TeamsStay DEF BaseInv, PageInv, AccountsAssumption
<1>2. \A r \in teams : r \in TeamsOf(signed[b])' <=> r \in TeamsOf(signed[b])
  BY TeamsStay DEF TeamsOf
<1>3. TeamsOf(signed[b]) \subseteq teams
  BY DEF TeamsOf
<1>4. list'[b] \subseteq TeamsOf(signed[b])'
  BY <1>2, <1>3 DEF ReadWell
<1>5. \E r \in list'[b] : Default(r)'
  BY <1>3, TeamsStay DEF ReadWell, Default
<1>6. active'[b] \in TeamsOf(signed[b])' => active'[b] \in list'[b]
  BY <1>1, <1>2 DEF ReadWell, TeamsOf
<1> QED
  BY <1>4, <1>5, <1>6 DEF ReadWell

\* The scope of a user who stays and keeps his workspace does not move.
LEMMA ScopeStays ==
    ASSUME BaseInv, SignupInv, SignupInv', [Next]_vars, NEW b \in Browsers,
           signed[b] \in users, UNCHANGED <<signed[b], active[b]>>
    PROVE  Scope(signed[b], active[b])' \subseteq Scope(signed[b], active[b])
<1>1. active[b] \in teams \cup {NoOne} /\ NoOne \notin teams' /\ teams' \subseteq Reqs
  BY AccountsAssumption, TeamsStay DEF BaseInv, PageInv, AccountsAssumption
<1>2. CASE active[b] # NoOne
  BY <1>1, <1>2, TeamsStay DEF Scope, TeamsOf
<1>3. CASE active[b] = NoOne
  <2>1. PICK r \in teams : owner[r] = signed[b] /\ Default(r)
    BY DEF SignupInv
  <2>2. r \in Scope(signed[b], active[b])
    BY <1>3, <2>1 DEF Scope, Fallback, TeamsOf
  <2>3. r \in teams' /\ owner'[r] = signed[b] /\ Default(r)'
    BY <2>1, TeamsStay DEF Default
  <2>4. ASSUME NEW q \in teams', owner'[q] = signed[b], kind'[q] = "login" PROVE q = r
    BY <1>1, <2>3, <2>4 DEF SignupInv, Default
  <2>5. Scope(signed[b], active[b])' \subseteq {r}
    BY <1>3, <2>3, <2>4 DEF Scope, Fallback, TeamsOf, Default
  <2> QED
    BY <2>2, <2>5
<1> QED
  BY <1>2, <1>3

LEMMA NameStep ==
    ASSUME BaseInv, SignupInv, NameInv, [Next]_vars
    PROVE  NameInv'
<1>0. AccountsTypeOK /\ WorkInv /\ PageInv /\ SignupInv'
  BY SignupStep DEF BaseInv
<1> SUFFICES ASSUME NEW b \in Browsers
             PROVE  /\ list'[b] # {} \/ name'[b] # NoOne => page'[b] = "app"
                    /\ b \notin crossed' /\ list'[b] # {} => ReadWell(b)'
                    /\ b \notin crossed' /\ name'[b] # NoOne =>
                            Scope(signed[b], active[b])' \subseteq {name'[b]}
  BY DEF NameInv, NameIsScope
<1>1. page[b] = "app" => signed[b] \in users
  BY <1>0 DEF PageInv, Inside
<1>2. CASE name'[b] = NoOne /\ list'[b] = {}
  BY <1>2
<1>3. CASE /\ UNCHANGED <<name[b], list[b], page[b], signed[b], active[b]>>
           /\ b \in crossed' <=> b \in crossed
  BY <1>0, <1>1, <1>3, ReadStays, ScopeStays DEF NameInv, NameIsScope
<1>4. CASE OtherTab(b)
  <2>1. UNCHANGED <<page, name, list>> /\ (page[b] = "app" => b \in crossed')
    BY <1>4 DEF OtherTab
  <2> QED
    BY <2>1 DEF NameInv
<1>5. CASE ReadTeams(b)
  <2>1. /\ UNCHANGED <<page, name, signed, active, crossed>>
        /\ page[b] = "app" /\ name[b] = NoOne
        /\ list'[b] = TeamsOf(signed[b])
    BY <1>0, <1>5 DEF ReadTeams, AccountsTypeOK
  <2>2. UNCHANGED <<teams, owner, kind>>
    BY <1>5 DEF ReadTeams, dbVars, reqVars
  <2>3. \E r \in TeamsOf(signed[b]) : Default(r)
    BY <1>0, <1>1, <2>1 DEF SignupInv, TeamsOf
  <2>4. ReadWell(b)'
    BY <2>1, <2>2, <2>3 DEF ReadWell, TeamsOf, Default
  <2> QED
    BY <2>1, <2>4
<1>6. CASE ShowName(b)
  <2>1. PICK w \in Named(list[b], active[b]) : name' = [name EXCEPT ![b] = w]
    BY <1>6 DEF ShowName
  <2>2. /\ UNCHANGED <<page, signed, active, crossed, teams, owner, kind>>
        /\ list'[b] = {} /\ name'[b] = w /\ w \in list[b]
    BY <1>0, <1>6, <2>1, NamedType DEF ShowName, AccountsTypeOK, dbVars, reqVars
  <2>3. page[b] = "app" /\ (b \notin crossed => ReadWell(b))
    BY <2>2 DEF NameInv
  <2>4. ASSUME ReadWell(b) PROVE Scope(signed[b], active[b]) \subseteq {w}
    <3>1. CASE active[b] # NoOne
      BY <2>1, <2>4, <3>1 DEF Scope, ReadWell, Named
    <3>2. CASE active[b] = NoOne
      <4>1. active[b] \notin list[b]
        BY <1>0, <2>4, <3>2, AccountsAssumption DEF AccountsTypeOK, AccountsAssumption
      <4>2. w \in TeamsOf(signed[b]) /\ Default(w)
        BY <2>1, <2>4, <4>1 DEF Named, ReadWell
      <4>3. \A q \in TeamsOf(signed[b]) : Default(q) => q = w
        BY <1>0, <4>2 DEF TeamsOf, SignupInv
      <4> QED
        BY <3>2, <4>2, <4>3 DEF Scope, Fallback
    <3> QED
      BY <3>1, <3>2
  <2>5. Scope(signed[b], active[b])' = Scope(signed[b], active[b])
    BY <2>2 DEF Scope, Fallback, TeamsOf, Default
  <2> QED
    BY <2>2, <2>3, <2>4, <2>5
<1> QED
  BY <1>2, <1>3, <1>4, <1>5, <1>6, NameCases

\* The workspace named in the sidebar is the one requests are answered for,
\* whenever they are not refused and until another tab of the browser enters a
\* workspace or has somebody signed in.
THEOREM NamesAreScopes == Spec => []NameIsScope
<1>1. NameInv => NameIsScope
  BY DEF NameInv
<1> QED
  BY BaseInit, SignupInit, NameInit, Cases, SignupStep, NameStep, <1>1, PTL DEF Spec
==============================================================================
