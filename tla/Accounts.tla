------------------------------- MODULE Accounts -------------------------------
(***************************************************************************)
(* Users, their workspaces ("teams") and their MCP tokens: the end of the  *)
(* GitHub login (api/routes/auth.py), the team routes with the plan's      *)
(* limits (api/routes/teams.py, api/entitlements.py), the workspace a      *)
(* request works on (api/workspace.py), the tokens (api/mcp_auth.py), and  *)
(* the browser: the dashboard, the workspace kept in localStorage          *)
(* (frontend/src/lib/workspace.ts) and the name in the sidebar.            *)
(*                                                                         *)
(* A handler is one transaction (READ COMMITTED), one action per read it   *)
(* depends on, one for its insert, one for its commit.  Users, teams and   *)
(* memberships are never deleted by the code, and the only members are     *)
(* owners, so a team stands for its one membership.                        *)
(***************************************************************************)
EXTENDS Naturals, FiniteSets

CONSTANTS
    Browsers,
    Users,       \* GitHub accounts
    Login,       \* user -> its login, as _slugify makes it
    Names,       \* names given to workspaces, as _slugify makes them
    Plans,       \* the entitlements a build may have
    Tokens,      \* bound: MCP tokens
    MaxReqs,     \* bound: logins and creations of workspaces
    MaxEvents,   \* bound: faults, and what other tabs do
    NoOne        \* none

Reqs == 1..MaxReqs
Unlimited == MaxReqs + 1    \* max_workspaces None

ASSUME AccountsAssumption ==
    /\ NoOne \notin Users \cup Reqs \cup Browsers
    /\ Plans \subseteq [can_create_teams : BOOLEAN, max_workspaces : Nat \ {0}]
    /\ MaxReqs \in Nat
    /\ MaxEvents \in Nat

VARIABLES
    plan,      \* get_entitlements("free"), one for the build
    \* the database
    users,     \* users committed
    teams,     \* requests whose team is committed
    slug,      \* request -> the slug it picked
    token,     \* MCP token -> its row
    \* handlers of logins and creations
    kind, owner, pc,
    from,      \* request -> the browser document that waits for its reply
    use,       \* MCP token -> whether a request has read its row
    \* the browsers: what their tabs share, and the tab that is looked at
    signed,    \* whose engram_token there is in localStorage
    active,    \* engram_active_workspace in localStorage
    page,
    cards,     \* workspaces of the dashboard
    offer,     \* canCreate of the dashboard
    busy,      \* the creation this dashboard waits for
    list,      \* the workspaces the layout has read, until it names one
    name,      \* workspaceName of the layout
    listed,    \* tokens the settings page shows with a button to revoke them
    \* bookkeeping of the model
    rivals,    \* request -> requests under way when it picked, or since
    counted,   \* creations that counted while another one of the user was open
    crossed,   \* browsers whose other tabs have written localStorage since the
               \* layout was mounted
    faults

dbVars == <<users, teams, slug, token>>
reqVars == <<kind, owner, pc, from, use>>
browserVars == <<signed, active, page, cards, offer, busy, list, name, listed, crossed>>
vars == <<plan, dbVars, reqVars, browserVars, rivals, counted, faults>>

Pages == {"login", "github", "dashboard", "onboarding", "app"}
\* Between its first write and the end of its transaction a login holds the row
\* of its user; a request that has inserted a team holds the slug.
HoldsUser == {"upserted", "new", "picked", "inserted", "ready"}
Open == HoldsUser \cup {"sent", "allowed"}
Over == {"committed", "refused", "conflict", "failed"}

NoSlug == <<>>
Slugs == {NoSlug} \cup {<<b>> : b \in {Login[u] : u \in Users} \cup Names}
            \cup ({Login[u] : u \in Users} \cup Names) \X Reqs
NoRow == [user |-> NoOne, team |-> NoOne, revoked |-> FALSE]
Rows == {NoRow} \cup [user : Users, team : Reqs, revoked : BOOLEAN]

AccountsTypeOK ==
    /\ plan \in Plans
    /\ users \subseteq Users
    /\ teams \subseteq Reqs
    /\ slug \in [Reqs -> Slugs]
    /\ token \in [Tokens -> Rows]
    /\ kind \in [Reqs -> {"none", "login", "create"}]
    /\ owner \in [Reqs -> Users \cup {NoOne}]
    /\ pc \in [Reqs -> {"idle"} \cup Open \cup Over]
    /\ from \in [Reqs -> Browsers \cup {NoOne}]
    /\ use \in [Tokens -> BOOLEAN]
    /\ signed \in [Browsers -> Users \cup {NoOne}]
    /\ active \in [Browsers -> Reqs \cup {NoOne}]
    /\ page \in [Browsers -> Pages]
    /\ cards \in [Browsers -> SUBSET Reqs]
    /\ offer \in [Browsers -> BOOLEAN]
    /\ busy \in [Browsers -> Reqs \cup {NoOne}]
    /\ list \in [Browsers -> SUBSET Reqs]
    /\ name \in [Browsers -> Reqs \cup {NoOne}]
    /\ listed \in [Browsers -> SUBSET Tokens]
    /\ rivals \in [Reqs -> SUBSET Reqs]
    /\ counted \subseteq Reqs
    /\ crossed \subseteq Browsers
    /\ faults \in 0..MaxEvents

Init ==
    /\ plan \in Plans
    /\ users = {} /\ teams = {}
    /\ slug = [r \in Reqs |-> NoSlug]
    /\ token = [t \in Tokens |-> NoRow]
    /\ kind = [r \in Reqs |-> "none"]
    /\ owner = [r \in Reqs |-> NoOne]
    /\ pc = [r \in Reqs |-> "idle"]
    /\ from = [r \in Reqs |-> NoOne]
    /\ use = [t \in Tokens |-> FALSE]
    /\ signed = [b \in Browsers |-> NoOne]
    /\ active = [b \in Browsers |-> NoOne]
    /\ page = [b \in Browsers |-> "login"]
    /\ cards = [b \in Browsers |-> {}]
    /\ offer = [b \in Browsers |-> FALSE]
    /\ busy = [b \in Browsers |-> NoOne]
    /\ list = [b \in Browsers |-> {}]
    /\ name = [b \in Browsers |-> NoOne]
    /\ listed = [b \in Browsers |-> {}]
    /\ rivals = [r \in Reqs |-> {}]
    /\ counted = {}
    /\ crossed = {}
    /\ faults = 0

------------------------------------------------------------------------------
(* Queries                                                                 *)

Default(r) == kind[r] = "login"

TeamsOf(u) == {r \in teams : owner[r] = u}

\* Mutant of Fallback: the newest workspace.
FallbackNewest(u) == {r \in TeamsOf(u) : \A q \in TeamsOf(u) : q <= r}

\* ORDER BY is_default DESC: resolve_current_team and get_active_team_id differ
\* in the order of the others only.
Fallback(u) ==
    LET default == {r \in TeamsOf(u) : Default(r)}
    IN  IF default # {} THEN default ELSE TeamsOf(u)

\* Mutant of Scope: the header is taken at its word.
ScopeUnchecked(u, header) == IF header # NoOne THEN {header} ELSE Fallback(u)

\* get_active_team_id: empty for 403 (not a member) and 409 (no workspace).
Scope(u, header) ==
    IF header # NoOne THEN {header} \cap TeamsOf(u) ELSE Fallback(u)

Taken(s) == \E r \in teams : slug[r] = s

\* Mutant of PickedSlug: nobody looks.
PickedUnseen(r, base) == <<base>>

\* The base when no committed team has it, else the base with random hex.
PickedSlug(r, base) == IF Taken(<<base>>) THEN <<base, r>> ELSE <<base>>

Fault == faults < MaxEvents /\ faults' = faults + 1

InFlight(q) == pc[q] \in Open

\* Bookkeeping, until they end: who was under way beside a request from its
\* choice of a slug on.
Meet(r) ==
    rivals' = [q \in Reqs |->
                  IF q = r THEN {p \in Reqs \ {r} : InFlight(p)}
                  ELSE IF pc[q] \in {"picked", "inserted"} THEN rivals[q] \cup {r}
                  ELSE rivals[q]]

------------------------------------------------------------------------------
(* The handlers                                                            *)

To(r, state) == pc' = [pc EXCEPT ![r] = state]

\* Mutant of Upsert: no unique key on github_id, so nobody waits.
UpsertAtOnce(r) ==
    /\ pc[r] = "sent" /\ kind[r] = "login"
    /\ To(r, "upserted")
    /\ UNCHANGED <<plan, dbVars, kind, owner, from, use, browserVars, rivals,
                   counted, faults>>

\* callback, to its first write: INSERT ... ON CONFLICT (github_id) DO UPDATE
\* waits for another transaction that has written the same user.  (It changes no
\* key, so the memberships that creations insert do not wait for it.)
Upsert(r) ==
    /\ pc[r] = "sent" /\ kind[r] = "login"
    /\ \A q \in Reqs : kind[q] = "login" /\ owner[q] = owner[r] =>
            pc[q] \notin HoldsUser
    /\ To(r, "upserted")
    /\ UNCHANGED <<plan, dbVars, kind, owner, from, use, browserVars, rivals,
                   counted, faults>>

\* ensure_default_team: nothing for a user who has a workspace ...
CountTeams(r) ==
    /\ pc[r] = "upserted"
    /\ To(r, IF TeamsOf(owner[r]) = {} THEN "new" ELSE "ready")
    /\ UNCHANGED <<plan, dbVars, kind, owner, from, use, browserVars, rivals,
                   counted, faults>>

\* ... and for the others a slug.
PickDefault(r) ==
    /\ pc[r] = "new"
    /\ To(r, "picked")
    /\ slug' = [slug EXCEPT ![r] = PickedSlug(r, Login[owner[r]])]
    /\ Meet(r)
    /\ UNCHANGED <<plan, users, teams, token, kind, owner, from, use,
                   browserVars, counted, faults>>

\* Mutant of CheckPlan: one more than the plan has.
CheckPlanOffByOne(r) ==
    /\ pc[r] = "sent" /\ kind[r] = "create"
    /\ IF /\ plan.can_create_teams
          /\ Cardinality(TeamsOf(owner[r])) <= plan.max_workspaces
       THEN To(r, "allowed") ELSE To(r, "refused")
    /\ counted' = counted \cup
         (IF \E q \in Reqs \ {r} : InFlight(q) /\ kind[q] = "create"
                                   /\ owner[q] = owner[r] /\ pc[q] # "sent"
          THEN {r} ELSE {})
    /\ UNCHANGED <<plan, dbVars, kind, owner, from, use, browserVars, rivals,
                   faults>>

\* create_team, to the two ways it answers 402 (and, with Fail, the 400 for a
\* blank name, which the dashboard does not send: it too leaves nothing).
CheckPlan(r) ==
    /\ pc[r] = "sent" /\ kind[r] = "create"
    /\ IF /\ plan.can_create_teams
          /\ Cardinality(TeamsOf(owner[r])) < plan.max_workspaces
       THEN To(r, "allowed") ELSE To(r, "refused")
    /\ counted' = counted \cup
         (IF \E q \in Reqs \ {r} : InFlight(q) /\ kind[q] = "create"
                                   /\ owner[q] = owner[r] /\ pc[q] # "sent"
          THEN {r} ELSE {})
    /\ UNCHANGED <<plan, dbVars, kind, owner, from, use, browserVars, rivals,
                   faults>>

\* _unique_slug, for one of the names.
PickSlug(r) ==
    /\ pc[r] = "allowed"
    /\ To(r, "picked")
    /\ \E n \in Names : slug' = [slug EXCEPT ![r] = PickedSlug(r, n)]
    /\ Meet(r)
    /\ UNCHANGED <<plan, users, teams, token, kind, owner, from, use,
                   browserVars, counted, faults>>

SlugIsFree(r) ==
    \A q \in Reqs \ {r} : pc[q] = "inserted" => slug[q] # slug[r]

\* Mutant of Insert: the error is swallowed and the transaction stays open.
InsertLeavesOpen(r) ==
    /\ pc[r] = "picked"
    /\ SlugIsFree(r)
    /\ ~Taken(slug[r])
    /\ To(r, "inserted")
    /\ UNCHANGED <<plan, dbVars, kind, owner, from, use, browserVars, rivals,
                   counted, faults>>

\* The flush: the unique key on slug waits for an insert of the same slug under
\* way, and raises when there is one committed (500, and a rollback).
Insert(r) ==
    /\ pc[r] = "picked"
    /\ SlugIsFree(r)
    /\ To(r, IF Taken(slug[r]) THEN "conflict" ELSE "inserted")
    /\ UNCHANGED <<plan, dbVars, kind, owner, from, use, browserVars, rivals,
                   counted, faults>>

\* The only commit: for a login the user, the session and, when there is none
\* yet, the default team; for a creation the team.
Commit(r) ==
    /\ pc[r] \in {"ready", "inserted"}
    /\ To(r, "committed")
    /\ users' = users \cup {owner[r]}
    /\ teams' = IF pc[r] = "inserted" THEN teams \cup {r} ELSE teams
    /\ rivals' = [rivals EXCEPT ![r] = {}]
    /\ UNCHANGED <<plan, slug, token, kind, owner, from, use, browserVars,
                   counted, faults>>

\* GitHub refuses the code, the state token has expired, the database fails or
\* the process dies: the transaction is rolled back.
Fail(r) ==
    /\ Fault
    /\ InFlight(r)
    /\ To(r, "failed")
    /\ slug' = [slug EXCEPT ![r] = NoSlug]
    /\ rivals' = [rivals EXCEPT ![r] = {}]
    /\ UNCHANGED <<plan, users, teams, token, kind, owner, from, use,
                   browserVars, counted>>

Handle(r) ==
    \/ Upsert(r) \/ CountTeams(r) \/ PickDefault(r) \/ CheckPlan(r) \/ PickSlug(r)
    \/ Insert(r) \/ Commit(r) \/ Fail(r)

------------------------------------------------------------------------------
(* MCP tokens                                                              *)

\* Mutant of Mint: a header that is refused leaves the token without workspace.
MintUnscoped(b, t) ==
    /\ page[b] = "app"
    /\ token[t] = NoRow
    /\ \E w \in Scope(signed[b], active[b]) \cup {NoOne} :
        token' = [token EXCEPT ![t] = [user |-> signed[b], team |-> w,
                                       revoked |-> FALSE]]
    /\ UNCHANGED <<plan, users, teams, slug, reqVars, browserVars, rivals,
                   counted, faults>>

\* The settings page's "mint": create_mcp_token in the workspace of the header.
Mint(b, t) ==
    /\ page[b] = "app"
    /\ token[t] = NoRow
    /\ \E w \in Scope(signed[b], active[b]) :
        token' = [token EXCEPT ![t] = [user |-> signed[b], team |-> w,
                                       revoked |-> FALSE]]
    /\ UNCHANGED <<plan, users, teams, slug, reqVars, browserVars, rivals,
                   counted, faults>>

\* reloadTokens of the settings page, after its mount and after every change;
\* when it fails the page says that there are none.
ShowTokens(b) ==
    /\ page[b] = "app"
    /\ \E shown \in {{}, {t \in Tokens : token[t].user = signed[b]
                                          /\ ~token[t].revoked}} :
        listed' = [listed EXCEPT ![b] = shown]
    /\ UNCHANGED <<plan, dbVars, reqVars, signed, active, page, cards, offer,
                   busy, list, name, rivals, counted, crossed, faults>>

\* "revoke", for a token of the list: only one's own, whatever workspace it is
\* of, and nothing for one that has been revoked since.
Revoke(b, t) ==
    /\ page[b] = "app"
    /\ t \in listed[b]
    /\ token[t].user = signed[b]
    /\ token' = [token EXCEPT ![t].revoked = TRUE]
    /\ UNCHANGED <<plan, users, teams, slug, reqVars, browserVars, rivals,
                   counted, faults>>

\* verify_mcp_token reads the row of a token an MCP client presents ...
ReadToken(t) ==
    /\ token[t] # NoRow
    /\ ~use[t]
    /\ ~token[t].revoked
    /\ use' = [use EXCEPT ![t] = TRUE]
    /\ UNCHANGED <<plan, dbVars, kind, owner, pc, from, browserVars, rivals,
                   counted, faults>>

\* Mutant of TouchToken: the whole row is written back as it was read.
TouchWholeRow(t) ==
    /\ use[t]
    /\ use' = [use EXCEPT ![t] = FALSE]
    /\ token' = [token EXCEPT ![t].revoked = FALSE]
    /\ UNCHANGED <<plan, users, teams, slug, kind, owner, pc, from, browserVars,
                   rivals, counted, faults>>

\* ... and commits last_used_at, the one column it has changed, which nothing
\* else depends on.
TouchToken(t) ==
    /\ use[t]
    /\ use' = [use EXCEPT ![t] = FALSE]
    /\ UNCHANGED <<plan, dbVars, kind, owner, pc, from, browserVars, rivals,
                   counted, faults>>

------------------------------------------------------------------------------
(* The browsers                                                            *)

Unused == {r \in Reqs : kind[r] = "none" /\ \A q \in 1..(r - 1) : kind[q] # "none"}

\* A request arrives; b is the browser that waits for its reply, or NoOne.
Arrive(r, k, u, b) ==
    /\ kind' = [kind EXCEPT ![r] = k]
    /\ owner' = [owner EXCEPT ![r] = u]
    /\ To(r, "sent")
    /\ from' = [from EXCEPT ![r] = b]
    /\ UNCHANGED use

\* The page p is mounted and the one before it is gone, with its state.
Mount(b, p) ==
    /\ page' = [page EXCEPT ![b] = p]
    /\ cards' = [cards EXCEPT ![b] = {}]
    /\ offer' = [offer EXCEPT ![b] = FALSE]
    /\ busy' = [busy EXCEPT ![b] = NoOne]
    /\ list' = [list EXCEPT ![b] = {}]
    /\ name' = [name EXCEPT ![b] = NoOne]
    /\ listed' = [listed EXCEPT ![b] = {}]
    /\ crossed' = crossed \ {b}

\* The document is left for another one: nothing waits for its replies.
Unload(b) == from' = [r \in Reqs |-> IF from[r] = b THEN NoOne ELSE from[r]]

\* "Continue with GitHub", the consent of u there, and the callback's request.
SignIn(b, u) ==
    /\ page[b] = "login"
    /\ \E r \in Unused : Arrive(r, "login", u, b)
    /\ Mount(b, "github")
    /\ UNCHANGED <<plan, dbVars, signed, active, rivals, counted, faults>>

\* The redirect with the token, and its page; or an error instead.
HearLogin(b, r) ==
    /\ page[b] = "github"
    /\ from[r] = b /\ pc[r] \in Over
    /\ IF pc[r] = "committed"
       THEN signed' = [signed EXCEPT ![b] = owner[r]] /\ Mount(b, "dashboard")
       ELSE UNCHANGED signed /\ Mount(b, "login")
    /\ Unload(b)
    /\ UNCHANGED <<plan, dbVars, kind, owner, pc, use, active, rivals, counted,
                   faults>>

\* The reply is lost, or the user turns back.
GiveUp(b) ==
    /\ page[b] = "github"
    /\ Mount(b, "login")
    /\ Unload(b)
    /\ UNCHANGED <<plan, dbVars, kind, owner, pc, use, signed, active, rivals,
                   counted, faults>>

\* logout ("sign out", in the application), a call that is answered 401, or the
\* guard that hears of a logout in another tab: the token goes, the active
\* workspace stays.  (The guard leaves the document alive; that it may then still
\* hear the reply to a creation is left out.)
Logout(b) ==
    /\ page[b] \in {"dashboard", "onboarding", "app"}
    /\ signed' = [signed EXCEPT ![b] = NoOne]
    /\ Mount(b, "login")
    /\ Unload(b)
    /\ UNCHANGED <<plan, dbVars, kind, owner, pc, use, active, rivals, counted,
                   faults>>

\* A reload, or an address typed in.
Browse(b, p) ==
    /\ signed[b] # NoOne
    /\ Mount(b, p)
    /\ Unload(b)
    /\ UNCHANGED <<plan, dbVars, kind, owner, pc, use, signed, active, rivals,
                   counted, faults>>

\* The links of the sidebar and of the onboarding page.
Follow(b, p) ==
    /\ \/ page[b] \in {"app", "onboarding"} /\ p = "dashboard"
       \/ page[b] = "onboarding" /\ p = "app"
    /\ Mount(b, p)
    /\ UNCHANGED <<plan, dbVars, reqVars, signed, active, rivals, counted,
                   faults>>

\* load of the dashboard: GET /api/teams and GET /api/teams/current.
ShowCards(b) ==
    /\ page[b] = "dashboard"
    /\ cards' = [cards EXCEPT ![b] = TeamsOf(signed[b])]
    /\ UNCHANGED <<plan, dbVars, reqVars, signed, active, page, offer, busy,
                   list, name, listed, rivals, counted, crossed, faults>>

ShowOffer(b) ==
    /\ page[b] = "dashboard"
    /\ offer' = [offer EXCEPT ![b] = plan.can_create_teams]
    /\ UNCHANGED <<plan, dbVars, reqVars, signed, active, page, cards, busy,
                   list, name, listed, rivals, counted, crossed, faults>>

\* enter: to the application when its badge says ready, else to its set-up.
Enter(b, w) ==
    /\ page[b] = "dashboard"
    /\ w \in cards[b]
    /\ active' = [active EXCEPT ![b] = w]
    /\ \E p \in {"app", "onboarding"} : Mount(b, p)
    /\ UNCHANGED <<plan, dbVars, reqVars, signed, rivals, counted, faults>>

\* create, up to its request.
Create(b) ==
    /\ page[b] = "dashboard"
    /\ offer[b] /\ busy[b] = NoOne
    /\ \E r \in Unused :
        Arrive(r, "create", signed[b], b) /\ busy' = [busy EXCEPT ![b] = r]
    /\ UNCHANGED <<plan, dbVars, signed, active, page, cards, offer, list, name,
                   listed, rivals, counted, crossed, faults>>

\* The same request from a program that has the user's token.
Post(u) ==
    /\ u \in users
    /\ \E r \in Unused : Arrive(r, "create", u, NoOne)
    /\ UNCHANGED <<plan, dbVars, browserVars, rivals, counted, faults>>

\* create, from its reply on, which takes the user along wherever he has gone to
\* within the document.
HearCreate(b, r) ==
    /\ kind[r] = "create"
    /\ from[r] = b /\ pc[r] \in Over
    /\ IF pc[r] = "committed"
       THEN active' = [active EXCEPT ![b] = r] /\ Mount(b, "onboarding")
       ELSE /\ busy' = [busy EXCEPT ![b] = IF @ = r THEN NoOne ELSE @]
            /\ UNCHANGED <<active, page, cards, offer, list, name, listed, crossed>>
    /\ from' = [from EXCEPT ![r] = NoOne]
    /\ UNCHANGED <<plan, dbVars, kind, owner, pc, use, signed, rivals, counted,
                   faults>>

\* The reply is lost, and create says that it failed; the server goes on.
LoseReply(b, r) ==
    /\ Fault
    /\ kind[r] = "create" /\ from[r] = b
    /\ busy' = [busy EXCEPT ![b] = IF @ = r THEN NoOne ELSE @]
    /\ from' = [from EXCEPT ![r] = NoOne]
    /\ UNCHANGED <<plan, dbVars, kind, owner, pc, use, signed, active, page, cards,
                   offer, list, name, listed, rivals, counted, crossed>>

\* Another tab of the browser enters another workspace, of somebody who uses the
\* browser, or has somebody else signed in who is a user.
OtherTab(b) ==
    /\ Fault
    /\ \/ /\ signed[b] # NoOne
          /\ \E w \in teams \ {active[b]} : active' = [active EXCEPT ![b] = w]
          /\ UNCHANGED signed
       \/ /\ \E u \in users \ {signed[b]} : signed' = [signed EXCEPT ![b] = u]
          /\ UNCHANGED active
    /\ crossed' = crossed \cup (IF page[b] = "app" THEN {b} ELSE {})
    /\ UNCHANGED <<plan, dbVars, reqVars, page, cards, offer, busy, list, name,
                   listed, rivals, counted>>

\* The layout asks for the user's workspaces ...
ReadTeams(b) ==
    /\ page[b] = "app" /\ list[b] = {} /\ name[b] = NoOne
    /\ list' = [list EXCEPT ![b] = TeamsOf(signed[b])]
    /\ UNCHANGED <<plan, dbVars, reqVars, signed, active, page, cards, offer,
                   busy, name, listed, rivals, counted, crossed, faults>>

\* ... and names the entered one when it is of the list, else the default one,
\* else the first, which is the newest.
Named(shown, id) ==
    LET default == {r \in shown : Default(r)}
    IN  IF id \in shown THEN {id}
        ELSE IF default # {} THEN default
        ELSE {r \in shown : \A q \in shown : q <= r}

\* The reply: which one is entered is looked up only now.
ShowName(b) ==
    /\ \E w \in Named(list[b], active[b]) : name' = [name EXCEPT ![b] = w]
    /\ list' = [list EXCEPT ![b] = {}]
    /\ UNCHANGED <<plan, dbVars, reqVars, signed, active, page, cards, offer,
                   busy, listed, rivals, counted, crossed, faults>>

------------------------------------------------------------------------------

Next ==
    \/ \E r \in Reqs : Handle(r)
    \/ \E t \in Tokens : ReadToken(t) \/ TouchToken(t)
    \/ \E u \in Users : Post(u)
    \/ \E b \in Browsers :
        \/ GiveUp(b) \/ Logout(b) \/ ShowCards(b) \/ ShowOffer(b) \/ Create(b)
        \/ ReadTeams(b) \/ ShowName(b) \/ ShowTokens(b) \/ OtherTab(b)
        \/ \E u \in Users : SignIn(b, u)
        \/ \E p \in {"dashboard", "onboarding", "app"} : Browse(b, p) \/ Follow(b, p)
        \/ \E r \in Reqs : HearLogin(b, r) \/ Enter(b, r) \/ HearCreate(b, r)
                            \/ LoseReply(b, r)
        \/ \E t \in Tokens : Mint(b, t) \/ Revoke(b, t)

Spec == Init /\ [][Next]_vars

\* The server goes on with a request it has; nobody need fail, or come.
Work(r) ==
    \/ Upsert(r) \/ CountTeams(r) \/ PickDefault(r) \/ CheckPlan(r) \/ PickSlug(r)
    \/ Insert(r) \/ Commit(r)

FairSpec == Spec /\ \A r \in Reqs : WF_vars(Work(r))

------------------------------------------------------------------------------
(* What is checked                                                         *)

\* Signing up is all or nothing and happens once, however many first logins of
\* one person run together and wherever they fail: a committed user has exactly
\* one default workspace, and nobody else has any (teams.py:34, "Idempotently").
SignupIsWhole ==
    \A u \in Users :
        Cardinality({r \in TeamsOf(u) : Default(r)}) =
            (IF u \in users THEN 1 ELSE 0)
            /\ (u \notin users => TeamsOf(u) = {})

\* A login or a creation loses to the unique key only when another request was
\* under way beside it; retried alone it does not (teams.py:54 and :104).
SlugLostInRaceOnly ==
    \A r \in Reqs : pc[r] = "conflict" =>
        \E q \in rivals[r] : q \in teams /\ slug[q] = slug[r]

\* Without the plan's leave nobody has a second workspace; with it, only
\* creations that counted while another one of the user was open pass the limit.
WithinPlan ==
    \A u \in Users :
        Cardinality(TeamsOf(u) \ counted) <=
            (IF plan.can_create_teams THEN plan.max_workspaces ELSE 1)

\* What a token reaches belongs to the user who minted it, whoever used the
\* browser before and left his active workspace in it.
TokensStayHome ==
    \A t \in Tokens : token[t] # NoRow => token[t].team \in TeamsOf(token[t].user)

\* The workspace named in the sidebar is the one requests are answered for: the
\* layout, from what it read when it was mounted, and the server, from the header
\* of each call, agree whenever the server does not refuse the header and until
\* another tab of the browser enters a workspace or has somebody signed in; that
\* the name does not follow then is the code's (layout.tsx:64-70).
NameIsScope ==
    \A b \in Browsers \ crossed : name[b] # NoOne =>
        Scope(signed[b], active[b]) \subseteq {name[b]}

\* A revoked token stays revoked, whatever calls were being checked meanwhile.
RevokedForGood ==
    [][\A t \in Tokens : token[t].revoked => token'[t].revoked]_vars

\* No request waits for ever for the rows that others hold: each one ends.
RequestsEnd == \A r \in Reqs : pc[r] = "sent" ~> pc[r] \in Over
==============================================================================
