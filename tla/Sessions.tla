------------------------------- MODULE Sessions -------------------------------
(***************************************************************************)
(* The web sessions of one user: the session rows and the Redis denylist   *)
(* (api/session_tokens.py), the login, refresh, logout and logout-all      *)
(* routes (api/routes/auth.py), the access check (api/middleware.py) and   *)
(* the browsers' tabs, which renew a session when a call is answered 401   *)
(* (frontend/src/lib/api.ts, frontend/src/lib/auth.ts).                    *)
(*                                                                         *)
(* A session is identified with its refresh token and its one access       *)
(* token: all three are minted together.  Handlers run concurrently, each  *)
(* on a database session of its own (READ COMMITTED), so a handler is one  *)
(* action per read it depends on and one for its commit.  Time is counted  *)
(* in ticks.  Nothing in the code deactivates a user, so InactiveUser and, *)
(* as rows are never deleted, InvalidRefresh do not occur.                 *)
(***************************************************************************)
EXTENDS Naturals, FiniteSets

CONSTANTS
    Browsers,
    Tabs,          \* tabs of each browser: they share its cookies
    Legacy,        \* browsers that keep the login's 24 h token in localStorage
    AccessTTL,     \* 15 min
    LegacyTTL,     \* 24 h
    RefreshTTL,    \* 30 days
    MaxSessions,   \* bound: session rows
    MaxReqs,       \* bound: requests
    MaxTime,       \* bound: ticks
    MaxEvents      \* bound: requests, plus lost replies, aborts, Redis outages

Sids == 1..MaxSessions
NoSid == 0
Tokens == Sids \cup {NoSid}
Reqs == 1..MaxReqs

ASSUME SessionsAssumption ==
    /\ Legacy \subseteq Browsers
    /\ AccessTTL \in Nat \ {0}
    /\ LegacyTTL \in Nat \ {0}
    /\ RefreshTTL \in Nat \ {0}
    /\ MaxSessions \in Nat
    /\ MaxReqs \in Nat
    /\ MaxTime \in Nat
    /\ MaxEvents \in Nat

VARIABLES
    now,
    \* the sessions table
    row,       \* session -> "none", or whether revoked_at is set
    parent,    \* session -> rotated_from
    born,      \* session -> created_at, last_used_at, the access token's iat
    \* Redis
    until,     \* session -> when its denylist key expires
    redisUp,
    \* the browsers
    access,    \* browser -> session of its access cookie
    refresh,   \* browser -> session of its refresh cookie
    header,    \* browser -> when its localStorage token expires, 0 if it has none
    tab,       \* browser, tab -> what its API call is doing
    \* requests to /api/auth and their handlers
    kind, from, tok, pc, ids, reply, minted,
    \* bookkeeping of the model
    doubled,   \* tokens sent by two refresh requests in flight together
    lost,      \* tokens whose rotation the browser never learned of
    killed,    \* sessions that a logout denied while Redis answered
    cut,       \* logout-all request -> rows there were when it looked
    racing,    \* logout-all request -> tokens in rotation while it worked
    faults

rowVars == <<row, parent, born>>
redisVars == <<until, redisUp>>
browserVars == <<access, refresh, header, tab>>
reqVars == <<kind, from, tok, pc, ids, reply, minted>>
history == <<doubled, lost, killed, cut, racing>>
vars == <<now, rowVars, redisVars, browserVars, reqVars, history, faults>>

Kinds == {"none", "login", "refresh", "logout", "logout_all"}
PcStates == {"idle", "sent", "rotate", "select", "deny", "commit", "reply", "done"}
NoTab == <<"none", "none">>

TypeOK ==
    /\ now \in 0..MaxTime
    /\ row \in [Sids -> {"none", "active", "revoked"}]
    /\ parent \in [Sids -> Tokens]
    /\ born \in [Sids -> 0..MaxTime]
    /\ until \in [Sids -> 0..(MaxTime + AccessTTL)]
    /\ redisUp \in BOOLEAN
    /\ access \in [Browsers -> Tokens]
    /\ refresh \in [Browsers -> Tokens]
    /\ header \in [Browsers -> 0..(MaxTime + LegacyTTL)]
    /\ tab \in [Browsers \X Tabs -> {"idle", "refused", "waiting", "replay"}]
    /\ kind \in [Reqs -> Kinds]
    /\ from \in [Reqs -> (Browsers \X Tabs) \cup {NoTab}]
    /\ tok \in [Reqs -> Tokens]
    /\ pc \in [Reqs -> PcStates]
    /\ ids \in [Reqs -> SUBSET Sids]
    /\ reply \in [Reqs -> {"none", "set", "clear", "error"}]
    /\ minted \in [Reqs -> Tokens]
    /\ doubled \subseteq Sids
    /\ lost \subseteq Sids
    /\ killed \subseteq Sids
    /\ cut \in [Reqs -> SUBSET Sids]
    /\ racing \in [Reqs -> SUBSET Sids]
    /\ faults \in 0..MaxEvents

Init ==
    /\ now = 0
    /\ row = [s \in Sids |-> "none"]
    /\ parent = [s \in Sids |-> NoSid]
    /\ born = [s \in Sids |-> 0]
    /\ until = [s \in Sids |-> 0]
    /\ redisUp = TRUE
    /\ access = [b \in Browsers |-> NoSid]
    /\ refresh = [b \in Browsers |-> NoSid]
    /\ header = [b \in Browsers |-> 0]
    /\ tab = [c \in Browsers \X Tabs |-> "idle"]
    /\ kind = [r \in Reqs |-> "none"]
    /\ from = [r \in Reqs |-> NoTab]
    /\ tok = [r \in Reqs |-> NoSid]
    /\ pc = [r \in Reqs |-> "idle"]
    /\ ids = [r \in Reqs |-> {}]
    /\ reply = [r \in Reqs |-> "none"]
    /\ minted = [r \in Reqs |-> NoSid]
    /\ doubled = {}
    /\ lost = {}
    /\ killed = {}
    /\ cut = [r \in Reqs |-> {}]
    /\ racing = [r \in Reqs |-> {}]
    /\ faults = 0

------------------------------------------------------------------------------
(* Tokens and the access check                                             *)

Active == {s \in Sids : row[s] = "active"}

\* python-jose still accepts a token in the second in which it expires.
Unexpired(s) == now <= born[s] + AccessTTL

\* A Redis outage fails open.
IsDenied(s) == redisUp /\ now < until[s]

CookieAccepted(s) == s # NoSid /\ Unexpired(s) /\ ~IsDenied(s)

\* get_current_user: the Authorization header wins when there is one, and the
\* legacy token in it has no session that could be denied.
CallAccepted(b) ==
    IF header[b] # 0 THEN now <= header[b] ELSE CookieAccepted(access[b])

------------------------------------------------------------------------------
(* The browsers                                                            *)

\* The bound on what users and the environment start.
MayHappen == Cardinality({r \in Reqs : pc[r] # "idle"}) + faults < MaxEvents

InFlight(r) == pc[r] \notin {"idle", "done"}
NextReq(r) ==
    /\ pc[r] = "idle"
    /\ \A q \in Reqs : q < r => pc[q] # "idle"
    /\ MayHappen

Send(r, b, t, k) ==
    /\ NextReq(r)
    /\ kind' = [kind EXCEPT ![r] = k]
    /\ from' = [from EXCEPT ![r] = <<b, t>>]
    /\ tok' = [tok EXCEPT ![r] = refresh[b]]
    /\ pc' = [pc EXCEPT ![r] = IF k = "logout_all" THEN "select" ELSE "sent"]
    /\ UNCHANGED <<now, rowVars, redisVars, access, refresh, header, ids,
                   reply, minted, lost, killed, cut, racing, faults>>

SendLogin(r, b, t) == Send(r, b, t, "login") /\ UNCHANGED <<tab, doubled>>
SendLogout(r, b, t) == Send(r, b, t, "logout") /\ UNCHANGED <<tab, doubled>>

\* logout-all needs an accepted access token: get_current_user has run when the
\* handler is at _revoke_all_rows.
SendLogoutAll(r, b, t) ==
    /\ CallAccepted(b)
    /\ Send(r, b, t, "logout_all")
    /\ UNCHANGED <<tab, doubled>>

\* An API call of the tab is answered 401 ...
CallRefused(c) ==
    /\ tab[c] = "idle"
    /\ ~CallAccepted(c[1])
    /\ MayHappen
    /\ tab' = [tab EXCEPT ![c] = "refused"]
    /\ UNCHANGED <<now, rowVars, redisVars, access, refresh, header, reqVars,
                   history, faults>>

\* ... and the tab asks for new tokens, with the cookies there are by then.  Calls
\* of one tab share one refresh in flight (refreshInFlight), calls of two tabs
\* do not.
SendRefresh(r, b, t) ==
    /\ tab[<<b, t>>] = "refused"
    /\ Send(r, b, t, "refresh")
    /\ tab' = [tab EXCEPT ![<<b, t>>] = "waiting"]
    /\ doubled' = doubled \cup
           {s \in Sids : s = refresh[b] /\ \E q \in Reqs :
                             InFlight(q) /\ kind[q] = "refresh" /\ tok[q] = s}

\* Mutant of TakeCookies: only the access cookie of the reply is stored.
TakeAccessOnly(r, b) ==
    CASE reply[r] = "set" ->
            /\ access' = [access EXCEPT ![b] = minted[r]]
            /\ refresh' = IF kind[r] = "login"
                          THEN [refresh EXCEPT ![b] = minted[r]] ELSE refresh
      [] reply[r] = "clear" ->
            /\ access' = [access EXCEPT ![b] = NoSid]
            /\ refresh' = [refresh EXCEPT ![b] = NoSid]
      [] OTHER -> UNCHANGED <<access, refresh>>

\* The browser takes the reply in: cookies first, then what the page does.
TakeCookies(r, b) ==
    CASE reply[r] = "set" ->
            /\ access' = [access EXCEPT ![b] = minted[r]]
            /\ refresh' = [refresh EXCEPT ![b] = minted[r]]
      [] reply[r] = "clear" ->
            /\ access' = [access EXCEPT ![b] = NoSid]
            /\ refresh' = [refresh EXCEPT ![b] = NoSid]
      [] OTHER -> UNCHANGED <<access, refresh>>

\* A login stores the legacy token; a logout, and a refresh that failed, drop
\* it on the way to /login.
TakeHeader(r, b) ==
    header' =
        IF kind[r] = "login" /\ reply[r] = "set"
        THEN IF b \in Legacy THEN [header EXCEPT ![b] = now + LegacyTTL] ELSE header
        ELSE IF kind[r] = "logout" \/ (kind[r] = "refresh" /\ reply[r] # "set")
        THEN [header EXCEPT ![b] = 0] ELSE header

TakeTab(r) ==
    tab' = IF kind[r] # "refresh" THEN tab
           ELSE [tab EXCEPT ![from[r]] = IF reply[r] = "set" THEN "replay"
                                         ELSE "idle"]

Receive(r) ==
    /\ pc[r] = "reply"
    /\ TakeCookies(r, from[r][1])
    /\ TakeHeader(r, from[r][1])
    /\ TakeTab(r)
    /\ pc' = [pc EXCEPT ![r] = "done"]
    /\ kind' = [kind EXCEPT ![r] = IF @ = "logout_all" THEN @ ELSE "none"]
    /\ from' = [from EXCEPT ![r] = NoTab]
    /\ tok' = [tok EXCEPT ![r] = NoSid]
    /\ ids' = [ids EXCEPT ![r] = {}]
    /\ reply' = [reply EXCEPT ![r] = "none"]
    /\ minted' = [minted EXCEPT ![r] = NoSid]
    /\ UNCHANGED <<now, rowVars, redisVars, history, faults>>

\* The call that had been refused is sent once more, with the same headers.
Replay(c) ==
    /\ tab[c] = "replay"
    /\ tab' = [tab EXCEPT ![c] = "idle"]
    /\ header' = IF CallAccepted(c[1]) THEN header ELSE [header EXCEPT ![c[1]] = 0]
    /\ UNCHANGED <<now, rowVars, redisVars, access, refresh, reqVars, history,
                   faults>>

------------------------------------------------------------------------------
(* The handlers                                                            *)

\* The UPDATE of a logout-all keeps its rows locked until the commit.
LockedByOther(r, S) ==
    \E q \in Reqs \ {r} : /\ kind[q] = "logout_all" /\ pc[q] = "commit"
                          /\ ids[q] \cap S # {}

Answer(r, what) ==
    /\ pc' = [pc EXCEPT ![r] = "reply"]
    /\ reply' = [reply EXCEPT ![r] = what]

\* create_session and rotate insert a row and mint its tokens.
NewRow(r, s, old) ==
    /\ row[s] = "none"
    /\ \A q \in Sids : q < s => row[q] # "none"
    /\ parent' = [parent EXCEPT ![s] = old]
    /\ born' = [born EXCEPT ![s] = now]
    /\ minted' = [minted EXCEPT ![r] = s]

Login(r, s) ==
    /\ pc[r] = "sent" /\ kind[r] = "login"
    /\ NewRow(r, s, NoSid)
    /\ row' = [row EXCEPT ![s] = "active"]
    /\ Answer(r, "set")
    /\ UNCHANGED <<now, redisVars, browserVars, kind, from, tok, ids, history,
                   faults>>

\* rotate reads the row, without locking it, and decides.
ReadForRefresh(r) ==
    /\ pc[r] = "sent" /\ kind[r] = "refresh"
    /\ LET s == tok[r]
           next == CASE s = NoSid -> "reply"
                     [] s # NoSid /\ row[s] = "revoked" -> "select"
                     [] s # NoSid /\ row[s] # "revoked" ->
                            IF now > born[s] + RefreshTTL THEN "commit" ELSE "rotate"
       IN  /\ pc' = [pc EXCEPT ![r] = next]
           /\ reply' = [reply EXCEPT ![r] = IF next = "rotate" THEN "none"
                                            ELSE "clear"]
           /\ ids' = [ids EXCEPT ![r] = IF next = "commit" THEN {s} ELSE {}]
           /\ racing' = [q \in Reqs |->
                  IF next = "rotate" /\ kind[q] = "logout_all"
                                     /\ pc[q] \in {"deny", "commit"}
                  THEN racing[q] \cup {s} ELSE racing[q]]
    /\ UNCHANGED <<now, rowVars, redisVars, browserVars, kind, from, tok, minted,
                   doubled, lost, killed, cut, faults>>

\* Mutant of Rotate: the old row stays active.
RotateAndKeep(r, s) ==
    /\ pc[r] = "rotate"
    /\ ~LockedByOther(r, {tok[r]})
    /\ NewRow(r, s, tok[r])
    /\ row' = [row EXCEPT ![s] = "active"]
    /\ Answer(r, "set")
    /\ UNCHANGED <<now, redisVars, browserVars, kind, from, tok, ids, history,
                   faults>>

\* The old row is consumed, a new one chained to it, and both committed.
Rotate(r, s) ==
    /\ pc[r] = "rotate"
    /\ ~LockedByOther(r, {tok[r]})
    /\ NewRow(r, s, tok[r])
    /\ row' = [row EXCEPT ![s] = "active", ![tok[r]] = "revoked"]
    /\ Answer(r, "set")
    /\ UNCHANGED <<now, redisVars, browserVars, kind, from, tok, ids, history,
                   faults>>

\* revoke_by_refresh: nothing to do without a token or for a revoked row.
ReadForLogout(r) ==
    /\ pc[r] = "sent" /\ kind[r] = "logout"
    /\ LET live == {s \in Active : s = tok[r]}
       IN  /\ ids' = [ids EXCEPT ![r] = live]
           /\ pc' = [pc EXCEPT ![r] = IF live = {} THEN "reply" ELSE "deny"]
    /\ reply' = [reply EXCEPT ![r] = "clear"]
    /\ UNCHANGED <<now, rowVars, redisVars, browserVars, kind, from, tok, minted,
                   history, faults>>

\* Mutant of SelectActive: only the presented session is selected.
SelectPresented(r) ==
    /\ pc[r] = "select"
    /\ ids' = [ids EXCEPT ![r] = {s \in Active : s = tok[r]}]
    /\ reply' = [reply EXCEPT ![r] = "clear"]
    /\ IF kind[r] = "logout_all"
       THEN /\ pc' = [pc EXCEPT ![r] = "deny"]
            /\ cut' = [cut EXCEPT ![r] = {s \in Sids : row[s] # "none"}]
            /\ racing' = [racing EXCEPT ![r] =
                             {s \in Sids : \E q \in Reqs : pc[q] = "rotate"
                                                           /\ tok[q] = s}]
       ELSE pc' = [pc EXCEPT ![r] = "commit"] /\ UNCHANGED <<cut, racing>>
    /\ UNCHANGED <<now, rowVars, redisVars, browserVars, kind, from, tok, minted,
                   doubled, lost, killed, faults>>

\* _revoke_all_rows: the ids of the active rows are read first.
SelectActive(r) ==
    /\ pc[r] = "select"
    /\ ids' = [ids EXCEPT ![r] = Active]
    /\ reply' = [reply EXCEPT ![r] = "clear"]
    /\ IF kind[r] = "logout_all"
       THEN /\ pc' = [pc EXCEPT ![r] = "deny"]
            /\ cut' = [cut EXCEPT ![r] = {s \in Sids : row[s] # "none"}]
            /\ racing' = [racing EXCEPT ![r] =
                             {s \in Sids : \E q \in Reqs : pc[q] = "rotate"
                                                           /\ tok[q] = s}]
       ELSE pc' = [pc EXCEPT ![r] = "commit"] /\ UNCHANGED <<cut, racing>>
    /\ UNCHANGED <<now, rowVars, redisVars, browserVars, kind, from, tok, minted,
                   doubled, lost, killed, faults>>

\* Mutant of Deny: only the session of the presented token is denied.
DenyPresented(r) ==
    /\ pc[r] = "deny"
    /\ kind[r] = "logout_all" => ~LockedByOther(r, ids[r])
    /\ until' = [s \in Sids |-> IF redisUp /\ s = tok[r] THEN now + AccessTTL
                                ELSE until[s]]
    /\ killed' = IF redisUp THEN killed \cup ids[r] ELSE killed
    /\ pc' = [pc EXCEPT ![r] = "commit"]
    /\ UNCHANGED <<now, rowVars, redisUp, browserVars, kind, from, tok, ids,
                   reply, minted, doubled, lost, cut, racing, faults>>

\* Mutant of Deny: the key is kept as long as a refresh token lives.
DenyForAMonth(r) ==
    /\ pc[r] = "deny"
    /\ kind[r] = "logout_all" => ~LockedByOther(r, ids[r])
    /\ until' = [s \in Sids |-> IF redisUp /\ s \in ids[r] THEN now + RefreshTTL
                                ELSE until[s]]
    /\ killed' = IF redisUp THEN killed \cup ids[r] ELSE killed
    /\ pc' = [pc EXCEPT ![r] = "commit"]
    /\ UNCHANGED <<now, rowVars, redisUp, browserVars, kind, from, tok, ids,
                   reply, minted, doubled, lost, cut, racing, faults>>

\* deny_session for every id, after a logout-all's UPDATE and before the commit;
\* a Redis error is swallowed.
Deny(r) ==
    /\ pc[r] = "deny"
    /\ kind[r] = "logout_all" => ~LockedByOther(r, ids[r])
    /\ until' = [s \in Sids |-> IF redisUp /\ s \in ids[r] THEN now + AccessTTL
                                ELSE until[s]]
    /\ killed' = IF redisUp THEN killed \cup ids[r] ELSE killed
    /\ pc' = [pc EXCEPT ![r] = "commit"]
    /\ UNCHANGED <<now, rowVars, redisUp, browserVars, kind, from, tok, ids,
                   reply, minted, doubled, lost, cut, racing, faults>>

CommitRevoke(r) ==
    /\ pc[r] = "commit"
    /\ ~LockedByOther(r, ids[r])
    /\ row' = [s \in Sids |-> IF s \in ids[r] THEN "revoked" ELSE row[s]]
    /\ pc' = [pc EXCEPT ![r] = "reply"]
    /\ UNCHANGED <<now, parent, born, redisVars, browserVars, kind, from, tok,
                   ids, reply, minted, history, faults>>

------------------------------------------------------------------------------
(* Time and faults                                                         *)

Tick ==
    /\ now < MaxTime
    /\ now' = now + 1
    /\ UNCHANGED <<rowVars, redisVars, browserVars, reqVars, history, faults>>

Fault == MayHappen /\ faults' = faults + 1

\* The connection breaks: the handler has run, the browser sees an error.
LoseReply(r) ==
    /\ pc[r] = "reply"
    /\ Fault
    /\ reply' = [reply EXCEPT ![r] = "error"]
    /\ lost' = lost \cup {s \in Sids : s = tok[r] /\ kind[r] = "refresh"
                                       /\ reply[r] = "set"}
    /\ UNCHANGED <<now, rowVars, redisVars, browserVars, kind, from, tok, pc,
                   ids, minted, doubled, killed, cut, racing>>

\* The API process dies before the commit: its transaction rolls back, keys it
\* has put on the denylist stay.
Abort(r) ==
    /\ pc[r] \in {"sent", "rotate", "select", "deny", "commit"}
    /\ Fault
    /\ Answer(r, "error")
    /\ ids' = [ids EXCEPT ![r] = {}]
    /\ cut' = [cut EXCEPT ![r] = {}]
    /\ UNCHANGED <<now, rowVars, redisVars, browserVars, kind, from, tok, minted,
                   doubled, lost, killed, racing>>

RedisFails ==
    /\ redisUp
    /\ Fault
    /\ redisUp' = FALSE
    /\ UNCHANGED <<now, rowVars, until, browserVars, reqVars, history>>

RedisRecovers ==
    /\ ~redisUp
    /\ redisUp' = TRUE
    /\ UNCHANGED <<now, rowVars, until, browserVars, reqVars, history, faults>>

------------------------------------------------------------------------------
Browse(b, t) ==
    \/ \E r \in Reqs : \/ SendLogin(r, b, t)
                       \/ SendLogout(r, b, t)
                       \/ SendLogoutAll(r, b, t)
                       \/ SendRefresh(r, b, t)
    \/ CallRefused(<<b, t>>)
    \/ Replay(<<b, t>>)

Handle(r) ==
    \/ \E s \in Sids : Login(r, s) \/ Rotate(r, s)
    \/ ReadForRefresh(r)
    \/ ReadForLogout(r)
    \/ SelectActive(r)
    \/ Deny(r)
    \/ CommitRevoke(r)
    \/ Receive(r)
    \/ LoseReply(r)
    \/ Abort(r)

Next ==
    \/ \E b \in Browsers, t \in Tabs : Browse(b, t)
    \/ \E r \in Reqs : Handle(r)
    \/ Tick
    \/ RedisFails
    \/ RedisRecovers

Spec == Init /\ [][Next]_vars

------------------------------------------------------------------------------
(* Correctness                                                             *)

Rotated(s) == \E c \in Sids : parent[c] = s

\* A browser is accused of replaying a rotated token only if two of its tabs
\* have sent that token together or the reply with the new one was lost: one
\* tab with single-flight refresh never logs its own user out.
ReuseIsExplained ==
    \A r \in Reqs :
        /\ kind[r] = "refresh" /\ pc[r] \in {"select", "commit"}
        /\ tok[r] # NoSid /\ Rotated(tok[r])
        => tok[r] \in doubled \cup lost

\* Two sessions never descend from the same refresh token, except when two
\* requests with that token were in flight together: a token sent again later,
\* after a lost reply too, is refused.
NoForkWithoutOverlap ==
    \A s, q \in Sids : s # q /\ parent[s] = parent[q] /\ parent[s] # NoSid
                           => parent[s] \in doubled

Finished(r) == kind[r] = "logout_all" /\ pc[r] \in {"reply", "done"}

\* After a logout-all no session that it found is active ever again, and a
\* session rotated from one of these is active only if that rotation was under
\* way while logout-all worked.
LogoutAllLeavesOnlyRacers ==
    \A r \in Reqs : Finished(r) =>
        /\ cut[r] \cap Active = {}
        /\ \A s \in Active : parent[s] \in cut[r] => parent[s] \in racing[r]

\* "log out all devices takes effect before the 15-min access TTL elapses": the
\* access token of every session that a logout read as active is refused for
\* the whole time it is valid, whatever outages, aborts and later requests
\* follow, as long as Redis answers.
KilledIsRefused ==
    \A s \in killed : redisUp /\ now < born[s] + AccessTTL => ~CookieAccepted(s)

(* What docstrings say, and the code does not.                             *)

\* "Revoke all of the user's sessions": no session that descends from one that
\* logout-all found is active afterwards.
LogoutAllIsFinal ==
    \A r \in Reqs : Finished(r) => \A s \in Active : parent[s] \notin cut[r]

\* "replay once with the new access cookie": the replay after a refresh is
\* accepted while the new access cookie is.
ReplayIsAccepted ==
    \A c \in Browsers \X Tabs :
        tab[c] = "replay" /\ CookieAccepted(access[c[1]]) => CallAccepted(c[1])
==============================================================================
