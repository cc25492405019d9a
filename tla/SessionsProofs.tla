---------------------------- MODULE SessionsProofs ----------------------------
(***************************************************************************)
(* Theorems about Sessions for any number of browsers, tabs, sessions and  *)
(* requests, and any token lifetimes.  The properties are not inductive:   *)
(* they are strengthened in layers (rows, time, requests, forks, owners,   *)
(* reuse, cut), each kept with the help of the ones before it.             *)
(***************************************************************************)
EXTENDS Sessions, FiniteSetTheorems, TLAPS

\* The bound on events leaves room for the fault it allows.
LEMMA Spare == MayHappen /\ faults \in Nat => faults + 1 \in 0..MaxEvents
<1>1. IsFiniteSet(Reqs)
  BY FS_Interval, SessionsAssumption DEF Reqs
<1>2. Cardinality({r \in Reqs : pc[r] # "idle"}) \in Nat
  BY <1>1, FS_Subset, FS_CardinalityType
<1> QED
  BY <1>2, SessionsAssumption DEF MayHappen

------------------------------------------------------------------------------
(* The layers of the invariant                                           *)

\* What the browsers, the requests, the chain of rotations and the bookkeeping
\* name are rows of the table; the row that another was rotated from is revoked.
RowInv ==
    /\ \A s \in Sids : parent[s] # NoSid => /\ row[s] # "none"
                                            /\ row[parent[s]] = "revoked"
    /\ \A b \in Browsers : refresh[b] # NoSid => row[refresh[b]] # "none"
    /\ \A r \in Reqs :
        /\ tok[r] # NoSid => row[tok[r]] # "none"
        /\ minted[r] # NoSid => row[minted[r]] # "none"
        /\ \A s \in ids[r] \cup cut[r] : row[s] # "none"
    /\ \A s \in killed : row[s] # "none"

\* No session is born later than now, and the key on the denylist of a killed
\* one lasts at least as long as the access token minted with it.
TimeInv ==
    /\ \A s \in Sids : born[s] <= now
    /\ \A s \in killed : born[s] + AccessTTL <= until[s]

\* Where a request can be: what is in flight has a sender, the branches of
\* rotate belong to refreshes, only a reply carries tokens that are new, and only
\* a logout-all that has looked has a cut.
PcInv ==
    \A r \in Reqs :
        /\ InFlight(r) => from[r] \in Browsers \X Tabs
        /\ pc[r] \in {"idle", "done"} => tok[r] = NoSid
        /\ pc[r] \in {"rotate", "select"} /\ kind[r] # "logout_all" => kind[r] = "refresh"
        /\ pc[r] = "rotate" => kind[r] = "refresh" /\ tok[r] # NoSid
        /\ minted[r] # NoSid => pc[r] = "reply"
        /\ cut[r] # {} => /\ kind[r] = "logout_all"
                          /\ pc[r] \in {"deny", "commit", "reply", "done"}

\* A token that two refreshes in flight carry has been noted as doubled, and so
\* has one that is about to be rotated a second time.
ForkInv ==
    /\ \A r, q \in Reqs :
        /\ r # q /\ InFlight(r) /\ InFlight(q) /\ tok[r] = tok[q] /\ tok[r] # NoSid
        /\ kind[r] = "refresh" /\ kind[q] = "refresh"
        => tok[r] \in doubled
    /\ \A r \in Reqs : pc[r] = "rotate" /\ Rotated(tok[r]) => tok[r] \in doubled
    /\ NoForkWithoutOverlap

\* A refresh token has one owner: no two browsers have it, the requests that
\* carry it come from the browser that has it, and a token that is on its way
\* in a reply is nowhere else.
OwnerInv ==
    /\ \A b, d \in Browsers : refresh[b] = refresh[d] /\ refresh[b] # NoSid => b = d
    /\ \A r \in Reqs, b \in Browsers :
        InFlight(r) /\ kind[r] = "refresh" /\ tok[r] = refresh[b] /\ tok[r] # NoSid
        => from[r][1] = b
    /\ \A r \in Reqs : minted[r] # NoSid =>
        /\ \A b \in Browsers : refresh[b] # minted[r]
        /\ \A q \in Reqs : tok[q] # minted[r] /\ (q # r => minted[q] # minted[r])

\* A token that was rotated, neither doubled nor lost: its browser still has it
\* only while the reply that replaces it is on the way, no other refresh with it
\* is undecided, and it is not itself still on the way to a browser.
ReuseInv ==
    \A p \in Sids : Rotated(p) /\ p \notin doubled \cup lost =>
        /\ \A b \in Browsers : refresh[b] = p =>
            \E r \in Reqs : /\ kind[r] = "refresh" /\ tok[r] = p /\ from[r][1] = b
                            /\ pc[r] = "reply" /\ reply[r] = "set"
        /\ \A r \in Reqs : InFlight(r) /\ kind[r] = "refresh" /\ tok[r] = p
                           => pc[r] = "reply"
        /\ \A r \in Reqs : minted[r] # p

\* What a logout-all found: until it commits the active part of it is what it
\* will revoke, afterwards nothing of it is active, and a rotation from it that
\* is pending or done since is on record as racing.
CutInv ==
    \A r \in Reqs :
        /\ pc[r] \in {"deny", "commit"} => cut[r] \cap Active \subseteq ids[r]
        /\ pc[r] \in {"reply", "done"} => cut[r] \cap Active = {}
        /\ \A s \in Active : parent[s] \in cut[r] =>
             \/ s \in cut[r]
             \/ parent[s] \in racing[r]
        /\ \A q \in Reqs : pc[q] = "rotate" /\ tok[q] \in cut[r] => tok[q] \in racing[r]

------------------------------------------------------------------------------
(* Lemmas for steps that disturb little                                  *)

\* A step that only adds rows, revokes rows and chains new rows to revoked ones ...
Keep ==
    /\ UNCHANGED <<refresh, tok, ids, cut, killed>>
    /\ \A q \in Sids : /\ row[q] # "none" => row'[q] # "none"
                       /\ row[q] = "revoked" => row'[q] = "revoked"
    /\ \A q \in Sids : \/ parent'[q] = parent[q]
                       \/ /\ parent'[q] \in Sids /\ row'[parent'[q]] = "revoked"
                          /\ row'[q] # "none"
    /\ \A q \in Reqs : \/ minted'[q] = minted[q]
                       \/ minted'[q] \in Sids /\ row'[minted'[q]] # "none"

\* ... keeps RowInv.
LEMMA RowsStay ==
    ASSUME TypeOK, RowInv, Keep
    PROVE  RowInv'
<1>1. /\ killed \subseteq Sids
      /\ \A q \in Reqs : ids[q] \cup cut[q] \subseteq Sids
      /\ \A q \in Reqs : tok[q] \in Tokens /\ minted[q] \in Tokens
      /\ \A b \in Browsers : refresh[b] \in Tokens
      /\ \A q \in Sids : parent[q] \in Tokens
  BY DEF TypeOK
<1>2. \A q \in Sids : parent'[q] # NoSid => row'[q] # "none" /\ row'[parent'[q]] = "revoked"
  BY <1>1 DEF RowInv, Tokens, Keep
<1>3. \A b \in Browsers : refresh[b] # NoSid => row'[refresh[b]] # "none"
  BY <1>1 DEF RowInv, Tokens, Keep
<1>4. \A q \in Reqs : /\ tok[q] # NoSid => row'[tok[q]] # "none"
                      /\ minted'[q] # NoSid => row'[minted'[q]] # "none"
                      /\ \A s \in ids[q] \cup cut[q] : row'[s] # "none"
  BY <1>1 DEF RowInv, Tokens, Keep
<1>5. \A s \in killed : row'[s] # "none"
  BY <1>1 DEF RowInv, Keep
<1> QED
  BY <1>2, <1>3, <1>4, <1>5 DEF RowInv, Keep

\* A step that starts no request and no rotation keeps ForkInv.
LEMMA ForkStays ==
    ASSUME ForkInv, UNCHANGED <<parent, tok, kind, doubled>>,
           \A q \in Reqs : /\ pc'[q] = "rotate" => pc[q] = "rotate"
                           /\ pc'[q] \notin {"idle", "done"} =>
                                pc[q] \notin {"idle", "done"}
    PROVE  ForkInv'
<1>1. \A q \in Reqs : InFlight(q)' => InFlight(q)
  BY DEF InFlight
<1>2. NoForkWithoutOverlap'
  BY DEF ForkInv, NoForkWithoutOverlap
<1>3. \A r \in Reqs : pc'[r] = "rotate" /\ Rotated(tok[r])' => tok[r] \in doubled
  BY DEF ForkInv, Rotated
<1>4. \A r, q \in Reqs :
        /\ r # q /\ InFlight(r)' /\ InFlight(q)' /\ tok[r] = tok[q] /\ tok[r] # NoSid
        /\ kind[r] = "refresh" /\ kind[q] = "refresh"
        => tok[r] \in doubled
  BY <1>1 DEF ForkInv
<1> QED
  BY <1>2, <1>3, <1>4 DEF ForkInv, Rotated, InFlight

\* A step that rotates nothing, delivers nothing and sends no refresh ...
ReuseKeep ==
    /\ refresh' = refresh
    /\ doubled \subseteq doubled' /\ lost \subseteq lost'
    /\ \A s \in Sids : parent'[s] = parent[s] \/ parent'[s] = NoSid
    /\ \A r \in Reqs :
        /\ pc[r] = "reply" => /\ pc'[r] = "reply" /\ kind'[r] = kind[r] /\ tok'[r] = tok[r]
                              /\ from'[r] = from[r] /\ reply'[r] = reply[r]
        /\ InFlight(r)' /\ kind'[r] = "refresh" =>
             InFlight(r) /\ kind[r] = "refresh" /\ tok'[r] = tok[r]
        /\ minted'[r] = minted[r] \/ row[minted'[r]] = "none"

\* ... keeps ReuseInv.
LEMMA ReuseStays ==
    ASSUME RowInv, ReuseInv, ReuseKeep
    PROVE  ReuseInv'
<1> SUFFICES ASSUME NEW p \in Sids, Rotated(p)', p \notin doubled' \cup lost'
             PROVE  /\ \A b \in Browsers : refresh'[b] = p =>
                        \E r \in Reqs : /\ kind'[r] = "refresh" /\ tok'[r] = p
                                        /\ from'[r][1] = b /\ pc'[r] = "reply" /\ reply'[r] = "set"
                    /\ \A r \in Reqs : InFlight(r)' /\ kind'[r] = "refresh" /\ tok'[r] = p
                                       => pc'[r] = "reply"
                    /\ \A r \in Reqs : minted'[r] # p
  BY DEF ReuseInv, Rotated, InFlight
<1>1. p # NoSid
  BY DEF Sids, NoSid
<1>2. Rotated(p) /\ p \notin doubled \cup lost /\ row[p] = "revoked"
  BY <1>1 DEF Rotated, ReuseKeep, RowInv
<1>3. /\ \A b \in Browsers : refresh[b] = p =>
            \E r \in Reqs : /\ kind[r] = "refresh" /\ tok[r] = p /\ from[r][1] = b
                            /\ pc[r] = "reply" /\ reply[r] = "set"
      /\ \A r \in Reqs : InFlight(r) /\ kind[r] = "refresh" /\ tok[r] = p
                         => pc[r] = "reply"
      /\ \A r \in Reqs : minted[r] # p
  BY <1>2 DEF ReuseInv
<1> QED
  BY <1>2, <1>3 DEF ReuseKeep

\* What the access check, the clock and Redis do leaves the rows, the refresh
\* cookies and the requests alone.
Quiet == UNCHANGED <<rowVars, refresh, reqVars, history>>

\* The cases of a step that the invariants distinguish.
LEMMA StepCases ==
    ASSUME [Next]_vars
    PROVE  \/ \E r \in Reqs, b \in Browsers, t \in Tabs :
                \/ \E k \in {"login", "logout", "logout_all"} :
                      Send(r, b, t, k) /\ UNCHANGED doubled
                \/ SendRefresh(r, b, t)
           \/ \E r \in Reqs : \/ \E s \in Sids : Login(r, s) \/ Rotate(r, s)
                              \/ ReadForRefresh(r) \/ ReadForLogout(r)
                              \/ SelectActive(r) \/ Deny(r) \/ CommitRevoke(r)
                              \/ Receive(r) \/ LoseReply(r) \/ Abort(r)
           \/ Quiet
<1>1. ASSUME NEW r \in Reqs, NEW b \in Browsers, NEW t \in Tabs,
             SendLogin(r, b, t) \/ SendLogout(r, b, t) \/ SendLogoutAll(r, b, t)
      PROVE  \E k \in {"login", "logout", "logout_all"} :
                Send(r, b, t, k) /\ UNCHANGED doubled
  BY <1>1 DEF SendLogin, SendLogout, SendLogoutAll
<1>2. ASSUME NEW c \in Browsers \X Tabs, CallRefused(c) \/ Replay(c) PROVE Quiet
  BY <1>2 DEF CallRefused, Replay, Quiet
<1>3. Tick \/ RedisFails \/ RedisRecovers \/ UNCHANGED vars => Quiet
  BY DEF Tick, RedisFails, RedisRecovers, vars, browserVars, Quiet
<1> QED
  BY <1>1, <1>2, <1>3 DEF Next, Browse, Handle

------------------------------------------------------------------------------
(* One lemma per layer: every action keeps it                            *)

\* Every action keeps the types.
LEMMA TypeStep ==
    ASSUME TypeOK, PcInv, [Next]_vars
    PROVE  TypeOK'
<1>0. TypeOK /\ PcInv /\ SessionsAssumption
  BY SessionsAssumption
<1>1. ASSUME NEW r \in Reqs, NEW b \in Browsers, NEW t \in Tabs, SendLogin(r, b, t)
      PROVE  TypeOK'
  BY <1>0, Spare, <1>1
     DEF SessionsAssumption, TypeOK, NoTab, Kinds, PcStates, Tokens, Active, InFlight,
         PcInv, SendLogin, Send, NextReq, rowVars, redisVars
<1>2. ASSUME NEW r \in Reqs, NEW b \in Browsers, NEW t \in Tabs, SendLogout(r, b, t)
      PROVE  TypeOK'
  BY <1>0, Spare, <1>2
     DEF SessionsAssumption, TypeOK, NoTab, Kinds, PcStates, Tokens, Active, InFlight,
         PcInv, SendLogout, Send, NextReq, rowVars, redisVars
<1>3. ASSUME NEW r \in Reqs, NEW b \in Browsers, NEW t \in Tabs, SendLogoutAll(r, b, t)
      PROVE  TypeOK'
  BY <1>0, Spare, <1>3
     DEF SessionsAssumption, TypeOK, NoTab, Kinds, PcStates, Tokens, Active, InFlight,
         PcInv, SendLogoutAll, Send, NextReq, rowVars, redisVars
<1>4. ASSUME NEW r \in Reqs, NEW b \in Browsers, NEW t \in Tabs, SendRefresh(r, b, t)
      PROVE  TypeOK'
  BY <1>0, Spare, <1>4
     DEF SessionsAssumption, TypeOK, NoTab, Kinds, PcStates, Tokens, Active, InFlight,
         PcInv, SendRefresh, Send, NextReq, rowVars, redisVars
<1>5. ASSUME NEW c \in Browsers \X Tabs, CallRefused(c) PROVE TypeOK'
  BY <1>0, Spare, <1>5
     DEF SessionsAssumption, TypeOK, NoTab, Kinds, PcStates, Tokens, Active, InFlight,
         PcInv, CallRefused, rowVars, redisVars, reqVars, history
<1>6. ASSUME NEW c \in Browsers \X Tabs, Replay(c) PROVE TypeOK'
  BY <1>0, Spare, <1>6
     DEF SessionsAssumption, TypeOK, NoTab, Kinds, PcStates, Tokens, Active, InFlight,
         PcInv, Replay, rowVars, redisVars, reqVars, history
<1>7. ASSUME NEW r \in Reqs, NEW s \in Sids, Login(r, s) PROVE TypeOK'
  BY <1>0, Spare, <1>7
     DEF SessionsAssumption, TypeOK, NoTab, Kinds, PcStates, Tokens, Active, InFlight,
         PcInv, Login, NewRow, Answer, redisVars, browserVars, history
<1>8. ASSUME NEW r \in Reqs, NEW s \in Sids, Rotate(r, s) PROVE TypeOK'
  BY <1>0, Spare, <1>8
     DEF SessionsAssumption, TypeOK, NoTab, Kinds, PcStates, Tokens, Active, InFlight,
         PcInv, Rotate, NewRow, Answer, redisVars, browserVars, history
<1>9. ASSUME NEW r \in Reqs, ReadForRefresh(r) PROVE TypeOK'
  BY <1>0, Spare, <1>9
     DEF SessionsAssumption, TypeOK, NoTab, Kinds, PcStates, Tokens, Active, InFlight,
         PcInv, ReadForRefresh, rowVars, redisVars, browserVars
<1>10. ASSUME NEW r \in Reqs, ReadForLogout(r) PROVE TypeOK'
  BY <1>0, Spare, <1>10
     DEF SessionsAssumption, TypeOK, NoTab, Kinds, PcStates, Tokens, Active, InFlight,
         PcInv, ReadForLogout, rowVars, redisVars, browserVars, history
<1>11. ASSUME NEW r \in Reqs, SelectActive(r) PROVE TypeOK'
  <2>1. cut' \in [Reqs -> SUBSET Sids] /\ racing' \in [Reqs -> SUBSET Sids]
    <3> DEFINE found == {s \in Sids : row[s] # "none"}
               turning == {s \in Sids : \E q \in Reqs : pc[q] = "rotate" /\ tok[q] = s}
    <3>1. CASE kind[r] = "logout_all"
      <4>1. /\ cut' = [cut EXCEPT ![r] = found]
            /\ racing' = [racing EXCEPT ![r] = turning]
        BY <1>11, <3>1 DEF SelectActive
      <4>2. found \in SUBSET Sids /\ turning \in SUBSET Sids
        OBVIOUS
      <4> HIDE DEF found, turning
      <4>3. cut \in [Reqs -> SUBSET Sids] /\ racing \in [Reqs -> SUBSET Sids]
        BY <1>0 DEF TypeOK
      <4> QED
        BY <4>1, <4>2, <4>3
    <3>2. CASE kind[r] # "logout_all"
      BY <1>0, <1>11, <3>2 DEF SelectActive, TypeOK
    <3> QED
      BY <3>1, <3>2
  <2>2. pc' \in [Reqs -> PcStates]
    <3>1. \E p \in {"deny", "commit"} : pc' = [pc EXCEPT ![r] = p]
      BY <1>11 DEF SelectActive
    <3>2. pc \in [Reqs -> PcStates]
      BY <1>0 DEF TypeOK
    <3> QED
      BY <3>1, <3>2 DEF PcStates
  <2>3. /\ ids' \in [Reqs -> SUBSET Sids]
        /\ reply' \in [Reqs -> {"none", "set", "clear", "error"}]
    BY <1>0, <1>11 DEF SelectActive, TypeOK, Active
  <2> QED
    BY <1>0, <1>11, <2>1, <2>2, <2>3
       DEF SelectActive, TypeOK, rowVars, redisVars, browserVars
<1>12. ASSUME NEW r \in Reqs, Deny(r) PROVE TypeOK'
  BY <1>0, Spare, <1>12
     DEF SessionsAssumption, TypeOK, NoTab, Kinds, PcStates, Tokens, Active, InFlight,
         PcInv, Deny, rowVars, browserVars
<1>13. ASSUME NEW r \in Reqs, CommitRevoke(r) PROVE TypeOK'
  BY <1>0, Spare, <1>13
     DEF SessionsAssumption, TypeOK, NoTab, Kinds, PcStates, Tokens, Active, InFlight,
         PcInv, CommitRevoke, redisVars, browserVars, history
<1>14. ASSUME NEW r \in Reqs, Receive(r) PROVE TypeOK'
  <2>1. from[r] \in Browsers \X Tabs /\ now + LegacyTTL \in 0..(MaxTime + LegacyTTL)
    BY <1>0, <1>14 DEF Receive, PcInv, InFlight, TypeOK, SessionsAssumption
  <2>2. access' \in [Browsers -> Tokens] /\ refresh' \in [Browsers -> Tokens]
    <3>1. /\ access \in [Browsers -> Tokens] /\ refresh \in [Browsers -> Tokens]
          /\ minted[r] \in Tokens /\ NoSid \in Tokens
      BY <1>0 DEF TypeOK, Tokens
    <3>2. TakeCookies(r, from[r][1])
      BY <1>14 DEF Receive
    <3>3. CASE reply[r] = "set"
      <4>1. /\ access' = [access EXCEPT ![from[r][1]] = minted[r]]
            /\ refresh' = [refresh EXCEPT ![from[r][1]] = minted[r]]
        BY <3>2, <3>3 DEF TakeCookies
      <4> QED
        BY <3>1, <4>1
    <3>4. CASE reply[r] = "clear"
      <4>1. /\ access' = [access EXCEPT ![from[r][1]] = NoSid]
            /\ refresh' = [refresh EXCEPT ![from[r][1]] = NoSid]
        BY <3>2, <3>4 DEF TakeCookies
      <4> QED
        BY <3>1, <4>1
    <3>5. CASE reply[r] \notin {"set", "clear"}
      BY <3>1, <3>2, <3>5 DEF TakeCookies
    <3> QED
      BY <3>3, <3>4, <3>5
  <2>3. header' \in [Browsers -> 0..(MaxTime + LegacyTTL)]
    BY <1>0, <1>14, <2>1 DEF Receive, TakeHeader, TypeOK, SessionsAssumption
  <2>4. tab' \in [Browsers \X Tabs -> {"idle", "refused", "waiting", "replay"}]
    BY <1>0, <1>14, <2>1 DEF Receive, TakeTab, TypeOK
  <2>5. /\ pc' \in [Reqs -> PcStates] /\ kind' \in [Reqs -> Kinds]
        /\ from' \in [Reqs -> (Browsers \X Tabs) \cup {NoTab}]
        /\ tok' \in [Reqs -> Tokens] /\ ids' \in [Reqs -> SUBSET Sids]
        /\ reply' \in [Reqs -> {"none", "set", "clear", "error"}]
        /\ minted' \in [Reqs -> Tokens]
    BY <1>0, <1>14 DEF Receive, TypeOK, NoTab, Kinds, PcStates, Tokens
  <2> QED
    BY <1>0, <1>14, <2>2, <2>3, <2>4, <2>5
       DEF Receive, TypeOK, rowVars, redisVars, history
<1>15. ASSUME NEW r \in Reqs, LoseReply(r) PROVE TypeOK'
  BY <1>0, Spare, <1>15
     DEF SessionsAssumption, TypeOK, NoTab, Kinds, PcStates, Tokens, Active, InFlight,
         PcInv, LoseReply, Fault, rowVars, redisVars, browserVars
<1>16. ASSUME NEW r \in Reqs, Abort(r) PROVE TypeOK'
  BY <1>0, Spare, <1>16
     DEF SessionsAssumption, TypeOK, NoTab, Kinds, PcStates, Tokens, Active, InFlight,
         PcInv, Abort, Answer, Fault, rowVars, redisVars, browserVars
<1>17. ASSUME Tick PROVE TypeOK'
  BY <1>0, Spare, <1>17
     DEF SessionsAssumption, TypeOK, NoTab, Kinds, PcStates, Tokens, Active, InFlight,
         PcInv, Tick, rowVars, redisVars, browserVars, reqVars, history
<1>18. ASSUME RedisFails PROVE TypeOK'
  <2>1. faults' \in 0..MaxEvents
    BY <1>0, <1>18, Spare DEF RedisFails, Fault, TypeOK
  <2>2. redisUp' \in BOOLEAN
    BY <1>18 DEF RedisFails
  <2> QED
    BY <1>0, <1>18, <2>1, <2>2
       DEF RedisFails, TypeOK, rowVars, browserVars, reqVars, history
<1>19. ASSUME RedisRecovers PROVE TypeOK'
  BY <1>0, Spare, <1>19
     DEF SessionsAssumption, TypeOK, NoTab, Kinds, PcStates, Tokens, Active, InFlight,
         PcInv, RedisRecovers, rowVars, browserVars, reqVars, history
<1>20. ASSUME UNCHANGED vars PROVE TypeOK'
  BY <1>0, Spare, <1>20
     DEF SessionsAssumption, TypeOK, NoTab, Kinds, PcStates, Tokens, Active, InFlight,
         PcInv, vars, rowVars, redisVars, browserVars, reqVars, history
<1> QED
  BY <1>1, <1>2, <1>3, <1>4, <1>5, <1>6, <1>7, <1>8, <1>9, <1>10, <1>11, <1>12,
     <1>13, <1>14, <1>15, <1>16, <1>17, <1>18, <1>19, <1>20
     DEF Next, Browse, Handle

\* Every action keeps RowInv: rows are never deleted and a revoked row stays so.
LEMMA RowStep ==
    ASSUME TypeOK, PcInv, RowInv, [Next]_vars
    PROVE  RowInv'
<1>0. TypeOK /\ PcInv /\ RowInv /\ \A s \in Sids : s # NoSid
  BY DEF Sids, NoSid
<1>1. ASSUME NEW r \in Reqs, NEW b \in Browsers, NEW t \in Tabs,
             NEW k \in {"login", "logout", "logout_all"},
             Send(r, b, t, k), UNCHANGED doubled
      PROVE  RowInv'
  BY <1>0, <1>1
     DEF TypeOK, Tokens, NoSid, Sids, Active, PcInv, RowInv, Send, NextReq, rowVars,
         redisVars
<1>2. ASSUME NEW r \in Reqs, NEW b \in Browsers, NEW t \in Tabs, SendRefresh(r, b, t)
      PROVE  RowInv'
  BY <1>0, <1>2
     DEF TypeOK, Tokens, NoSid, Sids, Active, PcInv, RowInv, SendRefresh, Send, NextReq,
         rowVars, redisVars
<1>3. ASSUME NEW r \in Reqs, NEW s \in Sids, Login(r, s) PROVE RowInv'
  BY <1>0, <1>3
     DEF TypeOK, Tokens, NoSid, Sids, Active, PcInv, RowInv, Login, NewRow, Answer,
         redisVars, browserVars, history
<1>4. ASSUME NEW r \in Reqs, NEW s \in Sids, Rotate(r, s) PROVE RowInv'
  <2>1. tok[r] \in Sids /\ row[tok[r]] # "none" /\ tok[r] # s
    BY <1>0, <1>4 DEF Rotate, NewRow, PcInv, RowInv, TypeOK, Tokens
  <2>2. \A q \in Sids : /\ row[q] # "none" => row'[q] # "none"
                        /\ row[q] = "revoked" => row'[q] = "revoked"
    BY <1>0, <1>4, <2>1 DEF Rotate, NewRow, TypeOK
  <2>3. /\ row'[s] = "active" /\ row'[tok[r]] = "revoked"
        /\ parent' = [parent EXCEPT ![s] = tok[r]]
        /\ minted' = [minted EXCEPT ![r] = s]
        /\ UNCHANGED <<refresh, tok, ids, cut, killed>>
    BY <1>0, <1>4, <2>1 DEF Rotate, NewRow, TypeOK, browserVars, history
  <2>4. UNCHANGED <<refresh, tok, ids, cut, killed>>
    BY <2>3
  <2>5. parent \in [Sids -> Tokens] /\ minted \in [Reqs -> Tokens]
    BY <1>0 DEF TypeOK
  <2>6. \A q \in Sids : \/ parent'[q] = parent[q]
                        \/ /\ parent'[q] \in Sids /\ row'[parent'[q]] = "revoked"
                           /\ row'[q] # "none"
    BY <2>1, <2>3, <2>5
  <2>7. \A q \in Reqs : \/ minted'[q] = minted[q]
                        \/ minted'[q] \in Sids /\ row'[minted'[q]] # "none"
    BY <2>3, <2>5
  <2>8. Keep
    BY <2>2, <2>4, <2>6, <2>7 DEF Keep
  <2> QED
    BY <1>0, <2>8, RowsStay
<1>5. ASSUME NEW r \in Reqs, ReadForRefresh(r) PROVE RowInv'
  BY <1>0, <1>5
     DEF TypeOK, Tokens, NoSid, Sids, Active, PcInv, RowInv, ReadForRefresh, rowVars,
         redisVars, browserVars
<1>6. ASSUME NEW r \in Reqs, ReadForLogout(r) PROVE RowInv'
  BY <1>0, <1>6
     DEF TypeOK, Tokens, NoSid, Sids, Active, PcInv, RowInv, ReadForLogout, rowVars,
         redisVars, browserVars, history
<1>7. ASSUME NEW r \in Reqs, SelectActive(r) PROVE RowInv'
  BY <1>0, <1>7
     DEF TypeOK, Tokens, NoSid, Sids, Active, PcInv, RowInv, SelectActive, rowVars,
         redisVars, browserVars
<1>8. ASSUME NEW r \in Reqs, Deny(r) PROVE RowInv'
  BY <1>0, <1>8
     DEF TypeOK, Tokens, NoSid, Sids, Active, PcInv, RowInv, Deny, rowVars, browserVars
<1>9. ASSUME NEW r \in Reqs, CommitRevoke(r) PROVE RowInv'
  <2>1. /\ UNCHANGED <<parent, refresh, tok, minted, ids, cut, killed>>
    BY <1>9 DEF CommitRevoke, browserVars, history
  <2>2. \A s \in Sids : /\ row[s] # "none" => row'[s] # "none"
                        /\ row[s] = "revoked" => row'[s] = "revoked"
    BY <1>0, <1>9 DEF CommitRevoke, TypeOK
  <2>3. Keep
    BY <2>1, <2>2 DEF Keep
  <2> QED
    BY <1>0, <2>3, RowsStay
<1>10. ASSUME NEW r \in Reqs, Receive(r) PROVE RowInv'
  <2>1. /\ UNCHANGED <<row, parent, killed, cut>>
        /\ \A q \in Reqs : /\ tok'[q] \in {tok[q], NoSid}
                           /\ minted'[q] \in {minted[q], NoSid}
                           /\ ids'[q] \subseteq ids[q]
    BY <1>0, <1>10 DEF Receive, rowVars, history, TypeOK
  <2>2. \A b \in Browsers : refresh'[b] \in {refresh[b], NoSid, minted[r]}
    BY <1>0, <1>10 DEF Receive, TakeCookies, TypeOK
  <2> QED
    BY <1>0, <2>1, <2>2 DEF RowInv
<1>11. ASSUME NEW r \in Reqs, LoseReply(r) PROVE RowInv'
  BY <1>0, <1>11
     DEF TypeOK, Tokens, NoSid, Sids, Active, PcInv, RowInv, LoseReply, Fault, rowVars,
         redisVars, browserVars
<1>12. ASSUME NEW r \in Reqs, Abort(r) PROVE RowInv'
  BY <1>0, <1>12
     DEF TypeOK, Tokens, NoSid, Sids, Active, PcInv, RowInv, Abort, Answer, Fault,
         rowVars, redisVars, browserVars
<1>13. ASSUME Quiet PROVE RowInv'
  BY <1>0, <1>13
     DEF Quiet, TypeOK, Tokens, NoSid, Sids, Active, PcInv, RowInv, rowVars, reqVars,
         history
<1> QED
  BY <1>1, <1>2, <1>3, <1>4, <1>5, <1>6, <1>7, <1>8, <1>9, <1>10, <1>11, <1>12, <1>13,
     StepCases

\* Every action keeps TimeInv: deny_session counts AccessTTL from now, and no
\* session was born later than now; a new session is not yet killed.
LEMMA TimeStep ==
    ASSUME TypeOK, RowInv, TimeInv, [Next]_vars
    PROVE  TimeInv'
<1>0. TimeInv /\ RowInv /\ now \in Nat /\ AccessTTL \in Nat
      /\ row \in [Sids -> {"none", "active", "revoked"}] /\ killed \subseteq Sids
      /\ born \in [Sids -> Nat] /\ until \in [Sids -> Nat] /\ ids \in [Reqs -> SUBSET Sids]
      /\ \A s \in killed : row[s] # "none"
  BY SessionsAssumption DEF TypeOK, RowInv
<1>1. ASSUME NEW r \in Reqs, NEW b \in Browsers, NEW t \in Tabs, SendLogin(r, b, t)
      PROVE  TimeInv'
  BY <1>0, <1>1 DEF TimeInv, SendLogin, Send, NextReq, rowVars, redisVars
<1>2. ASSUME NEW r \in Reqs, NEW b \in Browsers, NEW t \in Tabs, SendLogout(r, b, t)
      PROVE  TimeInv'
  BY <1>0, <1>2 DEF TimeInv, SendLogout, Send, NextReq, rowVars, redisVars
<1>3. ASSUME NEW r \in Reqs, NEW b \in Browsers, NEW t \in Tabs, SendLogoutAll(r, b, t)
      PROVE  TimeInv'
  BY <1>0, <1>3 DEF TimeInv, SendLogoutAll, Send, NextReq, rowVars, redisVars
<1>4. ASSUME NEW r \in Reqs, NEW b \in Browsers, NEW t \in Tabs, SendRefresh(r, b, t)
      PROVE  TimeInv'
  BY <1>0, <1>4 DEF TimeInv, SendRefresh, Send, NextReq, rowVars, redisVars
<1>5. ASSUME NEW c \in Browsers \X Tabs, CallRefused(c) PROVE TimeInv'
  BY <1>0, <1>5 DEF TimeInv, CallRefused, rowVars, redisVars, reqVars, history
<1>6. ASSUME NEW c \in Browsers \X Tabs, Replay(c) PROVE TimeInv'
  BY <1>0, <1>6 DEF TimeInv, Replay, rowVars, redisVars, reqVars, history
<1>7. ASSUME NEW r \in Reqs, NEW s \in Sids, Login(r, s) PROVE TimeInv'
  BY <1>0, <1>7 DEF TimeInv, Login, NewRow, Answer, redisVars, browserVars, history
<1>8. ASSUME NEW r \in Reqs, NEW s \in Sids, Rotate(r, s) PROVE TimeInv'
  BY <1>0, <1>8 DEF TimeInv, Rotate, NewRow, Answer, redisVars, browserVars, history
<1>9. ASSUME NEW r \in Reqs, ReadForRefresh(r) PROVE TimeInv'
  BY <1>0, <1>9 DEF TimeInv, ReadForRefresh, rowVars, redisVars, browserVars
<1>10. ASSUME NEW r \in Reqs, ReadForLogout(r) PROVE TimeInv'
  BY <1>0, <1>10 DEF TimeInv, ReadForLogout, rowVars, redisVars, browserVars, history
<1>11. ASSUME NEW r \in Reqs, SelectActive(r) PROVE TimeInv'
  BY <1>0, <1>11 DEF TimeInv, SelectActive, rowVars, redisVars, browserVars
<1>12. ASSUME NEW r \in Reqs, Deny(r) PROVE TimeInv'
  BY <1>0, <1>12 DEF TimeInv, Deny, rowVars, browserVars
<1>13. ASSUME NEW r \in Reqs, CommitRevoke(r) PROVE TimeInv'
  BY <1>0, <1>13 DEF TimeInv, CommitRevoke, redisVars, browserVars, history
<1>14. ASSUME NEW r \in Reqs, Receive(r) PROVE TimeInv'
  BY <1>0, <1>14
     DEF TimeInv, Receive, TakeCookies, TakeHeader, TakeTab, rowVars, redisVars, history
<1>15. ASSUME NEW r \in Reqs, LoseReply(r) PROVE TimeInv'
  BY <1>0, <1>15 DEF TimeInv, LoseReply, Fault, rowVars, redisVars, browserVars
<1>16. ASSUME NEW r \in Reqs, Abort(r) PROVE TimeInv'
  BY <1>0, <1>16 DEF TimeInv, Abort, Answer, Fault, rowVars, redisVars, browserVars
<1>17. ASSUME Tick PROVE TimeInv'
  BY <1>0, <1>17 DEF TimeInv, Tick, rowVars, redisVars, browserVars, reqVars, history
<1>18. ASSUME RedisFails PROVE TimeInv'
  BY <1>0, <1>18 DEF TimeInv, RedisFails, Fault, rowVars, browserVars, reqVars, history
<1>19. ASSUME RedisRecovers PROVE TimeInv'
  BY <1>0, <1>19 DEF TimeInv, RedisRecovers, rowVars, browserVars, reqVars, history
<1>20. ASSUME UNCHANGED vars PROVE TimeInv'
  BY <1>0, <1>20 DEF TimeInv, vars, rowVars, redisVars, browserVars, reqVars, history
<1> QED
  BY <1>1, <1>2, <1>3, <1>4, <1>5, <1>6, <1>7, <1>8, <1>9, <1>10, <1>11, <1>12,
     <1>13, <1>14, <1>15, <1>16, <1>17, <1>18, <1>19, <1>20
     DEF Next, Browse, Handle

\* Every action keeps PcInv.
LEMMA PcStep ==
    ASSUME TypeOK, PcInv, [Next]_vars
    PROVE  PcInv'
<1>0. TypeOK /\ PcInv
  OBVIOUS
<1>1. ASSUME NEW r \in Reqs, NEW b \in Browsers, NEW t \in Tabs,
             NEW k \in {"login", "logout", "logout_all"},
             Send(r, b, t, k), UNCHANGED doubled
      PROVE  PcInv'
  BY <1>0, <1>1
     DEF TypeOK, Tokens, NoSid, InFlight, PcInv, Send, NextReq, rowVars, redisVars
<1>2. ASSUME NEW r \in Reqs, NEW b \in Browsers, NEW t \in Tabs, SendRefresh(r, b, t)
      PROVE  PcInv'
  BY <1>0, <1>2
     DEF TypeOK, Tokens, NoSid, InFlight, PcInv, SendRefresh, Send, NextReq, rowVars,
         redisVars
<1>3. ASSUME NEW r \in Reqs, NEW s \in Sids, Login(r, s) PROVE PcInv'
  BY <1>0, <1>3
     DEF TypeOK, Tokens, NoSid, InFlight, PcInv, Login, NewRow, Answer, redisVars,
         browserVars, history
<1>4. ASSUME NEW r \in Reqs, NEW s \in Sids, Rotate(r, s) PROVE PcInv'
  BY <1>0, <1>4
     DEF TypeOK, Tokens, NoSid, InFlight, PcInv, Rotate, NewRow, Answer, redisVars,
         browserVars, history
<1>5. ASSUME NEW r \in Reqs, ReadForRefresh(r) PROVE PcInv'
  BY <1>0, <1>5
     DEF TypeOK, Tokens, NoSid, InFlight, PcInv, ReadForRefresh, rowVars, redisVars,
         browserVars
<1>6. ASSUME NEW r \in Reqs, ReadForLogout(r) PROVE PcInv'
  BY <1>0, <1>6
     DEF TypeOK, Tokens, NoSid, InFlight, PcInv, ReadForLogout, rowVars, redisVars,
         browserVars, history
<1>7. ASSUME NEW r \in Reqs, SelectActive(r) PROVE PcInv'
  BY <1>0, <1>7
     DEF TypeOK, Tokens, NoSid, InFlight, PcInv, SelectActive, rowVars, redisVars,
         browserVars
<1>8. ASSUME NEW r \in Reqs, Deny(r) PROVE PcInv'
  BY <1>0, <1>8 DEF TypeOK, Tokens, NoSid, InFlight, PcInv, Deny, rowVars, browserVars
<1>9. ASSUME NEW r \in Reqs, CommitRevoke(r) PROVE PcInv'
  BY <1>0, <1>9
     DEF TypeOK, Tokens, NoSid, InFlight, PcInv, CommitRevoke, redisVars, browserVars,
         history
<1>10. ASSUME NEW r \in Reqs, Receive(r) PROVE PcInv'
  BY <1>0, <1>10
     DEF TypeOK, Tokens, NoSid, InFlight, PcInv, Receive, TakeCookies, TakeHeader,
         TakeTab, rowVars, redisVars, history
<1>11. ASSUME NEW r \in Reqs, LoseReply(r) PROVE PcInv'
  BY <1>0, <1>11
     DEF TypeOK, Tokens, NoSid, InFlight, PcInv, LoseReply, Fault, rowVars, redisVars,
         browserVars
<1>12. ASSUME NEW r \in Reqs, Abort(r) PROVE PcInv'
  BY <1>0, <1>12
     DEF TypeOK, Tokens, NoSid, InFlight, PcInv, Abort, Answer, Fault, rowVars,
         redisVars, browserVars
<1>13. ASSUME Quiet PROVE PcInv'
  BY <1>0, <1>13
     DEF Quiet, TypeOK, Tokens, NoSid, InFlight, PcInv, rowVars, reqVars, history
<1> QED
  BY <1>1, <1>2, <1>3, <1>4, <1>5, <1>6, <1>7, <1>8, <1>9, <1>10, <1>11, <1>12, <1>13,
     StepCases

\* Every action keeps ForkInv: a second rotation of a token needs a request that
\* read its row before the first was committed, so both were in flight.
LEMMA ForkStep ==
    ASSUME TypeOK, PcInv, RowInv, ForkInv, [Next]_vars
    PROVE  ForkInv'
<1>0. TypeOK /\ PcInv /\ RowInv /\ ForkInv /\ \A s \in Sids : s # NoSid
  BY DEF Sids, NoSid
<1>1. ASSUME NEW r \in Reqs, NEW b \in Browsers, NEW t \in Tabs,
             NEW k \in {"login", "logout", "logout_all"},
             Send(r, b, t, k), UNCHANGED doubled
      PROVE  ForkInv'
  BY <1>0, <1>1
     DEF TypeOK, Tokens, InFlight, PcInv, RowInv, ForkInv, Rotated,
         NoForkWithoutOverlap, Send, NextReq, rowVars, redisVars
<1>2. ASSUME NEW r \in Reqs, NEW b \in Browsers, NEW t \in Tabs, SendRefresh(r, b, t)
      PROVE  ForkInv'
  BY <1>0, <1>2
     DEF TypeOK, Tokens, InFlight, PcInv, RowInv, ForkInv, Rotated,
         NoForkWithoutOverlap, SendRefresh, Send, NextReq, rowVars, redisVars
<1>3. ASSUME NEW r \in Reqs, NEW s \in Sids, Login(r, s) PROVE ForkInv'
  BY <1>0, <1>3
     DEF TypeOK, Tokens, InFlight, PcInv, RowInv, ForkInv, Rotated,
         NoForkWithoutOverlap, Login, NewRow, Answer, redisVars, browserVars, history
<1>4. ASSUME NEW r \in Reqs, NEW s \in Sids, Rotate(r, s) PROVE ForkInv'
  BY <1>0, <1>4
     DEF TypeOK, Tokens, InFlight, PcInv, RowInv, ForkInv, Rotated,
         NoForkWithoutOverlap, Rotate, NewRow, Answer, redisVars, browserVars, history
<1>5. ASSUME NEW r \in Reqs, ReadForRefresh(r) PROVE ForkInv'
  BY <1>0, <1>5
     DEF TypeOK, Tokens, InFlight, PcInv, RowInv, ForkInv, Rotated,
         NoForkWithoutOverlap, ReadForRefresh, rowVars, redisVars, browserVars
<1>6. ASSUME NEW r \in Reqs, ReadForLogout(r) PROVE ForkInv'
  BY <1>0, <1>6
     DEF TypeOK, Tokens, InFlight, PcInv, RowInv, ForkInv, Rotated,
         NoForkWithoutOverlap, ReadForLogout, rowVars, redisVars, browserVars, history
<1>7. ASSUME NEW r \in Reqs, SelectActive(r) PROVE ForkInv'
  <2>1. /\ UNCHANGED <<parent, tok, kind, doubled>>
        /\ \A q \in Reqs : /\ pc'[q] = "rotate" => pc[q] = "rotate"
                           /\ pc'[q] \notin {"idle", "done"} =>
                                pc[q] \notin {"idle", "done"}
    BY <1>0, <1>7 DEF SelectActive, rowVars, TypeOK
  <2> QED
    BY <1>0, <2>1, ForkStays
<1>8. ASSUME NEW r \in Reqs, Deny(r) PROVE ForkInv'
  BY <1>0, <1>8
     DEF TypeOK, Tokens, InFlight, PcInv, RowInv, ForkInv, Rotated,
         NoForkWithoutOverlap, Deny, rowVars, browserVars
<1>9. ASSUME NEW r \in Reqs, CommitRevoke(r) PROVE ForkInv'
  BY <1>0, <1>9
     DEF TypeOK, Tokens, InFlight, PcInv, RowInv, ForkInv, Rotated,
         NoForkWithoutOverlap, CommitRevoke, redisVars, browserVars, history
<1>10. ASSUME NEW r \in Reqs, Receive(r) PROVE ForkInv'
  BY <1>0, <1>10
     DEF TypeOK, Tokens, InFlight, PcInv, RowInv, ForkInv, Rotated,
         NoForkWithoutOverlap, Receive, TakeCookies, TakeHeader, TakeTab, rowVars,
         redisVars, history
<1>11. ASSUME NEW r \in Reqs, LoseReply(r) PROVE ForkInv'
  BY <1>0, <1>11
     DEF TypeOK, Tokens, InFlight, PcInv, RowInv, ForkInv, Rotated,
         NoForkWithoutOverlap, LoseReply, Fault, rowVars, redisVars, browserVars
<1>12. ASSUME NEW r \in Reqs, Abort(r) PROVE ForkInv'
  BY <1>0, <1>12
     DEF TypeOK, Tokens, InFlight, PcInv, RowInv, ForkInv, Rotated,
         NoForkWithoutOverlap, Abort, Answer, Fault, rowVars, redisVars, browserVars
<1>13. ASSUME Quiet PROVE ForkInv'
  BY <1>0, <1>13
     DEF Quiet, TypeOK, Tokens, InFlight, PcInv, RowInv, ForkInv, Rotated,
         NoForkWithoutOverlap, rowVars, reqVars, history
<1> QED
  BY <1>1, <1>2, <1>3, <1>4, <1>5, <1>6, <1>7, <1>8, <1>9, <1>10, <1>11, <1>12, <1>13,
     StepCases

\* Every action keeps OwnerInv: a token is minted for one reply, and a browser
\* takes that reply in once.
LEMMA OwnerStep ==
    ASSUME TypeOK, PcInv, RowInv, OwnerInv, [Next]_vars
    PROVE  OwnerInv'
<1>0. TypeOK /\ PcInv /\ RowInv /\ OwnerInv /\ \A s \in Sids : s # NoSid
  BY DEF Sids, NoSid
<1>1. ASSUME NEW r \in Reqs, NEW b \in Browsers, NEW t \in Tabs,
             NEW k \in {"login", "logout", "logout_all"},
             Send(r, b, t, k), UNCHANGED doubled
      PROVE  OwnerInv'
  BY <1>0, <1>1
     DEF TypeOK, Tokens, InFlight, PcInv, RowInv, OwnerInv, Send, NextReq, rowVars,
         redisVars
<1>2. ASSUME NEW r \in Reqs, NEW b \in Browsers, NEW t \in Tabs, SendRefresh(r, b, t)
      PROVE  OwnerInv'
  BY <1>0, <1>2
     DEF TypeOK, Tokens, InFlight, PcInv, RowInv, OwnerInv, SendRefresh, Send, NextReq,
         rowVars, redisVars
<1>3. ASSUME NEW r \in Reqs, NEW s \in Sids, Login(r, s) PROVE OwnerInv'
  BY <1>0, <1>3
     DEF TypeOK, Tokens, InFlight, PcInv, RowInv, OwnerInv, Login, NewRow, Answer,
         redisVars, browserVars, history
<1>4. ASSUME NEW r \in Reqs, NEW s \in Sids, Rotate(r, s) PROVE OwnerInv'
  BY <1>0, <1>4
     DEF TypeOK, Tokens, InFlight, PcInv, RowInv, OwnerInv, Rotate, NewRow, Answer,
         redisVars, browserVars, history
<1>5. ASSUME NEW r \in Reqs, ReadForRefresh(r) PROVE OwnerInv'
  BY <1>0, <1>5
     DEF TypeOK, Tokens, InFlight, PcInv, RowInv, OwnerInv, ReadForRefresh, rowVars,
         redisVars, browserVars
<1>6. ASSUME NEW r \in Reqs, ReadForLogout(r) PROVE OwnerInv'
  BY <1>0, <1>6
     DEF TypeOK, Tokens, InFlight, PcInv, RowInv, OwnerInv, ReadForLogout, rowVars,
         redisVars, browserVars, history
<1>7. ASSUME NEW r \in Reqs, SelectActive(r) PROVE OwnerInv'
  BY <1>0, <1>7
     DEF TypeOK, Tokens, InFlight, PcInv, RowInv, OwnerInv, SelectActive, rowVars,
         redisVars, browserVars
<1>8. ASSUME NEW r \in Reqs, Deny(r) PROVE OwnerInv'
  BY <1>0, <1>8
     DEF TypeOK, Tokens, InFlight, PcInv, RowInv, OwnerInv, Deny, rowVars, browserVars
<1>9. ASSUME NEW r \in Reqs, CommitRevoke(r) PROVE OwnerInv'
  BY <1>0, <1>9
     DEF TypeOK, Tokens, InFlight, PcInv, RowInv, OwnerInv, CommitRevoke, redisVars,
         browserVars, history
<1>10. ASSUME NEW r \in Reqs, Receive(r) PROVE OwnerInv'
  <2> DEFINE b == from[r][1]
  <2>1. b \in Browsers /\ minted[r] \in Tokens
    BY <1>0, <1>10 DEF Receive, PcInv, InFlight, TypeOK
  <2> HIDE DEF b
  <2>2. \/ refresh' = refresh
        \/ refresh' = [refresh EXCEPT ![b] = NoSid]
        \/ refresh' = [refresh EXCEPT ![b] = minted[r]]
    BY <1>10 DEF Receive, TakeCookies, b
  <2>3. /\ tok' = [tok EXCEPT ![r] = NoSid] /\ minted' = [minted EXCEPT ![r] = NoSid]
        /\ \A q \in Reqs \ {r} : /\ pc'[q] = pc[q] /\ kind'[q] = kind[q]
                                 /\ from'[q] = from[q]
    BY <1>0, <1>10 DEF Receive, TypeOK
  <2>4. /\ refresh \in [Browsers -> Tokens] /\ tok \in [Reqs -> Tokens]
        /\ minted \in [Reqs -> Tokens]
    BY <1>0 DEF TypeOK
  <2>5. \A c, d \in Browsers : refresh'[c] = refresh'[d] /\ refresh'[c] # NoSid => c = d
    BY <1>0, <2>1, <2>2, <2>4 DEF OwnerInv
  <2>6. \A q \in Reqs, c \in Browsers :
          InFlight(q)' /\ kind'[q] = "refresh" /\ tok'[q] = refresh'[c] /\ tok'[q] # NoSid
          => from'[q][1] = c
    BY <1>0, <2>1, <2>2, <2>3, <2>4 DEF OwnerInv, InFlight
  <2>7. \A q \in Reqs : minted'[q] # NoSid =>
          /\ \A c \in Browsers : refresh'[c] # minted'[q]
          /\ \A u \in Reqs : tok'[u] # minted'[q] /\ (u # q => minted'[u] # minted'[q])
    BY <1>0, <2>1, <2>2, <2>3, <2>4 DEF OwnerInv
  <2> QED
    BY <2>5, <2>6, <2>7 DEF OwnerInv
<1>11. ASSUME NEW r \in Reqs, LoseReply(r) PROVE OwnerInv'
  BY <1>0, <1>11
     DEF TypeOK, Tokens, InFlight, PcInv, RowInv, OwnerInv, LoseReply, Fault, rowVars,
         redisVars, browserVars
<1>12. ASSUME NEW r \in Reqs, Abort(r) PROVE OwnerInv'
  BY <1>0, <1>12
     DEF TypeOK, Tokens, InFlight, PcInv, RowInv, OwnerInv, Abort, Answer, Fault,
         rowVars, redisVars, browserVars
<1>13. ASSUME Quiet PROVE OwnerInv'
  BY <1>0, <1>13
     DEF Quiet, TypeOK, Tokens, InFlight, PcInv, RowInv, OwnerInv, rowVars, reqVars,
         history
<1> QED
  BY <1>1, <1>2, <1>3, <1>4, <1>5, <1>6, <1>7, <1>8, <1>9, <1>10, <1>11, <1>12, <1>13,
     StepCases

\* Every action keeps CutInv: no action makes an old row active, and a rotation
\* that starts while logout-all is at work enters racing.
LEMMA CutStep ==
    ASSUME TypeOK, PcInv, RowInv, CutInv, [Next]_vars
    PROVE  CutInv'
<1>0. TypeOK /\ PcInv /\ RowInv /\ CutInv /\ \A s \in Sids : s # NoSid
  BY DEF Sids, NoSid
<1>1. ASSUME NEW r \in Reqs, NEW b \in Browsers, NEW t \in Tabs,
             NEW k \in {"login", "logout", "logout_all"},
             Send(r, b, t, k), UNCHANGED doubled
      PROVE  CutInv'
  BY <1>0, <1>1
     DEF TypeOK, Tokens, Active, PcInv, RowInv, CutInv, Send, NextReq, rowVars,
         redisVars
<1>2. ASSUME NEW r \in Reqs, NEW b \in Browsers, NEW t \in Tabs, SendRefresh(r, b, t)
      PROVE  CutInv'
  BY <1>0, <1>2
     DEF TypeOK, Tokens, Active, PcInv, RowInv, CutInv, SendRefresh, Send, NextReq,
         rowVars, redisVars
<1>3. ASSUME NEW r \in Reqs, NEW s \in Sids, Login(r, s) PROVE CutInv'
  BY <1>0, <1>3
     DEF TypeOK, Tokens, Active, PcInv, RowInv, CutInv, Login, NewRow, Answer,
         redisVars, browserVars, history
<1>4. ASSUME NEW r \in Reqs, NEW s \in Sids, Rotate(r, s) PROVE CutInv'
  BY <1>0, <1>4
     DEF TypeOK, Tokens, Active, PcInv, RowInv, CutInv, Rotate, NewRow, Answer,
         redisVars, browserVars, history
<1>5. ASSUME NEW r \in Reqs, ReadForRefresh(r) PROVE CutInv'
  BY <1>0, <1>5
     DEF TypeOK, Tokens, Active, PcInv, RowInv, CutInv, ReadForRefresh, rowVars,
         redisVars, browserVars
<1>6. ASSUME NEW r \in Reqs, ReadForLogout(r) PROVE CutInv'
  BY <1>0, <1>6
     DEF TypeOK, Tokens, Active, PcInv, RowInv, CutInv, ReadForLogout, rowVars,
         redisVars, browserVars, history
<1>7. ASSUME NEW r \in Reqs, SelectActive(r) PROVE CutInv'
  BY <1>0, <1>7
     DEF TypeOK, Tokens, Active, PcInv, RowInv, CutInv, SelectActive, rowVars,
         redisVars, browserVars
<1>8. ASSUME NEW r \in Reqs, Deny(r) PROVE CutInv'
  BY <1>0, <1>8
     DEF TypeOK, Tokens, Active, PcInv, RowInv, CutInv, Deny, rowVars, browserVars
<1>9. ASSUME NEW r \in Reqs, CommitRevoke(r) PROVE CutInv'
  BY <1>0, <1>9
     DEF TypeOK, Tokens, Active, PcInv, RowInv, CutInv, CommitRevoke, redisVars,
         browserVars, history
<1>10. ASSUME NEW r \in Reqs, Receive(r) PROVE CutInv'
  BY <1>0, <1>10
     DEF TypeOK, Tokens, Active, PcInv, RowInv, CutInv, Receive, TakeCookies,
         TakeHeader, TakeTab, rowVars, redisVars, history
<1>11. ASSUME NEW r \in Reqs, LoseReply(r) PROVE CutInv'
  BY <1>0, <1>11
     DEF TypeOK, Tokens, Active, PcInv, RowInv, CutInv, LoseReply, Fault, rowVars,
         redisVars, browserVars
<1>12. ASSUME NEW r \in Reqs, Abort(r) PROVE CutInv'
  BY <1>0, <1>12
     DEF TypeOK, Tokens, Active, PcInv, RowInv, CutInv, Abort, Answer, Fault, rowVars,
         redisVars, browserVars
<1>13. ASSUME Quiet PROVE CutInv'
  BY <1>0, <1>13
     DEF Quiet, TypeOK, Tokens, Active, PcInv, RowInv, CutInv, rowVars, reqVars, history
<1> QED
  BY <1>1, <1>2, <1>3, <1>4, <1>5, <1>6, <1>7, <1>8, <1>9, <1>10, <1>11, <1>12, <1>13,
     StepCases

\* Every action keeps ReuseInv: rotation leaves the token with a browser that is
\* about to be told, and losing that reply is noted.
LEMMA ReuseStep ==
    ASSUME TypeOK, PcInv, RowInv, ForkInv, OwnerInv, ReuseInv, [Next]_vars
    PROVE  ReuseInv'
<1>0. /\ TypeOK /\ PcInv /\ RowInv /\ ForkInv /\ OwnerInv /\ ReuseInv
      /\ \A s \in Sids : s # NoSid
  BY DEF Sids, NoSid
<1>1. ASSUME NEW r \in Reqs, NEW b \in Browsers, NEW t \in Tabs,
             NEW k \in {"login", "logout", "logout_all"},
             Send(r, b, t, k), UNCHANGED doubled
      PROVE  ReuseInv'
  BY <1>0, <1>1
     DEF TypeOK, Tokens, InFlight, PcInv, RowInv, ReuseInv, Rotated, Send, NextReq,
         rowVars, redisVars
<1>2. ASSUME NEW r \in Reqs, NEW b \in Browsers, NEW t \in Tabs, SendRefresh(r, b, t)
      PROVE  ReuseInv'
  BY <1>0, <1>2
     DEF TypeOK, Tokens, InFlight, PcInv, RowInv, ReuseInv, Rotated, SendRefresh, Send,
         NextReq, rowVars, redisVars
<1>3. ASSUME NEW r \in Reqs, NEW s \in Sids, Login(r, s) PROVE ReuseInv'
  <2>1. ReuseKeep
    BY <1>0, <1>3
       DEF ReuseKeep, InFlight, PcInv, RowInv, Login, NewRow, Answer, redisVars,
           browserVars, history, TypeOK, Tokens
  <2> QED
    BY <1>0, <2>1, ReuseStays
<1>4. ASSUME NEW r \in Reqs, NEW s \in Sids, Rotate(r, s) PROVE ReuseInv'
  <2> DEFINE old == tok[r]
  <2>1. /\ old \in Sids /\ pc[r] = "rotate" /\ kind[r] = "refresh" /\ InFlight(r)
        /\ row[old] # "none" /\ row[s] = "none"
    BY <1>0, <1>4 DEF Rotate, NewRow, PcInv, RowInv, TypeOK, Tokens, InFlight
  <2>2. /\ parent' = [parent EXCEPT ![s] = old] /\ minted' = [minted EXCEPT ![r] = s]
        /\ pc' = [pc EXCEPT ![r] = "reply"] /\ reply' = [reply EXCEPT ![r] = "set"]
        /\ UNCHANGED <<refresh, kind, from, tok, doubled, lost>>
    BY <1>4 DEF Rotate, NewRow, Answer, browserVars, history
  <2>3. /\ parent \in [Sids -> Tokens] /\ minted \in [Reqs -> Tokens]
        /\ pc \in [Reqs -> PcStates]
        /\ reply \in [Reqs -> {"none", "set", "clear", "error"}]
    BY <1>0 DEF TypeOK
  <2> HIDE DEF old
  <2>4. ASSUME NEW p \in Sids, Rotated(p)', p \notin doubled \cup lost
        PROVE  /\ \A b \in Browsers : refresh[b] = p =>
                    \E q \in Reqs : /\ kind[q] = "refresh" /\ tok[q] = p
                                    /\ from[q][1] = b
                                    /\ pc'[q] = "reply" /\ reply'[q] = "set"
               /\ \A q \in Reqs : InFlight(q)' /\ kind[q] = "refresh" /\ tok[q] = p
                                  => pc'[q] = "reply"
               /\ \A q \in Reqs : minted'[q] # p
    <3>1. \A q \in Reqs \ {r} : pc'[q] = pc[q] /\ reply'[q] = reply[q]
                                /\ minted'[q] = minted[q] /\ (InFlight(q)' <=> InFlight(q))
      BY <2>2, <2>3 DEF InFlight
    <3>2. pc'[r] = "reply" /\ reply'[r] = "set" /\ minted'[r] = s
      BY <2>2, <2>3
    <3>3. CASE p = old
      <4>1. \A b \in Browsers : refresh[b] = p => from[r][1] = b
        BY <1>0, <2>1, <3>3 DEF OwnerInv, old
      <4>2. \A q \in Reqs \ {r} : ~(InFlight(q) /\ kind[q] = "refresh" /\ tok[q] = p)
        BY <1>0, <2>1, <2>4, <3>3 DEF ForkInv, old
      <4>3. \A q \in Reqs : minted[q] # p
        BY <1>0, <2>1, <3>3 DEF OwnerInv, old
      <4>4. s # p
        BY <2>1, <3>3
      <4> QED
        BY <2>1, <3>1, <3>2, <3>3, <4>1, <4>2, <4>3, <4>4 DEF old
    <3>4. CASE p # old
      <4>1. Rotated(p)
        BY <2>2, <2>3, <2>4, <3>4 DEF Rotated
      <4>2. p # s
        BY <1>0, <2>1, <4>1 DEF Rotated, RowInv
      <4>3. /\ \A b \in Browsers : refresh[b] = p =>
                 \E q \in Reqs : /\ kind[q] = "refresh" /\ tok[q] = p /\ from[q][1] = b
                                 /\ pc[q] = "reply" /\ reply[q] = "set"
            /\ \A q \in Reqs : InFlight(q) /\ kind[q] = "refresh" /\ tok[q] = p
                               => pc[q] = "reply"
            /\ \A q \in Reqs : minted[q] # p
        BY <1>0, <2>4, <4>1 DEF ReuseInv
      <4> QED
        BY <2>1, <3>1, <3>2, <4>2, <4>3
    <3> QED
      BY <3>3, <3>4
  <2> QED
    BY <2>2, <2>4 DEF ReuseInv
<1>5. ASSUME NEW r \in Reqs, ReadForRefresh(r) PROVE ReuseInv'
  <2>1. ReuseKeep
    BY <1>0, <1>5
       DEF ReuseKeep, InFlight, PcInv, RowInv, ReadForRefresh, rowVars, browserVars,
           TypeOK
  <2> QED
    BY <1>0, <2>1, ReuseStays
<1>6. ASSUME NEW r \in Reqs, ReadForLogout(r) PROVE ReuseInv'
  <2>1. ReuseKeep
    BY <1>0, <1>6
       DEF ReuseKeep, InFlight, PcInv, RowInv, ReadForLogout, rowVars, browserVars,
           history, TypeOK
  <2> QED
    BY <1>0, <2>1, ReuseStays
<1>7. ASSUME NEW r \in Reqs, SelectActive(r) PROVE ReuseInv'
  <2>1. ReuseKeep
    BY <1>0, <1>7
       DEF ReuseKeep, InFlight, PcInv, RowInv, SelectActive, rowVars, browserVars,
           TypeOK
  <2> QED
    BY <1>0, <2>1, ReuseStays
<1>8. ASSUME NEW r \in Reqs, Deny(r) PROVE ReuseInv'
  BY <1>0, <1>8
     DEF TypeOK, Tokens, InFlight, PcInv, RowInv, ReuseInv, Rotated, Deny, rowVars,
         browserVars
<1>9. ASSUME NEW r \in Reqs, CommitRevoke(r) PROVE ReuseInv'
  BY <1>0, <1>9
     DEF TypeOK, Tokens, InFlight, PcInv, RowInv, ReuseInv, Rotated, CommitRevoke,
         redisVars, browserVars, history
<1>10. ASSUME NEW r \in Reqs, Receive(r) PROVE ReuseInv'
  BY <1>0, <1>10
     DEF TypeOK, Tokens, InFlight, PcInv, RowInv, ReuseInv, Rotated, Receive,
         TakeCookies, TakeHeader, TakeTab, rowVars, redisVars, history
<1>11. ASSUME NEW r \in Reqs, LoseReply(r) PROVE ReuseInv'
  BY <1>0, <1>11
     DEF TypeOK, Tokens, InFlight, PcInv, RowInv, ReuseInv, Rotated, LoseReply, Fault,
         rowVars, redisVars, browserVars
<1>12. ASSUME NEW r \in Reqs, Abort(r) PROVE ReuseInv'
  BY <1>0, <1>12
     DEF TypeOK, Tokens, InFlight, PcInv, RowInv, ReuseInv, Rotated, Abort, Answer,
         Fault, rowVars, redisVars, browserVars
<1>13. ASSUME Quiet PROVE ReuseInv'
  BY <1>0, <1>13
     DEF Quiet, TypeOK, Tokens, InFlight, PcInv, RowInv, ReuseInv, Rotated, rowVars,
         reqVars, history
<1> QED
  BY <1>1, <1>2, <1>3, <1>4, <1>5, <1>6, <1>7, <1>8, <1>9, <1>10, <1>11, <1>12, <1>13,
     StepCases

------------------------------------------------------------------------------
(* The inductive invariant and the theorems                                *)

SessionInv ==
    TypeOK /\ PcInv /\ RowInv /\ TimeInv /\ ForkInv /\ OwnerInv /\ ReuseInv /\ CutInv

\* Initially there are no rows and no requests.
LEMMA SessionInit == Init => SessionInv
<1> SUFFICES ASSUME Init PROVE SessionInv
  OBVIOUS
<1>1. TypeOK
  BY SessionsAssumption DEF Init, TypeOK, Kinds, PcStates, Tokens, NoTab
<1>2. PcInv /\ RowInv /\ TimeInv
  BY DEF Init, PcInv, RowInv, TimeInv, InFlight
<1>3. ForkInv /\ OwnerInv
  BY DEF Init, ForkInv, OwnerInv, NoForkWithoutOverlap, InFlight, NoSid
<1>4. \A s \in Sids : ~Rotated(s)
  BY DEF Init, Rotated, Sids, NoSid
<1>5. ReuseInv /\ CutInv
  BY <1>4 DEF Init, ReuseInv, CutInv, Active
<1> QED
  BY <1>1, <1>2, <1>3, <1>5 DEF SessionInv

\* The conjunction of the layers is inductive.
LEMMA SessionStep == SessionInv /\ [Next]_vars => SessionInv'
BY TypeStep, PcStep, RowStep, TimeStep, ForkStep, OwnerStep, ReuseStep, CutStep
   DEF SessionInv

\* It therefore holds throughout.
LEMMA SessionAlways == Spec => []SessionInv
BY SessionInit, SessionStep, PTL DEF Spec

\* Every variable keeps its type, for any number of browsers, tabs, sessions and
\* requests and any token lifetimes.
THEOREM TypeCorrect == Spec => []TypeOK
<1>1. SessionInv => TypeOK
  BY DEF SessionInv
<1> QED
  BY <1>1, SessionAlways, PTL

\* The access token of a session that a logout denied is refused for as long as
\* it would be valid, whatever the lifetimes are: the key deny_session sets
\* outlives every token minted before it.
THEOREM DenialOutlivesTheToken == Spec => []KilledIsRefused
<1>1. SessionInv => KilledIsRefused
  <2> SUFFICES ASSUME SessionInv, NEW s \in killed, redisUp, now < born[s] + AccessTTL
               PROVE  ~CookieAccepted(s)
    BY DEF KilledIsRefused
  <2>1. /\ now \in Nat /\ AccessTTL \in Nat /\ born[s] \in Nat /\ until[s] \in Nat
        /\ born[s] + AccessTTL <= until[s]
    BY SessionsAssumption DEF SessionInv, TypeOK, TimeInv
  <2> QED
    BY <2>1 DEF CookieAccepted, IsDenied
<1> QED
  BY <1>1, SessionAlways, PTL

\* Two sessions descend from one refresh token only if two requests with that
\* token were in flight together.
THEOREM ForksComeFromOverlap == Spec => []NoForkWithoutOverlap
<1>1. SessionInv => NoForkWithoutOverlap
  BY DEF SessionInv, ForkInv
<1> QED
  BY <1>1, SessionAlways, PTL

\* rotate accuses a browser of replaying a token only after two refreshes with
\* that token in flight together or a rotation whose reply was lost.
THEOREM ReuseHasACause == Spec => []ReuseIsExplained
<1>1. SessionInv => ReuseIsExplained
  <2> SUFFICES ASSUME SessionInv, NEW r \in Reqs,
                      kind[r] = "refresh", pc[r] \in {"select", "commit"},
                      tok[r] # NoSid, Rotated(tok[r]), tok[r] \notin doubled \cup lost
               PROVE  FALSE
    BY DEF ReuseIsExplained
  <2>1. tok[r] \in Sids
    BY DEF SessionInv, TypeOK, Tokens
  <2>2. InFlight(r) => pc[r] = "reply"
    BY <2>1 DEF SessionInv, ReuseInv
  <2> QED
    BY <2>2 DEF InFlight
<1> QED
  BY <1>1, SessionAlways, PTL

\* After a logout-all the sessions it found stay revoked, and what descends from
\* them and is active was being rotated while it worked.
THEOREM OnlyRacersOutliveLogoutAll == Spec => []LogoutAllLeavesOnlyRacers
<1>1. SessionInv => LogoutAllLeavesOnlyRacers
  <2> SUFFICES ASSUME SessionInv, NEW r \in Reqs, Finished(r)
               PROVE  /\ cut[r] \cap Active = {}
                      /\ \A s \in Active : parent[s] \in cut[r]
                                           => parent[s] \in racing[r]
    BY DEF LogoutAllLeavesOnlyRacers
  <2>1. cut[r] \cap Active = {}
    BY DEF SessionInv, CutInv, Finished
  <2>2. \A s \in Active : parent[s] \in cut[r] =>
             s \in cut[r] \/ parent[s] \in racing[r]
    BY DEF SessionInv, CutInv
  <2> QED
    BY <2>1, <2>2
<1> QED
  BY <1>1, SessionAlways, PTL
==============================================================================
