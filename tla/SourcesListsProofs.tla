-------------------------- MODULE SourcesListsProofs --------------------------
(***************************************************************************)
(* The theorems about Sources that rest on what its lists hold: the ids in *)
(* localStorage, the rows of the database newest first, the list that the  *)
(* jobs page shows, the list that the connections page was given.          *)
(*                                                                         *)
(* OnlyFilters says what the filter Only returns, for a list of any        *)
(* length, by induction over the set of the numbers for which it is so.    *)
(* LeastExist does the same for the ids of the requests a page sends.      *)
(*                                                                         *)
(* ListsInv holds what the lists are: distinct, in the order of the rows,  *)
(* of jobs that exist.  PageInv adds the requests, the tasks and the       *)
(* pages; EverInv says that no id is registered twice.  Steps are reduced  *)
(* first to what they move (StepEffects for the lists, StepMoves for the   *)
(* rest, StepEver for the registrations), so that the invariants are       *)
(* argued over a few kinds of move and not over each action again.         *)
(***************************************************************************)
EXTENDS SourcesProofs, SequenceTheorems, WellFoundedInduction

------------------------------------------------------------------------------
(* Numbers                                                                 *)

\* A set of naturals that is not empty has a least element.
LEMMA LeastNatural ==
    ASSUME NEW S, S \subseteq Nat, S # {}
    PROVE  \E n \in S : \A m \in S : n <= m
<1>1. IsWellFoundedOn(OpToRel(<, Nat), Nat)
  BY NatLessThanWellFounded
<1>2. \E n \in S : \A m \in S : <<m, n>> \notin OpToRel(<, Nat)
  BY <1>1, WFMin
<1>3. PICK n \in S : \A m \in S : ~ (m < n)
  BY <1>2 DEF OpToRel
<1> QED
  BY <1>3

\* Induction, on the set of the numbers for which a formula holds.
LEMMA Induction ==
    ASSUME NEW S, 0 \in S, \A n \in Nat : n \in S => n + 1 \in S
    PROVE  Nat \subseteq S
<1> SUFFICES ASSUME Nat \ S # {}  PROVE FALSE
  OBVIOUS
<1>1. PICK n \in Nat \ S : \A m \in Nat \ S : n <= m
  <2> DEFINE T == Nat \ S
  <2>1. T \subseteq Nat /\ T # {}
    OBVIOUS
  <2> HIDE DEF T
  <2>2. \E n \in T : \A m \in T : n <= m
    BY <2>1, LeastNatural
  <2> QED
    BY <2>2 DEF T
<1>2. n # 0 /\ n - 1 \in Nat /\ ~ (n <= n - 1)
  BY <1>1
<1> QED
  BY <1>1, <1>2

------------------------------------------------------------------------------
(* Filters                                                                 *)

Distinct(q) == \A i, k \in DOMAIN q : q[i] = q[k] => i = k

\* The prefixes of a list, filtered one element at a time.
NextOnly(q, S, f, n) ==
    IF n = 0 THEN <<>>
    ELSE IF q[n] \in S THEN Append(f[n - 1], q[n]) ELSE f[n - 1]
OnlyUpTo(q, S, m, f) == f = [n \in 0..m |-> NextOnly(q, S, f, n)]

LEMMA OnlyUnfolds ==
    ASSUME NEW q, NEW S, Len(q) \in Nat
    PROVE  \E f : OnlyUpTo(q, S, Len(q), f) /\ Only(q, S) = f[Len(q)]
<1> DEFINE A == {m \in Nat : \E f : OnlyUpTo(q, S, m, f)}
<1>1. 0 \in A
  <2> DEFINE f == [n \in 0..0 |-> <<>>]
  <2>1. OnlyUpTo(q, S, 0, f)
    BY DEF OnlyUpTo, NextOnly
  <2> QED
    BY <2>1
<1>2. ASSUME NEW m \in Nat, m \in A  PROVE m + 1 \in A
  <2>1. PICK f : OnlyUpTo(q, S, m, f)
    BY <1>2
  <2> DEFINE g == [n \in 0..(m + 1) |->
                     IF n <= m THEN f[n] ELSE NextOnly(q, S, f, n)]
  <2>2. \A n \in 0..m : g[n] = f[n]
    OBVIOUS
  <2>3. \A n \in 0..(m + 1) : g[n] = NextOnly(q, S, f, n)
    BY <2>1 DEF OnlyUpTo
  <2>4. \A n \in 0..(m + 1) : n # 0 => g[n - 1] = f[n - 1]
    BY <2>2
  <2>5. \A n \in 0..(m + 1) : NextOnly(q, S, f, n) = NextOnly(q, S, g, n)
    BY <2>4 DEF NextOnly
  <2>6. g = [n \in 0..(m + 1) |-> g[n]]
    OBVIOUS
  <2> HIDE DEF g
  <2>7. OnlyUpTo(q, S, m + 1, g)
    BY <2>3, <2>5, <2>6 DEF OnlyUpTo
  <2> QED
    BY <2>7
<1> HIDE DEF A
<1>3. Len(q) \in A
  BY <1>1, <1>2, Induction
<1>4. \E f : OnlyUpTo(q, S, Len(q), f)
  BY <1>3 DEF A
<1> DEFINE upTo == CHOOSE f : OnlyUpTo(q, S, Len(q), f)
<1>5. Only(q, S) = upTo[Len(q)]
  BY DEF Only, OnlyUpTo, NextOnly
<1>6. OnlyUpTo(q, S, Len(q), upTo)
  BY <1>4
<1> QED
  BY <1>5, <1>6

\* What a filter returns: the elements that pass, none twice that was not, and as
\* it was any start of the list that passes whole.
Filtered(q, S, n, r, T) ==
    /\ r \in Seq(T) /\ Len(r) <= n
    /\ \A x : x \in SetOf(r) <=> x \in S /\ \E i \in 1..n : q[i] = x
    /\ (\A i, k \in 1..n : q[i] = q[k] => i = k) => Distinct(r)
    /\ \A k \in 0..n : (\A i \in 1..k : q[i] \in S) =>
           Len(r) >= k /\ \A i \in 1..k : r[i] = q[i]

LEMMA OnlyFilters ==
    ASSUME NEW T, NEW q \in Seq(T), NEW S
    PROVE  Filtered(q, S, Len(q), Only(q, S), T)
<1>0. Len(q) \in Nat /\ DOMAIN q = 1..Len(q) /\ \A i \in 1..Len(q) : q[i] \in T
  OBVIOUS
<1>1. PICK f : OnlyUpTo(q, S, Len(q), f) /\ Only(q, S) = f[Len(q)]
  BY <1>0, OnlyUnfolds
<1> DEFINE A == {n \in Nat : n <= Len(q) => Filtered(q, S, n, f[n], T)}
<1>2. 0 \in A
  <2>1. f[0] = <<>>
    BY <1>0, <1>1 DEF OnlyUpTo, NextOnly
  <2>2. Filtered(q, S, 0, <<>>, T)
    BY DEF Filtered, SetOf, Distinct
  <2> QED
    BY <2>1, <2>2
<1>3. ASSUME NEW n \in Nat, n \in A  PROVE n + 1 \in A
  <2> SUFFICES ASSUME n + 1 <= Len(q)  PROVE Filtered(q, S, n + 1, f[n + 1], T)
    OBVIOUS
  <2> DEFINE r == f[n]
             x == q[n + 1]
  <2>1. Filtered(q, S, n, r, T)
    BY <1>0, <1>3
  <2>2. /\ n + 1 \in 0..Len(q) /\ n + 1 # 0 /\ (n + 1) - 1 = n
        /\ x \in T /\ 1..(n + 1) = (1..n) \cup {n + 1} /\ n + 1 \notin 1..n
    BY <1>0
  <2>3. f[n + 1] = IF x \in S THEN Append(r, x) ELSE r
    BY <1>1, <2>2 DEF OnlyUpTo, NextOnly
  <2> HIDE DEF r, x
  <2>x. \A i \in 1..(n + 1) : i = n + 1 => q[i] = x
    BY DEF x
  <2>4. CASE x \notin S
    <3>1. f[n + 1] = r
      BY <2>3, <2>4
    <3>2. r \in Seq(T) /\ Len(r) <= n + 1
      BY <2>1, <1>0 DEF Filtered
    <3>3. \A y : y \in SetOf(r) <=> y \in S /\ \E i \in 1..(n + 1) : q[i] = y
      BY <2>1, <2>2, <2>4, <2>x DEF Filtered
    <3>4. (\A i, k \in 1..(n + 1) : q[i] = q[k] => i = k) => Distinct(r)
      BY <2>1, <2>2 DEF Filtered
    <3>5. \A k \in 0..(n + 1) : (\A i \in 1..k : q[i] \in S) =>
              Len(r) >= k /\ \A i \in 1..k : r[i] = q[i]
      <4> SUFFICES ASSUME NEW k \in 0..(n + 1), \A i \in 1..k : q[i] \in S
                   PROVE  Len(r) >= k /\ \A i \in 1..k : r[i] = q[i]
        OBVIOUS
      <4>1. k # n + 1
        BY <2>2, <2>4, <2>x
      <4>2. k \in 0..n
        BY <4>1
      <4> QED
        BY <2>1, <4>2 DEF Filtered
    <3> QED
      BY <3>1, <3>2, <3>3, <3>4, <3>5 DEF Filtered
  <2>5. CASE x \in S
    <3> DEFINE s == Append(r, x)
    <3>0. r \in Seq(T) /\ Len(r) \in Nat /\ Len(r) <= n
      BY <2>1 DEF Filtered
    <3>1. f[n + 1] = s /\ s \in Seq(T)
      BY <2>2, <2>3, <2>5, <3>0
    <3>2. /\ Len(s) = Len(r) + 1 /\ DOMAIN s = 1..(Len(r) + 1) /\ DOMAIN r = 1..Len(r)
          /\ \A i \in 1..Len(r) : s[i] = r[i]
          /\ s[Len(r) + 1] = x
      BY <2>2, <3>0, AppendProperties
    <3> HIDE DEF s
    <3>3. SetOf(s) = SetOf(r) \cup {x}
      <4>1. \A i \in DOMAIN s : s[i] \in SetOf(r) \cup {x}
        BY <3>0, <3>2 DEF SetOf
      <4>2. \A i \in DOMAIN r : i \in DOMAIN s /\ s[i] = r[i]
        BY <3>0, <3>2
      <4>3. Len(r) + 1 \in DOMAIN s
        BY <3>0, <3>2
      <4> QED
        BY <3>2, <4>1, <4>2, <4>3 DEF SetOf
    <3>4. \A y : y \in SetOf(s) <=> y \in S /\ \E i \in 1..(n + 1) : q[i] = y
      BY <2>1, <2>2, <2>5, <2>x, <3>3 DEF Filtered
    <3>5. ASSUME \A i, k \in 1..(n + 1) : q[i] = q[k] => i = k  PROVE Distinct(s)
      <4>1. Distinct(r)
        BY <2>1, <2>2, <3>5 DEF Filtered
      <4>2. x \notin SetOf(r)
        BY <2>1, <2>2, <2>x, <3>5 DEF Filtered
      <4>3. \A i \in 1..Len(r) : s[i] # x
        BY <3>2, <4>2 DEF SetOf
      <4> QED
        BY <3>0, <3>2, <4>1, <4>3 DEF Distinct
    <3>6. \A k \in 0..(n + 1) : (\A i \in 1..k : q[i] \in S) =>
              Len(s) >= k /\ \A i \in 1..k : s[i] = q[i]
      <4> SUFFICES ASSUME NEW k \in 0..(n + 1), \A i \in 1..k : q[i] \in S
                   PROVE  Len(s) >= k /\ \A i \in 1..k : s[i] = q[i]
        OBVIOUS
      <4>1. CASE k \in 0..n
        <5>1. k <= Len(r) /\ \A i \in 1..k : r[i] = q[i]
          BY <2>1, <4>1 DEF Filtered
        <5>2. \A i \in 1..k : i \in 1..Len(r)
          BY <3>0, <4>1, <5>1
        <5> QED
          BY <3>0, <3>2, <4>1, <5>1, <5>2
      <4>2. CASE k = n + 1
        <5>1. Len(r) >= n /\ \A i \in 1..n : r[i] = q[i]
          BY <2>1, <2>2, <4>2 DEF Filtered
        <5>2. Len(r) = n
          BY <3>0, <5>1
        <5>3. \A i \in 1..n : s[i] = q[i]
          BY <3>2, <5>1, <5>2
        <5>4. s[n + 1] = q[n + 1]
          BY <2>2, <2>x, <3>2, <5>2
        <5>5. Len(s) = n + 1
          BY <3>2, <5>2
        <5> QED
          BY <2>2, <4>2, <5>3, <5>4, <5>5
      <4> QED
        BY <4>1, <4>2
    <3> QED
      BY <3>0, <3>1, <3>2, <3>4, <3>5, <3>6 DEF Filtered
  <2> QED
    BY <2>4, <2>5
<1> HIDE DEF A
<1>4. Len(q) \in A
  BY <1>0, <1>2, <1>3, Induction
<1> QED
  BY <1>0, <1>1, <1>4 DEF A

------------------------------------------------------------------------------
(* What a step does to the lists                                           *)

RegistryEffect ==
    \/ UNCHANGED registryVars
    \/ \E j \in Jobs : Remember(j)
    \/ ForgetJobs

RowEffect ==
    \/ UNCHANGED <<status, recent>>
    \/ \E j \in Jobs, s \in Stations :
          status' = [status EXCEPT ![j] = s] /\ Touch(j)
    \/ status' = [j \in Jobs |-> "none"] /\ recent' = <<>>

\* A page that is opened has no polls; only the wipe loads a page anew.
PollEffect ==
    \/ UNCHANGED <<page, polls, shown>>
    \/ /\ polls' = {} /\ shown' = <<>>
       /\ page' # page \/ page' # "jobs" \/ wiping' # wiping
    \/ Poll
    \/ \E p \in polls : ListJobs(p) \/ ShowJobs(p)

Effects == RegistryEffect /\ RowEffect /\ PollEffect

LEMMA StepEffects == GhostInv /\ [SourcesNext]_sourcesVars => Effects
<1> SUFFICES ASSUME GhostInv, [SourcesNext]_sourcesVars  PROVE Effects
  OBVIOUS
<1> USE DEF serverVars, askVars, connVars, jobsVars, setupVars,
            Effects, RegistryEffect, RowEffect, PollEffect
<1>t. param \in Jobs \cup {NoJob}
  BY DEF GhostInv, GhostType
<1>1. ASSUME NEW p \in Pages, Go(p)  PROVE Effects
  BY <1>1 DEF Go, Open, AppPages
<1>2. ASSUME NEW j \in Jobs, Serve(j)  PROVE Effects
  <2>1. CASE Accept(j) \/ Refuse(j)
    BY <2>1 DEF Accept, Refuse, Stations
  <2>2. CASE Work(j) \/ ServeCancel(j)
    <3>1. UNCHANGED <<registryVars, page, polls, shown>>
      BY <2>2, Zenon DEF Work, ServeCancel
    <3>2. UNCHANGED <<status, recent>> \/ \E s \in Stations : Write(j, s)
      BY <2>2 DEF Work, ServeCancel, Stations
    <3> QED
      BY <3>1, <3>2 DEF Write
  <2> QED
    BY <1>2, <2>1, <2>2 DEF Serve
<1>3. ASSUME NEW j \in Jobs, HearCall(j)  PROVE Effects
  BY <1>3 DEF HearCall, HearSpace, HearIndex
<1>4. ASSUME NEW j \in Jobs, GrantJob(j)  PROVE Effects
  BY <1>4 DEF GrantJob, Open, Stations
<1>5. CASE LoadJobList
  BY <1>t, <1>5 DEF LoadJobList
<1>6. CASE LoadDocs \/ ShowProviders \/ Focus \/ ReindexAll
  BY <1>6 DEF LoadDocs, ShowProviders, Focus, ReindexAll
<1>7. ASSUME NEW r \in Repos, AddRepo(r) \/ Reindex(r)  PROVE Effects
  BY <1>7 DEF AddRepo, Reindex
<1>8. ASSUME NEW w \in Spaces,
             IndexSpace(w) \/ AskDisconnect(w) \/ Disconnect(w) \/ GrantSpace(w)
      PROVE  Effects
  BY <1>8 DEF IndexSpace, AskDisconnect, Disconnect, GrantSpace
<1>9. CASE Connect \/ AbandonGrant
  BY <1>9 DEF Connect, AbandonGrant, Open
<1>10. CASE Poll
  BY <1>10 DEF Poll
<1>11. CASE AnyList \/ AnyShow
  BY <1>11 DEF AnyList, ListJobs, AnyShow, ShowJobs
<1>12. ASSUME NEW i \in DOMAIN shown, Cancel(i) \/ Rerun(i)  PROVE Effects
  BY <1>12 DEF Cancel, Rerun
<1>13. CASE LoadProviders \/ Retry \/ StartIndexing
  BY <1>13 DEF LoadProviders, Retry, StartIndexing
<1>14. CASE Redirect
  BY <1>14 DEF Redirect, Open
<1>15. ASSUME NEW S, LoadResources(S)  PROVE Effects
  BY <1>15 DEF LoadResources
<1>16. ASSUME NEW s \in Sources, Toggle(s)  PROVE Effects
  BY <1>16 DEF Toggle
<1>17. CASE AskWipe \/ ServeWipe \/ LoseWipe
  BY <1>17 DEF AskWipe, ServeWipe, LoseWipe
<1>18. CASE HearWipe
  BY <1>18 DEF HearWipe, Open
<1>19. CASE UNCHANGED sourcesVars
  BY <1>19 DEF sourcesVars
<1> QED
  BY <1>1, <1>2, <1>3, <1>4, <1>5, <1>6, <1>7, <1>8, <1>9, <1>10, <1>11, <1>12,
     <1>13, <1>14, <1>15, <1>16, <1>17, <1>18, <1>19 DEF SourcesNext, SourcesStep

------------------------------------------------------------------------------
(* The ids in localStorage, newest first                                   *)

LEMMA PrefixOf ==
    ASSUME NEW T, NEW q \in Seq(T), NEW n \in Nat
    PROVE  LET r == Prefix(q, n)
               m == IF Len(q) < n THEN Len(q) ELSE n
           IN  /\ m \in 0..Len(q) /\ m <= n
               /\ r \in Seq(T) /\ Len(r) = m /\ DOMAIN r = 1..m
               /\ \A i \in 1..m : r[i] = q[i]
<1> DEFINE m == IF Len(q) < n THEN Len(q) ELSE n
<1>1. m \in 0..Len(q) /\ m <= n /\ Prefix(q, n) = SubSeq(q, 1, m)
  BY DEF Prefix
<1> HIDE DEF m
<1>2. \A i \in 1..m : q[i] \in T
  BY <1>1
<1>3. SubSeq(q, 1, m) = [i \in 1..m |-> q[i]]
  BY <1>1
<1>4. SubSeq(q, 1, m) \in Seq(T) /\ Len(SubSeq(q, 1, m)) = m
  BY <1>1, <1>2, <1>3, IsASeq
<1>5. /\ m \in 0..Len(q) /\ m <= n
      /\ Prefix(q, n) \in Seq(T) /\ Len(Prefix(q, n)) = m /\ DOMAIN Prefix(q, n) = 1..m
      /\ \A i \in 1..m : Prefix(q, n)[i] = q[i]
  BY <1>1, <1>3, <1>4
<1> QED
  BY <1>5 DEF m

\* A list with a new head.
LEMMA Ahead ==
    ASSUME NEW T, NEW q \in Seq(T), NEW x \in T
    PROVE  LET r == <<x>> \o q
           IN  /\ r \in Seq(T) /\ Len(r) = Len(q) + 1 /\ DOMAIN r = 1..(Len(q) + 1)
               /\ Len(q) \in Nat /\ DOMAIN q = 1..Len(q)
               /\ r[1] = x /\ \A i \in 2..(Len(q) + 1) : r[i] = q[i - 1]
  OBVIOUS

\* An element is moved to the head, or put there.
LEMMA MovedAhead ==
    ASSUME NEW q \in Seq(Jobs), Distinct(q), NEW j \in Jobs
    PROVE  /\ <<j>> \o Without(q, j) \in Seq(Jobs)
           /\ Distinct(<<j>> \o Without(q, j))
           /\ SetOf(<<j>> \o Without(q, j)) = SetOf(q) \cup {j}
<1> DEFINE w == Without(q, j)
           r == <<j>> \o w
<1>1. Filtered(q, Jobs \ {j}, Len(q), w, Jobs)
  BY OnlyFilters DEF Without
<1>2. /\ w \in Seq(Jobs) /\ Len(q) \in Nat /\ DOMAIN q = 1..Len(q)
      /\ \A k : k \in SetOf(w) <=> k \in Jobs \ {j} /\ k \in SetOf(q)
      /\ Distinct(w)
  BY <1>1 DEF Filtered, Distinct, SetOf
<1> HIDE DEF w
<1>3. /\ r \in Seq(Jobs) /\ DOMAIN r = 1..(Len(w) + 1)
      /\ Len(w) \in Nat /\ DOMAIN w = 1..Len(w)
      /\ r[1] = j /\ \A i \in 2..(Len(w) + 1) : r[i] = w[i - 1]
  BY <1>2, Ahead
<1> HIDE DEF r
<1>4. \A i \in DOMAIN r : i # 1 =>
        i - 1 \in DOMAIN w /\ r[i] = w[i - 1] /\ r[i] \in SetOf(w)
  BY <1>3 DEF SetOf
<1>5. Distinct(r)
  <2> SUFFICES ASSUME NEW i \in DOMAIN r, NEW k \in DOMAIN r, r[i] = r[k]  PROVE i = k
    BY DEF Distinct
  <2>1. CASE i # 1 /\ k # 1
    <3>1. i - 1 = k - 1
      BY <1>2, <1>4, <2>1 DEF Distinct
    <3> QED
      BY <1>3, <3>1
  <2>2. CASE i = 1 \/ k = 1
    BY <1>2, <1>3, <1>4, <2>2
  <2> QED
    BY <2>1, <2>2
<1>6. SetOf(r) = SetOf(q) \cup {j}
  <2>1. \A i \in DOMAIN r : r[i] \in SetOf(q) \cup {j}
    BY <1>2, <1>3, <1>4
  <2>2. \A i \in DOMAIN w : i + 1 \in DOMAIN r /\ r[i + 1] = w[i]
    BY <1>3
  <2>3. SetOf(w) \subseteq SetOf(r)
    BY <2>2 DEF SetOf
  <2>4. j \in SetOf(r)
    BY <1>3 DEF SetOf
  <2>5. SetOf(q) \subseteq SetOf(w) \cup {j}
    BY <1>2 DEF SetOf
  <2>6. SetOf(r) \subseteq SetOf(q) \cup {j}
    BY <2>1 DEF SetOf
  <2> QED
    BY <2>3, <2>4, <2>5, <2>6
<1> QED
  BY <1>3, <1>5, <1>6 DEF r, w

RegistryInv ==
    /\ registry \in Seq(Jobs) /\ Len(registry) <= Keep /\ Distinct(registry)
    /\ ever \in Seq(Jobs) /\ late \subseteq Jobs

\* A list that starts with a new id.
LEMMA AheadOnce ==
    ASSUME NEW q \in Seq(Jobs), Distinct(q), NEW j \in Jobs, j \notin SetOf(q)
    PROVE  <<j>> \o q \in Seq(Jobs) /\ Distinct(<<j>> \o q)
<1> DEFINE r == <<j>> \o q
<1>1. /\ r \in Seq(Jobs) /\ DOMAIN r = 1..(Len(q) + 1)
      /\ Len(q) \in Nat /\ DOMAIN q = 1..Len(q)
      /\ r[1] = j /\ \A i \in 2..(Len(q) + 1) : r[i] = q[i - 1]
  BY Ahead
<1> HIDE DEF r
<1>2. \A i \in DOMAIN r : i # 1 => i - 1 \in DOMAIN q /\ r[i] = q[i - 1] /\ r[i] # j
  BY <1>1 DEF SetOf
<1>3. Distinct(r)
  <2> SUFFICES ASSUME NEW i \in DOMAIN r, NEW k \in DOMAIN r, r[i] = r[k]  PROVE i = k
    BY DEF Distinct
  <2>1. CASE i # 1 /\ k # 1
    <3>1. i - 1 = k - 1
      BY <1>2, <2>1 DEF Distinct
    <3> QED
      BY <1>1, <3>1
  <2>2. CASE i = 1 \/ k = 1
    BY <1>1, <1>2, <2>2
  <2> QED
    BY <2>1, <2>2
<1> QED
  BY <1>1, <1>3 DEF r

LEMMA RegistryStep == RegistryInv /\ RegistryEffect => RegistryInv'
<1> SUFFICES ASSUME RegistryInv, RegistryEffect  PROVE RegistryInv'
  OBVIOUS
<1>1. CASE UNCHANGED registryVars
  BY <1>1 DEF RegistryInv, registryVars, Distinct
<1>2. ASSUME NEW j \in Jobs, Remember(j)  PROVE RegistryInv'
  <2>1. late' \subseteq Jobs /\ ever' \in Seq(Jobs)
    BY <1>2 DEF Remember, RegistryInv
  <2>2. CASE j \in SetOf(registry)
    <3>1. UNCHANGED registry
      BY <1>2, <2>2 DEF Remember, RegisterJob
    <3> QED
      BY <2>1, <3>1 DEF RegistryInv, Distinct
  <2>3. CASE j \notin SetOf(registry)
    <3> DEFINE q == <<j>> \o registry
    <3>1. registry' = Prefix(q, Keep)
      BY <1>2, <2>3 DEF Remember, RegisterJob
    <3>2. q \in Seq(Jobs) /\ Distinct(q) /\ Keep \in Nat
      BY <2>3, AheadOnce, SourcesAssumption DEF RegistryInv
    <3> HIDE DEF q
    <3>3. /\ registry' \in Seq(Jobs) /\ Len(registry') <= Keep
          /\ DOMAIN registry' \subseteq DOMAIN q
          /\ \A i \in DOMAIN registry' : registry'[i] = q[i]
      BY <3>1, <3>2, PrefixOf
    <3>4. Distinct(registry)'
      BY <3>2, <3>3 DEF Distinct
    <3> QED
      BY <2>1, <3>3, <3>4 DEF RegistryInv
  <2> QED
    BY <2>2, <2>3
<1>3. CASE ForgetJobs
  BY <1>3, SourcesAssumption DEF ForgetJobs, RegistryInv, Distinct
<1> QED
  BY <1>1, <1>2, <1>3 DEF RegistryEffect

------------------------------------------------------------------------------
(* The rows, the polls and the list of the jobs page                       *)

RowInv ==
    /\ status \in [Jobs -> Stations \cup {"none"}]
    /\ recent \in Seq(Jobs) /\ Distinct(recent)
    /\ \A j \in Jobs : j \in SetOf(recent) <=> status[j] # "none"

LEMMA RowStep == RowInv /\ RowEffect => RowInv'
<1> SUFFICES ASSUME RowInv, RowEffect  PROVE RowInv'
  OBVIOUS
<1>1. CASE UNCHANGED <<status, recent>>
  BY <1>1 DEF RowInv, Distinct, SetOf
<1>2. ASSUME NEW j \in Jobs, NEW s \in Stations,
             status' = [status EXCEPT ![j] = s], Touch(j)
      PROVE  RowInv'
  <2>1. recent \in Seq(Jobs) /\ Distinct(recent) /\ recent' = <<j>> \o Without(recent, j)
    BY <1>2 DEF RowInv, Touch
  <2>2. /\ recent' \in Seq(Jobs) /\ Distinct(recent')
        /\ SetOf(recent') = SetOf(recent) \cup {j}
    BY <2>1, MovedAhead
  <2>3. status' \in [Jobs -> Stations \cup {"none"}]
    BY <1>2 DEF RowInv
  <2>5. \A k \in Jobs : k \in SetOf(recent') <=> status'[k] # "none"
    BY <1>2, <2>2 DEF RowInv, Stations
  <2> QED
    BY <2>2, <2>3, <2>5 DEF RowInv, Distinct, SetOf
<1>3. CASE status' = [j \in Jobs |-> "none"] /\ recent' = <<>>
  BY <1>3 DEF RowInv, Distinct, SetOf
<1> QED
  BY <1>1, <1>2, <1>3 DEF RowEffect

\* A list of jobs as the server gives it, or a page shows it.
IsJobList(list) ==
    /\ list \in Seq(Entries)
    /\ \A i, k \in DOMAIN list : list[i].id = list[k].id => i = k

PollsInv ==
    /\ IsFiniteSet(polls) /\ Cardinality(polls) <= MaxPolls
    /\ \A p \in polls :
        /\ DOMAIN p = {"listed", "stored", "list"}
        /\ p.listed \in BOOLEAN
        /\ p.stored \in Seq(Jobs) /\ Distinct(p.stored) /\ IsJobList(p.list)
    /\ IsJobList(shown)
    /\ polls # {} => page = "jobs"

\* The first rows of the list that was touched last.
LEMMA ListedRows ==
    ASSUME RowInv, NEW q \in Seq(Jobs), Distinct(q),
           SetOf(q) \subseteq SetOf(recent), NEW n \in Nat
    PROVE  LET r == Listed(Prefix(q, n))
           IN  /\ IsJobList(r) /\ Len(r) = (IF Len(q) < n THEN Len(q) ELSE n)
               /\ \A i \in DOMAIN r :
                    i \in DOMAIN q /\ r[i].id = q[i] /\ r[i].station = status[q[i]]
<1> DEFINE m == IF Len(q) < n THEN Len(q) ELSE n
           h == Prefix(q, n)
           r == [i \in 1..m |-> Entry(h[i])]
<1>1. /\ m \in 0..Len(q) /\ h \in Seq(Jobs) /\ DOMAIN h = 1..m
      /\ \A i \in 1..m : h[i] = q[i]
  BY PrefixOf
<1>2. DOMAIN q = 1..Len(q) /\ Len(q) \in Nat /\ \A i \in 1..Len(q) : q[i] \in SetOf(q)
  BY DEF SetOf
<1> HIDE DEF m, h
<1>3. Listed(h) = r
  BY <1>1 DEF Listed
<1>4. \A i \in 1..m :
        /\ i \in DOMAIN q
        /\ r[i] \in Entries /\ r[i].id = q[i] /\ r[i].station = status[q[i]]
  <2> SUFFICES ASSUME NEW i \in 1..m
               PROVE  /\ i \in DOMAIN q
                      /\ r[i] \in Entries /\ r[i].id = q[i] /\ r[i].station = status[q[i]]
    OBVIOUS
  <2>1. i \in DOMAIN q /\ q[i] \in SetOf(recent) /\ h[i] = q[i] /\ q[i] \in Jobs
    BY <1>1, <1>2
  <2>2. status[q[i]] \in Stations
    BY <2>1 DEF RowInv
  <2> QED
    BY <2>1, <2>2 DEF Entry, Entries
<1>5. m \in Nat
  BY <1>1
<1> HIDE DEF r
<1>6. r \in Seq(Entries) /\ DOMAIN r = 1..m /\ Len(r) = m
  <2>1. r = [i \in 1..m |-> r[i]]
    BY DEF r
  <2> QED
    BY <1>4, <1>5, <2>1, IsASeq
<1>7. \A i, k \in DOMAIN r : r[i].id = r[k].id => i = k
  BY <1>4, <1>6 DEF Distinct
<1> QED
  BY <1>3, <1>4, <1>6, <1>7 DEF IsJobList, m, h

LEMMA AllJobsList == RowInv /\ tour \in Tours => IsJobList(AllJobs)
<1> SUFFICES ASSUME RowInv, tour \in Tours  PROVE IsJobList(AllJobs)
  OBVIOUS
<1>1. ListLimit \in Nat
  BY SourcesAssumption DEF ListLimit
<1> QED
  BY <1>1, ListedRows DEF RowInv, AllJobs

LEMMA Joined ==
    ASSUME NEW T, NEW a \in Seq(T), NEW b \in Seq(T)
    PROVE  /\ a \o b \in Seq(T) /\ Len(a \o b) = Len(a) + Len(b)
           /\ DOMAIN (a \o b) = 1..(Len(a) + Len(b))
           /\ \A i \in 1..Len(a) : (a \o b)[i] = a[i]
           /\ \A i \in 1..Len(b) : (a \o b)[Len(a) + i] = b[i]
<1>1. a \o b \in Seq(T) /\ Len(a \o b) = Len(a) + Len(b)
  BY ConcatProperties
<1>2. DOMAIN (a \o b) = 1..Len(a \o b)
  BY <1>1
<1>3. \A i \in 1..(Len(a) + Len(b)) :
        (a \o b)[i] = IF i <= Len(a) THEN a[i] ELSE b[i - Len(a)]
  BY ConcatProperties
<1>4. Len(a) \in Nat /\ Len(b) \in Nat
  OBVIOUS
<1> DEFINE r == a \o b
<1> HIDE DEF r
<1>5. \A i \in 1..Len(b) : r[Len(a) + i] = b[i]
  <2> SUFFICES ASSUME NEW i \in 1..Len(b)  PROVE r[Len(a) + i] = b[i]
    OBVIOUS
  <2>1. Len(a) + i \in 1..(Len(a) + Len(b)) /\ ~ (Len(a) + i <= Len(a))
        /\ (Len(a) + i) - Len(a) = i
    BY <1>4
  <2> QED
    BY <1>3, <2>1 DEF r
<1>6. \A i \in 1..Len(a) : r[i] = a[i]
  BY <1>3, <1>4 DEF r
<1> QED
  BY <1>1, <1>2, <1>5, <1>6 DEF r

\* The list of the server, and after it the stored ids that are not in it.
LEMMA JobListOf ==
    ASSUME status \in [Jobs -> Stations \cup {"none"}],
           NEW stored \in Seq(Jobs), Distinct(stored), NEW list, IsJobList(list), NEW broken
    PROVE  LET r == JobList(stored, list, broken)
           IN  /\ IsJobList(r)
               /\ \A j \in SetOf(stored) : \E i \in DOMAIN r : r[i].id = j
<1> DEFINE ids == {list[i].id : i \in DOMAIN list}
           more == Missing(stored, list)
           stray == [i \in DOMAIN more |-> Stray(more[i], broken)]
           r == list \o stray
<1>1. /\ more \in Seq(Jobs) /\ Distinct(more)
      /\ \A j \in Jobs : j \in SetOf(more) <=> j \in SetOf(stored) /\ j \notin ids
  <2>1. Filtered(stored, Jobs \ ids, Len(stored), more, Jobs)
    BY OnlyFilters DEF Missing
  <2>2. DOMAIN stored = 1..Len(stored)
    OBVIOUS
  <2> HIDE DEF more, ids
  <2>3. more \in Seq(Jobs) /\ Distinct(more)
    BY <2>1, <2>2 DEF Filtered, Distinct
  <2>4. \A j : j \in SetOf(stored) <=> \E i \in 1..Len(stored) : stored[i] = j
    BY <2>2 DEF SetOf
  <2>5. \A j : j \in SetOf(more) <=> j \in Jobs \ ids /\ j \in SetOf(stored)
    BY <2>1, <2>4 DEF Filtered
  <2> QED
    BY <2>3, <2>5
<1> HIDE DEF more
<1>2. /\ DOMAIN more = 1..Len(more) /\ Len(more) \in Nat
      /\ \A i \in 1..Len(more) : more[i] \in Jobs /\ more[i] \in SetOf(more)
  BY <1>1 DEF SetOf
<1>3. \A i \in DOMAIN more : stray[i] \in Entries /\ stray[i].id = more[i]
  BY <1>2 DEF Stray, Entries, Stations
<1>4. stray = [i \in 1..Len(more) |-> stray[i]]
  BY <1>2
<1> HIDE DEF stray
<1>5. stray \in Seq(Entries) /\ Len(stray) = Len(more)
  BY <1>2, <1>3, <1>4, IsASeq
<1>6. /\ list \in Seq(Entries) /\ DOMAIN list = 1..Len(list) /\ Len(list) \in Nat
  BY DEF IsJobList
<1>7. /\ r \in Seq(Entries) /\ Len(r) = Len(list) + Len(more)
      /\ DOMAIN r = 1..(Len(list) + Len(more))
      /\ \A i \in 1..Len(list) : r[i] = list[i]
      /\ \A i \in 1..Len(more) : r[Len(list) + i] = stray[i]
  <2>1. list \in Seq(Entries) /\ stray \in Seq(Entries)
    BY <1>5, <1>6
  <2>2. /\ list \o stray \in Seq(Entries)
        /\ Len(list \o stray) = Len(list) + Len(stray)
        /\ DOMAIN (list \o stray) = 1..(Len(list) + Len(stray))
        /\ \A i \in 1..Len(list) : (list \o stray)[i] = list[i]
        /\ \A i \in 1..Len(stray) : (list \o stray)[Len(list) + i] = stray[i]
    BY ONLY <2>1, Joined
  <2> QED
    BY <1>5, <2>2
<1> HIDE DEF r
\* An entry of either part.
<1>8. \A i \in DOMAIN r :
        \/ i \in DOMAIN list /\ r[i].id = list[i].id /\ r[i].id \in ids
        \/ /\ i > Len(list) /\ i - Len(list) \in DOMAIN more
           /\ r[i].id = more[i - Len(list)] /\ r[i].id \notin ids
  <2> SUFFICES ASSUME NEW i \in DOMAIN r, i \notin DOMAIN list
               PROVE  /\ i > Len(list) /\ i - Len(list) \in DOMAIN more
                      /\ r[i].id = more[i - Len(list)] /\ r[i].id \notin ids
    BY <1>6, <1>7
  <2>1. i > Len(list) /\ i - Len(list) \in 1..Len(more) /\ i = Len(list) + (i - Len(list))
    BY <1>2, <1>6, <1>7
  <2>2. r[i] = stray[i - Len(list)]
    BY <1>7, <2>1
  <2> QED
    BY <1>1, <1>2, <1>3, <2>1, <2>2
<1>9. \A i, k \in DOMAIN r : r[i].id = r[k].id => i = k
  <2> SUFFICES ASSUME NEW i \in DOMAIN r, NEW k \in DOMAIN r, r[i].id = r[k].id
               PROVE  i = k
    OBVIOUS
  <2>1. CASE i \in DOMAIN list /\ r[i].id \in ids
    BY <1>8, <2>1, <1>6 DEF IsJobList
  <2>2. CASE r[i].id \notin ids
    <3>1. i - Len(list) = k - Len(list)
      BY <1>1, <1>8, <2>2 DEF Distinct
    <3> QED
      BY <1>6, <1>7, <3>1
  <2> QED
    BY <1>8, <2>1, <2>2
<1>10. \A j \in SetOf(stored) : \E i \in DOMAIN r : r[i].id = j
  <2> SUFFICES ASSUME NEW j \in SetOf(stored)  PROVE \E i \in DOMAIN r : r[i].id = j
    OBVIOUS
  <2>1. CASE j \in ids
    <3>1. PICK i \in DOMAIN list : list[i].id = j
      BY <2>1
    <3> QED
      BY <1>2, <1>6, <1>7, <3>1
  <2>2. CASE j \notin ids
    <3>1. j \in Jobs
      BY DEF SetOf
    <3>2. PICK i \in DOMAIN more : more[i] = j
      BY <1>1, <2>2, <3>1 DEF SetOf
    <3>3. Len(list) + i \in DOMAIN r /\ r[Len(list) + i] = stray[i]
      BY <1>2, <1>6, <1>7, <3>2
    <3> QED
      BY <1>3, <3>2, <3>3
  <2> QED
    BY <2>1, <2>2
<1> QED
  BY <1>7, <1>9, <1>10 DEF IsJobList, JobList, r, stray, more

LEMMA PollsStep ==
    ASSUME PollsInv, RowInv, RegistryInv, tour \in Tours, PollEffect
    PROVE  PollsInv'
<1>t. MaxPolls \in Nat /\ Cardinality(polls) \in Nat /\ IsFiniteSet(polls)
  BY SourcesAssumption, FS_CardinalityType DEF PollsInv
<1>1. CASE UNCHANGED <<page, polls, shown>>
  BY <1>1 DEF PollsInv, IsJobList, Distinct
<1>2. CASE polls' = {} /\ shown' = <<>>
  BY <1>t, <1>2, FS_EmptySet DEF PollsInv, IsJobList
<1>3. CASE Poll
  <2>1. /\ UNCHANGED <<page, shown>> /\ page = "jobs" /\ Cardinality(polls) < MaxPolls
        /\ polls' = polls \cup {Started}
    BY <1>3 DEF Poll, connVars
  <2>2. IsFiniteSet(polls') /\ Cardinality(polls') <= MaxPolls
    <3>1. IsFiniteSet(polls')
          /\ Cardinality(polls') \in {Cardinality(polls), Cardinality(polls) + 1}
      BY <1>t, <2>1, FS_AddElement
    <3> QED
      BY <1>t, <2>1, <3>1
  <2>3. /\ DOMAIN Started = {"listed", "stored", "list"} /\ Started.listed = FALSE
        /\ Started.stored = registry /\ Started.list = <<>>
    BY DEF Started
  <2>4. registry \in Seq(Jobs) /\ Distinct(registry) /\ IsJobList(<<>>)
    BY DEF RegistryInv, IsJobList
  <2>5. \A p \in polls' :
          /\ DOMAIN p = {"listed", "stored", "list"}
          /\ p.listed \in BOOLEAN
          /\ p.stored \in Seq(Jobs) /\ Distinct(p.stored) /\ IsJobList(p.list)
    BY <2>1, <2>3, <2>4 DEF PollsInv
  <2> QED
    BY <2>1, <2>2, <2>5 DEF PollsInv, IsJobList, Distinct
<1>4. ASSUME NEW p \in polls, ListJobs(p)  PROVE PollsInv'
  <2>1. PICK list : /\ list \in {<<>>, AllJobs} /\ UNCHANGED <<page, shown>>
                    /\ polls' = (polls \ {p}) \cup {[p EXCEPT !.listed = TRUE, !.list = list]}
    BY <1>4 DEF ListJobs, connVars
  <2> DEFINE q == [p EXCEPT !.listed = TRUE, !.list = list]
  <2>2. IsJobList(list)
    <3>1. IsJobList(<<>>)
      BY DEF IsJobList
    <3>2. IsJobList(AllJobs)
      BY AllJobsList
    <3> QED
      BY <2>1, <3>1, <3>2
  <2>3. DOMAIN p = {"listed", "stored", "list"}
    BY DEF PollsInv
  <2>4. /\ DOMAIN q = {"listed", "stored", "list"} /\ q.listed = TRUE
        /\ q.stored = p.stored /\ q.list = list
    BY <2>3
  <2> HIDE DEF q
  <2>5. IsFiniteSet(polls \ {p}) /\ Cardinality(polls \ {p}) = Cardinality(polls) - 1
    BY <1>t, FS_RemoveElement
  <2>6. IsFiniteSet(polls') /\ Cardinality(polls') <= Cardinality(polls)
    <3>1. IsFiniteSet(polls') /\ Cardinality(polls') \in
            {Cardinality(polls \ {p}), Cardinality(polls \ {p}) + 1}
      BY <2>1, <2>5, FS_AddElement
    <3> QED
      BY <1>t, <2>5, <3>1
  <2>7. Cardinality(polls') <= MaxPolls
    BY <1>t, <2>6, FS_CardinalityType DEF PollsInv
  <2>8. \A x \in polls' :
          /\ DOMAIN x = {"listed", "stored", "list"}
          /\ x.listed \in BOOLEAN
          /\ x.stored \in Seq(Jobs) /\ Distinct(x.stored) /\ IsJobList(x.list)
    BY <2>1, <2>2, <2>4 DEF PollsInv, q
  <2> QED
    BY <2>1, <2>6, <2>7, <2>8 DEF PollsInv, IsJobList, Distinct
<1>5. ASSUME NEW p \in polls, ShowJobs(p)  PROVE PollsInv'
  <2>1. /\ UNCHANGED page /\ polls' = polls \ {p}
        /\ \E broken : shown' = JobList(p.stored, p.list, broken)
    BY <1>5 DEF ShowJobs
  <2>2. IsJobList(shown')
    BY <2>1, JobListOf DEF PollsInv, RowInv
  <2>3. IsFiniteSet(polls') /\ Cardinality(polls') <= MaxPolls
    <3>1. IsFiniteSet(polls \ {p}) /\ Cardinality(polls \ {p}) = Cardinality(polls) - 1
      BY <1>t, FS_RemoveElement
    <3> QED
      BY <1>t, <2>1, <3>1 DEF PollsInv
  <2> QED
    BY <2>1, <2>2, <2>3 DEF PollsInv, IsJobList, Distinct
<1> QED
  BY <1>1, <1>2, <1>3, <1>4, <1>5 DEF PollEffect

ListsInv == RegistryInv /\ RowInv /\ PollsInv /\ tour \in Tours

LEMMA ListsStart == SourcesInit => ListsInv
<1> SUFFICES ASSUME SourcesInit  PROVE ListsInv
  OBVIOUS
<1>1. RegistryInv
  BY SourcesAssumption DEF SourcesInit, RegistryInv, Distinct
<1>2. RowInv
  <2>1. CASE status = [j \in Jobs |-> "none"] /\ recent = <<>>
    BY <2>1 DEF RowInv, Distinct, SetOf
  <2>2. ASSUME NEW k \in Jobs, recent = <<k>>,
               status = [j \in Jobs |-> IF j = k THEN "failed" ELSE "none"]
        PROVE  RowInv
    <3>1. recent \in Seq(Jobs) /\ Distinct(recent) /\ SetOf(recent) = {k}
      BY <2>2 DEF Distinct, SetOf
    <3> QED
      BY <2>2, <3>1 DEF RowInv, Stations
  <2> QED
    BY <2>1, <2>2 DEF SourcesInit, Before
<1>3. PollsInv
  BY SourcesAssumption, FS_EmptySet DEF SourcesInit, PollsInv, IsJobList
<1> QED
  BY <1>1, <1>2, <1>3 DEF SourcesInit, ListsInv

LEMMA ListsStep == GhostInv /\ ListsInv /\ [SourcesNext]_sourcesVars => ListsInv'
<1> SUFFICES ASSUME GhostInv, ListsInv, [SourcesNext]_sourcesVars  PROVE ListsInv'
  OBVIOUS
<1>1. RegistryEffect /\ RowEffect /\ PollEffect
  BY StepEffects DEF Effects
<1>2. tour' = tour
  BY DEF SourcesNext, sourcesVars
<1> QED
  BY <1>1, <1>2, RegistryStep, RowStep, PollsStep DEF ListsInv

LEMMA GhostAlways == SourcesSpec => []GhostInv
  BY GhostStart, GhostStep, PTL DEF SourcesSpec

LEMMA ListsAlways == SourcesSpec => []ListsInv
  BY GhostAlways, ListsStart, ListsStep, PTL DEF SourcesSpec

\* The jobs page has no job twice, although it joins the server's list of one time
\* with the browser's of another and polls overtake each other: fetchJobs.
THEOREM NoJobTwiceTheorem == SourcesSpec => []NoJobTwice
<1>1. ListsInv => NoJobTwice
  BY DEF ListsInv, PollsInv, IsJobList, NoJobTwice
<1> QED
  BY <1>1, ListsAlways, PTL

\* A poll that is shown lists every job that was registered when it began, also one
\* whose row is gone, whose status cannot be had, or that the server's list cuts
\* off: fetchJobs in jobs/page.tsx.
THEOREM NothingDroppedTheorem == SourcesSpec => NothingDropped
<1>1. ASSUME GhostInv, ListsInv, [SourcesNext]_sourcesVars,
             NEW p \in polls \ polls', p.listed, UNCHANGED <<page, wiping>>
      PROVE  SetOf(p.stored) \subseteq {shown'[i].id : i \in DOMAIN shown'}
  <2>1. PollEffect /\ polls # polls' /\ page = "jobs"
    BY <1>1, StepEffects DEF Effects, ListsInv, PollsInv
  <2>2. ASSUME NEW q \in polls, ListJobs(q)  PROVE FALSE
    BY <1>1, <2>2 DEF ListJobs
  <2>3. ASSUME NEW q \in polls, ShowJobs(q)
        PROVE  SetOf(p.stored) \subseteq {shown'[i].id : i \in DOMAIN shown'}
    <3>1. q = p /\ \E broken : shown' = JobList(p.stored, p.list, broken)
      BY <1>1, <2>3 DEF ShowJobs
    <3>2. \A j \in SetOf(p.stored) : \E i \in DOMAIN shown' : shown'[i].id = j
      BY <1>1, <3>1, JobListOf DEF ListsInv, PollsInv, RowInv
    <3> QED
      BY <3>2
  <2>4. ~Poll
    BY <1>1 DEF Poll
  <2> QED
    BY <1>1, <2>1, <2>2, <2>3, <2>4 DEF PollEffect
<1>2. GhostInv /\ ListsInv /\ [SourcesNext]_sourcesVars => ShownHasStored
  BY <1>1 DEF ShownHasStored
<1> QED
  BY <1>2, GhostAlways, ListsAlways, PTL DEF SourcesSpec, NothingDropped

------------------------------------------------------------------------------
(* The requests                                                            *)

Phases == {"unused", "sent", "accepted", "refused", "over"}
Fresh == {"unused", "sent", "refused"}
CallType == [by : Makers, src : Sources \cup {Default}, phase : Phases,
             here : BOOLEAN, batch : Nat]

\* What may become of the request of a job.  One that was accepted keeps its source
\* and is not fresh again; one that is over stays so, its maker may leave.
Moves(c, d) ==
    /\ d \in CallType
    /\ (c.by = "space" => c.src \in Spaces) => (d.by = "space" => d.src \in Spaces)
    /\ c.phase \notin Fresh => d.phase \notin Fresh /\ d.src = c.src
    /\ c.phase = "over" =>
           d.phase = "over" /\ d.by \in {c.by, "nobody"} /\ (d.here => c.here)

LEMMA Stays == ASSUME NEW c \in CallType PROVE Moves(c, c)
  BY DEF Moves

LEMMA NoCallType == NoCall \in CallType
  BY DEF NoCall, CallType, Makers, Phases

LEMMA OverMoves ==
    ASSUME NEW c \in CallType
    PROVE  /\ Moves(c, Over(c)) /\ Over(c).phase = "over" /\ Over(c).src = c.src
           /\ Over(c).by \in {c.by, "nobody"}
           /\ Over(c).by # "nobody" => c.here /\ Over(c).by = c.by
           /\ c.here = FALSE => Over(c).here = FALSE
<1>1. CASE c.here /\ c.by \in {"space", "setup"}
  <2>1. Over(c) = [c EXCEPT !.phase = "over"]
    BY <1>1 DEF Over
  <2>2. /\ Over(c) \in CallType /\ Over(c).phase = "over" /\ Over(c).src = c.src
        /\ Over(c).by = c.by /\ Over(c).here = c.here
    BY <2>1 DEF CallType, Phases
  <2> QED
    BY <1>1, <2>2 DEF Moves, Fresh
<1>2. CASE ~(c.here /\ c.by \in {"space", "setup"})
  <2>1. Over(c) = [NoCall EXCEPT !.phase = "over", !.src = c.src]
    BY <1>2 DEF Over
  <2>2. Over(c) = [by |-> "nobody", src |-> c.src, phase |-> "over",
                   here |-> FALSE, batch |-> 0]
    BY <2>1 DEF NoCall
  <2>3. Over(c) \in CallType
    BY <2>2 DEF CallType, Phases, Makers
  <2> QED
    BY <2>2, <2>3 DEF Moves, Fresh
<1> QED
  BY <1>1, <1>2

LEMMA MovesTwice ==
    ASSUME NEW c, NEW d, NEW e, Moves(c, d), Moves(d, e)
    PROVE  Moves(c, e)
  BY DEF Moves

LEMMA ApartMoves ==
    ASSUME NEW c \in [Jobs -> CallType]
    PROVE  /\ Apart(c) \in [Jobs -> CallType]
           /\ \A j \in Jobs : Moves(c[j], Apart(c)[j]) /\ Apart(c)[j].here = FALSE
<1> DEFINE gone(j) == [c[j] EXCEPT !.here = FALSE]
<1>1. Apart(c) = [j \in Jobs |-> IF c[j].phase = "over" THEN Over(gone(j)) ELSE gone(j)]
  BY DEF Apart
<1>2. \A j \in Jobs : gone(j) \in CallType /\ gone(j).here = FALSE
                      /\ gone(j).phase = c[j].phase /\ gone(j).by = c[j].by
                      /\ gone(j).src = c[j].src
  BY DEF CallType
<1> HIDE DEF gone
<1>3. \A j \in Jobs : Moves(c[j], gone(j))
  BY <1>2 DEF Moves, CallType
<1>4. \A j \in Jobs : Moves(c[j], Over(gone(j))) /\ Over(gone(j)).here = FALSE
  BY <1>2, <1>3, OverMoves, MovesTwice
<1>5. \A j \in Jobs : Over(gone(j)) \in CallType
  BY <1>4 DEF Moves
<1> QED
  BY <1>1, <1>2, <1>3, <1>4, <1>5

LEMMA DeafenMoves ==
    ASSUME call \in [Jobs -> CallType], Deafen
    PROVE  /\ call' \in [Jobs -> CallType]
           /\ \A j \in Jobs : Moves(call[j], call'[j]) /\ call'[j].here = FALSE
<1> DEFINE heard(j) ==
             CASE call[j].phase = "sent" -> [call[j] EXCEPT !.by = "nobody"]
               [] call[j].phase = "refused" -> NoCall
               [] call[j].phase = "accepted" -> Over(call[j])
               [] OTHER -> call[j]
           c == [j \in Jobs |-> heard(j)]
<1>1. call' = Apart(c)
  BY DEF Deafen
<1>2. ASSUME NEW j \in Jobs  PROVE heard(j) \in CallType /\ Moves(call[j], heard(j))
  <2>1. CASE call[j].phase = "sent"
    <3>1. heard(j) = [call[j] EXCEPT !.by = "nobody"]
      BY <2>1
    <3>2. /\ heard(j) \in CallType /\ heard(j).by = "nobody"
          /\ heard(j).phase = "sent"
      BY <2>1, <3>1 DEF CallType, Makers
    <3> QED
      BY <2>1, <3>2 DEF Moves, Fresh
  <2>2. CASE call[j].phase = "refused"
    <3>1. heard(j) = NoCall
      BY <2>2
    <3> QED
      BY <2>2, <3>1, NoCallType DEF Moves, Fresh, NoCall
  <2>3. CASE call[j].phase = "accepted"
    <3>1. heard(j) = Over(call[j])
      BY <2>3
    <3>2. call[j] \in CallType
      OBVIOUS
    <3> HIDE DEF heard
    <3> DEFINE one == call[j]
    <3> HIDE DEF one
    <3>3. Moves(one, Over(one))
      <4>1. one \in CallType
        BY <3>2 DEF one
      <4> QED
        BY ONLY <4>1, OverMoves
    <3>4. Moves(call[j], heard(j))
      BY <3>1, <3>3 DEF one
    <3> QED
      BY <3>4 DEF Moves
  <2>4. CASE call[j].phase \notin {"sent", "refused", "accepted"}
    <3>1. heard(j) = call[j]
      BY <2>4
    <3>2. call[j] \in CallType
      OBVIOUS
    <3> QED
      BY <3>1, <3>2, Stays
  <2> QED
    BY <2>1, <2>2, <2>3, <2>4
<1> HIDE DEF heard
<1>3. c \in [Jobs -> CallType] /\ \A j \in Jobs : Moves(call[j], c[j])
  BY <1>2
<1> HIDE DEF c
<1>4. /\ Apart(c) \in [Jobs -> CallType]
      /\ \A j \in Jobs : Moves(c[j], Apart(c)[j]) /\ Apart(c)[j].here = FALSE
  BY <1>3, ApartMoves
<1> QED
  BY <1>1, <1>3, <1>4, MovesTwice

\* The ids of a POST are the least that are unused, in their order.
LeastOf(U, n, q) ==
    /\ \A i, k \in 1..n : i < k => q[i] < q[k]
    /\ \A i \in 1..n, j \in U : j < q[i] => \E k \in 1..n : q[k] = j

LEMMA LeastExist ==
    ASSUME NEW U, U \subseteq Nat, IsFiniteSet(U), NEW n \in Nat, n <= Cardinality(U)
    PROVE  \E q \in [1..n -> U] : LeastOf(U, n, q)
<1> DEFINE A == {m \in Nat : m <= Cardinality(U) =>
                               \E q \in [1..m -> U] : LeastOf(U, m, q)}
<1>0. Cardinality(U) \in Nat
  BY FS_CardinalityType
<1>1. 0 \in A
  <2> DEFINE q == [i \in 1..0 |-> 0]
  <2>1. q \in [1..0 -> U] /\ LeastOf(U, 0, q)
    BY DEF LeastOf
  <2> QED
    BY <2>1
<1>2. ASSUME NEW m \in Nat, m \in A  PROVE m + 1 \in A
  <2> SUFFICES ASSUME m + 1 <= Cardinality(U)
               PROVE  \E q \in [1..(m + 1) -> U] : LeastOf(U, m + 1, q)
    OBVIOUS
  <2>1. PICK q \in [1..m -> U] : LeastOf(U, m, q)
    BY <1>0, <1>2
  <2> DEFINE R == {q[i] : i \in 1..m}
             T == U \ R
  <2>2. T # {}
    <3> SUFFICES ASSUME T = {}  PROVE FALSE
      OBVIOUS
    <3>1. q \in Surjection(1..m, U)
      BY DEF Surjection
    <3>2. IsFiniteSet(1..m) /\ Cardinality(1..m) = m
      BY FS_Interval
    <3>3. Cardinality(U) <= m
      BY <3>1, <3>2, FS_Surjection
    <3> QED
      BY <1>0, <3>3
  <2>3. PICK x \in T : \A y \in T : x <= y
    <3>1. T \subseteq Nat
      OBVIOUS
    <3> HIDE DEF T
    <3> QED
      BY <2>2, <3>1, LeastNatural
  <2> DEFINE r == [i \in 1..(m + 1) |-> IF i = m + 1 THEN x ELSE q[i]]
  <2>4. /\ r \in [1..(m + 1) -> U] /\ r[m + 1] = x
        /\ \A i \in 1..m : r[i] = q[i] /\ q[i] \in U /\ q[i] \in Nat /\ q[i] # x
        /\ 1..(m + 1) = (1..m) \cup {m + 1} /\ x \in Nat
    <3>1. 1..(m + 1) = (1..m) \cup {m + 1} /\ m + 1 \notin 1..m
      OBVIOUS
    <3>2. \A i \in 1..m : q[i] \in U /\ q[i] \in Nat /\ q[i] # x
      OBVIOUS
    <3>3. x \in U /\ x \in Nat
      OBVIOUS
    <3> HIDE DEF R, T
    <3>4. r \in [1..(m + 1) -> U]
      BY <3>1, <3>2, <3>3
    <3> QED
      BY <3>1, <3>2, <3>3, <3>4
  <2>5. \A y \in U : y < x => \E i \in 1..m : q[i] = y
    <3> SUFFICES ASSUME NEW y \in U, y < x  PROVE \E i \in 1..m : q[i] = y
      OBVIOUS
    <3>1. y \notin T
      BY <2>3, <2>4
    <3> QED
      BY <3>1
  <2>6. \A i \in 1..m : q[i] < x
    <3>1. ASSUME NEW i \in 1..m, x < q[i]  PROVE FALSE
      <4>1. x \in U /\ \E k \in 1..m : q[k] = x
        BY <2>1, <3>1 DEF LeastOf
      <4> QED
        BY <4>1
    <3>2. \A i \in 1..m : q[i] \in Nat /\ q[i] # x /\ x \in Nat
      BY <2>4
    <3> HIDE DEF R, T
    <3> QED
      BY <3>1, <3>2
  <2> HIDE DEF r, R, T
  <2>7. \A i, k \in 1..(m + 1) : i < k => r[i] < r[k]
    <3> SUFFICES ASSUME NEW i \in 1..(m + 1), NEW k \in 1..(m + 1), i < k
                 PROVE  r[i] < r[k]
      OBVIOUS
    <3>1. i \in 1..m /\ (k \in 1..m \/ k = m + 1)
      OBVIOUS
    <3> QED
      BY <2>1, <2>4, <2>6, <3>1 DEF LeastOf
  <2>8. \A i \in 1..(m + 1), y \in U : y < r[i] => \E k \in 1..(m + 1) : r[k] = y
    <3> SUFFICES ASSUME NEW i \in 1..(m + 1), NEW y \in U, y < r[i]
                 PROVE  \E k \in 1..m : q[k] = y
      BY <2>4
    <3>1. CASE i \in 1..m
      BY <2>1, <2>4, <3>1 DEF LeastOf
    <3>2. CASE i = m + 1
      BY <2>4, <2>5, <3>2
    <3> QED
      BY <2>4, <3>1, <3>2
  <2> QED
    BY <2>4, <2>7, <2>8 DEF LeastOf
<1> HIDE DEF A
<1>3. n \in A
  BY <1>1, <1>2, Induction
<1> QED
  BY <1>3 DEF A

LEMMA UnusedFinite ==
    ASSUME tour \in Tours
    PROVE  Unused \subseteq Nat /\ Unused \subseteq Jobs /\ IsFiniteSet(Unused)
           /\ Cardinality(Unused) \in Nat
<1>1. tour.jobs \in 0..MaxJobs /\ MaxJobs \in Nat
  BY SourcesAssumption
<1>2. Unused \subseteq 1..tour.jobs
  BY DEF Unused
<1>3. IsFiniteSet(1..tour.jobs)
  BY <1>1, FS_Interval
<1> HIDE DEF Unused
<1>4. IsFiniteSet(Unused)
  BY <1>2, <1>3, FS_Subset
<1>5. Cardinality(Unused) \in Nat
  BY <1>4, FS_CardinalityType
<1>6. Unused \subseteq Nat /\ Unused \subseteq 1..MaxJobs
  BY <1>1, <1>2
<1> QED
  BY <1>4, <1>5, <1>6 DEF Jobs

LEMMA UnusedOnes ==
    ASSUME tour \in Tours, NEW n \in Nat, n <= Cardinality(Unused)
    PROVE  NextIds(n) \in [1..n -> Unused]
<1>1. \E q \in [1..n -> Unused] : LeastOf(Unused, n, q)
  BY UnusedFinite, LeastExist
<1>2. NextIds(n) = CHOOSE q \in [1..n -> Unused] : LeastOf(Unused, n, q)
  BY DEF NextIds, LeastOf
<1> HIDE DEF Unused
<1> QED
  BY <1>1, <1>2

\* A POST takes jobs that are unused, and changes no other.
LEMMA PostMoves ==
    ASSUME tour \in Tours, call \in [Jobs -> CallType],
           NEW q \in Seq(Sources \cup {Default}), NEW maker \in Makers,
           NEW number \in Nat, Post(q, maker, number),
           maker = "space" => \A i \in DOMAIN q : q[i] \in Spaces
    PROVE  /\ call' \in [Jobs -> CallType]
           /\ \A j \in Jobs : Moves(call[j], call'[j])
<1> DEFINE ids == NextIds(Len(q))
           place(j) == CHOOSE i \in DOMAIN q : ids[i] = j
           new(j) == [by |-> maker, src |-> q[place(j)], phase |-> "sent",
                      here |-> TRUE, batch |-> number]
           chosen(j) == \E i \in DOMAIN q : ids[i] = j
<1>1. call' = [j \in Jobs |-> IF chosen(j) THEN new(j) ELSE call[j]]
      /\ Len(q) <= Cardinality(Unused)
  BY DEF Post
<1>2. \A j \in Jobs : chosen(j) => place(j) \in DOMAIN q
  <2> HIDE DEF ids
  <2> QED
    OBVIOUS
<1>3. DOMAIN q = 1..Len(q) /\ Len(q) \in Nat
      /\ \A i \in DOMAIN q : q[i] \in Sources \cup {Default}
  OBVIOUS
<1>4. \A j \in Jobs : chosen(j) => call[j].phase = "unused"
  <2>1. ids \in [1..Len(q) -> Unused]
    BY <1>1, <1>3, UnusedOnes
  <2> HIDE DEF ids
  <2> QED
    BY <1>3, <2>1 DEF Unused
<1> HIDE DEF place, ids
<1>5. \A j \in Jobs : chosen(j) =>
        /\ new(j) \in CallType /\ new(j).by = maker /\ new(j).phase = "sent"
        /\ new(j).by = "space" => new(j).src \in Spaces
  BY <1>2, <1>3 DEF CallType, Phases
<1> HIDE DEF new
<1>6. \A j \in Jobs : chosen(j) => Moves(call[j], new(j))
  BY <1>4, <1>5 DEF Moves, Fresh
<1> HIDE DEF chosen
<1>7. \A j \in Jobs : \/ call'[j] = call[j] /\ call[j] \in CallType
                      \/ chosen(j) /\ call'[j] = new(j)
  BY <1>1
<1>8. \A j \in Jobs : Moves(call[j], call'[j])
  BY <1>6, <1>7, Stays
<1>9. \A j \in Jobs : call'[j] \in CallType
  BY <1>8 DEF Moves
<1> QED
  BY <1>1, <1>8, <1>9

CallInv ==
    /\ call \in [Jobs -> CallType]
    /\ \A j \in Jobs : call[j].by = "space" => call[j].src \in Spaces
    /\ \A j \in Jobs : call[j].phase \in Fresh => status[j] = "none"
    /\ \A j \in Jobs : status[j] # "none" => call[j].src \in Sources
    /\ \A j \in SetOf(registry) : call[j].phase = "over"
    /\ param # NoJob => call[param].phase = "over" /\ call[param].by = "nobody"

\* Only a job that failed is noted as such, and a task that completes its job ends.
TaskInv ==
    /\ fell \subseteq Jobs /\ \A j \in Jobs : status[j] = "failed" => j \in fell
    /\ busy \subseteq Jobs
    /\ \A j \in busy : /\ status[j] # "complete"
                       /\ call[j].phase \notin Fresh /\ call[j].src \in Sources

ViewInv ==
    /\ docs \subseteq Sources
    /\ docCache \in [st : States, val : SUBSET Sources]
    /\ jobCache \in [st : States, val : Seq(Entries)]
    /\ spaces \in [known : BOOLEAN, set : SUBSET Spaces]
    /\ up \in BOOLEAN /\ asking \in BOOLEAN
    /\ extra \in Seq(Repos)

OtherInv ==
    /\ cancels \subseteq Jobs
    /\ unplug \in [Spaces -> {"no", "asked", "apart", "deaf"}]
    /\ grant = {} \/ \E w \in Spaces : grant = {w}
    /\ wiping \in {"no", "asked", "deaf", "done"}
    /\ page \in Pages
    /\ setup \in [st : SetupStates, first : SUBSET Spaces, offered : SUBSET Sources,
                  chosen : SUBSET Sources]
    /\ leaving \in BOOLEAN /\ unheard \in BOOLEAN
    /\ batch \in Nat /\ clicks \in 0..tour.clicks

PageInv ==
    GhostInv /\ SetupInv /\ ListsInv /\ CallInv /\ TaskInv /\ ViewInv /\ OtherInv

\* What a step does to the requests, and to what was read of their jobs.
CallsMove == call' \in [Jobs -> CallType] /\ \A j \in Jobs : Moves(call[j], call'[j])
Taken(j) == call[j].phase \in Fresh /\ call'[j].phase \notin Fresh
              /\ call'[j].src \in Sources
RowMoves(j) ==
    /\ status'[j] = "failed" => status[j] = "failed" \/ j \in fell'
    /\ j \in busy' => \/ j \in busy /\ status'[j] \in {status[j], "none", "running", "failed"}
                      \/ Taken(j) /\ status'[j] = "running"
    /\ \/ status'[j] \in {status[j], "none"}
       \/ status[j] = "running"
       \/ j \in busy /\ status[j] # "none"
       \/ Taken(j) /\ status'[j] = "running"
RowsMove ==
    /\ fell \subseteq fell' /\ fell' \subseteq Jobs /\ busy' \subseteq Jobs
    /\ \A j \in Jobs : RowMoves(j)
RegistryMoves ==
    \A j \in SetOf(registry') :
        \/ j \in SetOf(registry)
        \/ /\ call'[j].phase = "over"
           /\ call'[j].by # "space" \/ jobCache'.st # "loaded"
ParamMoves ==
    \/ param' \in {param, NoJob}
    \/ call'[param'].phase = "over" /\ call'[param'].by = "nobody"
CacheMoves ==
    jobCache'.st = "loaded" =>
        \/ jobCache' = jobCache
        \/ /\ jobCache' = Loaded(OpenJobs)
           /\ UNCHANGED <<status, recent, fell, call, registry>>

PageMoves == CallsMove /\ RowsMove /\ RegistryMoves /\ ParamMoves /\ CacheMoves

LEMMA OneMoves ==
    ASSUME call \in [Jobs -> CallType], NEW j \in Jobs, NEW c, Moves(call[j], c),
           call' = [call EXCEPT ![j] = c]
    PROVE  CallsMove
<1>1. c \in CallType
  BY DEF Moves
<1>2. call' \in [Jobs -> CallType]
      /\ \A k \in Jobs : call'[k] = IF k = j THEN c ELSE call[k]
  BY <1>1
<1>3. \A k \in Jobs : call[k] \in CallType
  OBVIOUS
<1> QED
  BY <1>2, <1>3, Stays DEF CallsMove

LEMMA SameMoves ==
    ASSUME call \in [Jobs -> CallType], UNCHANGED call
    PROVE  CallsMove
<1>1. \A k \in Jobs : call[k] \in CallType
  OBVIOUS
<1> QED
  BY <1>1, Stays DEF CallsMove

LEMMA ListingOf ==
    ASSUME NEW T, NEW S, S \subseteq T, IsFiniteSet(S)
    PROVE  Listing(S) \in Seq(T)
<1> DEFINE n == Cardinality(S)
           Lists(q) == \A x \in S : \E i \in DOMAIN q : q[i] = x
<1>1. n \in Nat /\ ExistsBijection(1..n, S)
  BY FS_CardinalityType
<1>2. PICK b : b \in Surjection(1..n, S)
  BY <1>1 DEF ExistsBijection, Bijection
<1>3. b \in [1..n -> S] /\ Lists(b)
  BY <1>2 DEF Surjection
<1>4. Listing(S) = CHOOSE q \in [1..n -> S] : Lists(q)
  BY DEF Listing
<1> HIDE DEF Lists, n
<1>5. Listing(S) \in [1..n -> S]
  BY <1>3, <1>4
<1>6. Listing(S) = [i \in 1..n |-> Listing(S)[i]] /\ \A i \in 1..n : Listing(S)[i] \in T
  BY <1>5
<1> QED
  BY <1>1, <1>6, IsASeq

LEMMA RowsOfRepos ==
    ASSUME ViewInv
    PROVE  RepoRows \in Seq(Repos)
<1> DEFINE g == docCache.val \cap Repos
           m == (JobSources \cap Repos) \ g
<1>1. IsFiniteSet(Repos) /\ g \subseteq Repos /\ m \subseteq Repos /\ extra \in Seq(Repos)
  BY SourcesAssumption, FS_Subset DEF ViewInv, Sources
<1>2. RepoRows = Listing(g) \o Listing(m) \o extra
  BY DEF RepoRows
<1> HIDE DEF g, m
<1>3. IsFiniteSet(g) /\ IsFiniteSet(m)
  BY <1>1, FS_Subset
<1>4. Listing(g) \in Seq(Repos) /\ Listing(m) \in Seq(Repos)
  BY <1>1, <1>3, ListingOf
<1> QED
  BY ONLY <1>1, <1>2, <1>4, ConcatProperties

\* Steps that do not touch the rows, the ids in the browser or the parameter.
Quiet == UNCHANGED <<status, recent, busy, fell, registry, param>>

LEMMA RowsStay ==
    ASSUME TaskInv, UNCHANGED <<busy, fell>>,
           UNCHANGED status \/ \A j \in Jobs : status'[j] = "none"
    PROVE  RowsMove
  BY DEF TaskInv, RowsMove, RowMoves

LEMMA QuietMoves ==
    ASSUME TaskInv, Quiet, CallsMove, jobCache'.st # "loaded" \/ jobCache' = jobCache
    PROVE  PageMoves
<1>1. RowsMove /\ ParamMoves
  BY RowsStay DEF Quiet, ParamMoves
<1>2. RegistryMoves /\ CacheMoves
  BY DEF Quiet, RegistryMoves, CacheMoves
<1> QED
  BY <1>1, <1>2 DEF PageMoves

LEMMA Uncached ==
    /\ \A h \in BOOLEAN : Invalidate(h) => jobCache'.st # "loaded"
    /\ Render => jobCache'.st # "loaded" \/ jobCache' = jobCache
    /\ \A p : Open(p, Empty({}), Empty(<<>>)) => jobCache'.st # "loaded"
    /\ \A p : Open(p, Kept(docCache, {}), Kept(jobCache, <<>>)) =>
          jobCache'.st # "loaded" \/ jobCache' = jobCache
  BY DEF Invalidate, Render, Open, Kept, Empty, Asked

LEMMA PartMoves ==
    ASSUME call \in [Jobs -> CallType], call' = Apart(call)
    PROVE  CallsMove
  BY ApartMoves DEF CallsMove

LEMMA RequestMoves ==
    ASSUME PageInv, NEW q \in Seq(Sources \cup {Default}), NEW maker \in Makers,
           NEW number \in Nat, Post(q, maker, number),
           maker = "space" => \A i \in DOMAIN q : q[i] \in Spaces,
           Quiet, jobCache'.st # "loaded" \/ jobCache' = jobCache
    PROVE  PageMoves
<1>1. tour \in Tours /\ call \in [Jobs -> CallType]
  BY DEF PageInv, ListsInv, CallInv
<1>2. CallsMove
  BY <1>1, PostMoves DEF CallsMove
<1> QED
  BY <1>2, QuietMoves DEF PageInv

\* The server does a part of its work for job j.
LEMMA ServeMoves ==
    ASSUME PageInv, NEW j \in Jobs, Serve(j)
    PROVE  PageMoves
<1> USE DEF serverVars, askVars, registryVars, connVars, jobsVars, setupVars
<1>t. /\ call \in [Jobs -> CallType] /\ call[j] \in CallType /\ wired \subseteq Spaces
      /\ status \in [Jobs -> Stations \cup {"none"}]
      /\ call[j].by = "space" => call[j].src \in Spaces
      /\ busy \subseteq Jobs /\ fell \subseteq Jobs
  BY DEF PageInv, CallInv, TaskInv, SetupInv, SetupType, ListsInv, RowInv
<1>o. Moves(call[j], Over(call[j])) /\ Over(call[j]).phase = "over"
      /\ Over(call[j]).src = call[j].src
  <2> DEFINE c == call[j]
  <2> HIDE DEF c
  <2>1. Moves(c, Over(c)) /\ Over(c).phase = "over" /\ Over(c).src = c.src
    <3>1. c \in CallType
      BY <1>t DEF c
    <3> QED
      BY ONLY <3>1, OverMoves
  <2> QED
    BY <2>1 DEF c
<1>n. UNCHANGED <<registry, param, jobCache>>
  BY DEF Serve, Accept, Refuse, Work, ServeCancel
<1>q. RegistryMoves /\ ParamMoves /\ CacheMoves
  BY <1>n DEF RegistryMoves, ParamMoves, CacheMoves
<1>1. CASE Accept(j)
  <2> DEFINE c == IF call[j].by = "nobody" THEN Over(call[j])
                  ELSE [call[j] EXCEPT !.phase = "accepted"]
  <2>1. /\ call' = [call EXCEPT ![j] = c] /\ status' = [status EXCEPT ![j] = "running"]
        /\ call[j].phase = "sent" /\ call[j].src \in Sources
        /\ busy' = busy \cup {j} /\ fell' = fell
    BY <1>1, <1>t DEF Accept, Sources
  <2>2. Moves(call[j], c) /\ c.phase \notin Fresh /\ c.src = call[j].src
    <3>1. CASE call[j].by = "nobody"
      BY <1>o, <3>1 DEF Fresh
    <3>2. CASE call[j].by # "nobody"
      <4>1. /\ c \in CallType /\ c.phase = "accepted" /\ c.src = call[j].src
            /\ c.by = call[j].by
        BY <1>t, <3>2 DEF CallType, Phases
      <4> HIDE DEF c
      <4> QED
        BY <2>1, <4>1 DEF Moves, Fresh
    <3> QED
      BY <3>1, <3>2
  <2> HIDE DEF c
  <2>3. CallsMove
    BY <1>t, <2>1, <2>2, OneMoves
  <2>4. /\ call'[j] = c
        /\ \A k \in Jobs : k # j => status'[k] = status[k]
    BY <1>t, <2>1
  <2>5. status'[j] = "running"
    BY <1>t, <2>1
  <2>6. Taken(j)
    BY <2>1, <2>2, <2>4 DEF Taken, Fresh
  <2>7. \A k \in Jobs : RowMoves(k)
    BY <2>1, <2>4, <2>5, <2>6 DEF RowMoves
  <2>8. RowsMove
    BY <1>t, <2>1, <2>7 DEF RowsMove
  <2> QED
    BY <1>q, <2>3, <2>8 DEF PageMoves
<1>2. CASE Refuse(j)
  <2> DEFINE c == IF call[j].by = "nobody" THEN NoCall
                  ELSE [call[j] EXCEPT !.phase = "refused"]
  <2>1. /\ call' = [call EXCEPT ![j] = c] /\ call[j].phase = "sent"
        /\ UNCHANGED <<status, busy, fell>>
    BY <1>2 DEF Refuse
  <2>2. /\ c \in CallType /\ c.phase \in Fresh
        /\ c.by = "space" => c.by = call[j].by /\ c.src = call[j].src
    <3>1. CASE call[j].by = "nobody"
      BY <3>1, NoCallType DEF Fresh, NoCall
    <3>2. CASE call[j].by # "nobody"
      <4>1. /\ c \in CallType /\ c.phase = "refused" /\ c.src = call[j].src
            /\ c.by = call[j].by
        BY <1>t, <3>2 DEF CallType, Phases
      <4> HIDE DEF c
      <4> QED
        BY <4>1 DEF Fresh
    <3> QED
      BY <3>1, <3>2
  <2> HIDE DEF c
  <2>3. Moves(call[j], c)
    BY <1>t, <2>1, <2>2 DEF Moves, Fresh
  <2>4. CallsMove
    BY <1>t, <2>1, <2>3, OneMoves
  <2>5. RowsMove
    BY <2>1, RowsStay DEF PageInv
  <2> QED
    BY <1>q, <2>4, <2>5 DEF PageMoves
<1>3. CASE Work(j) \/ ServeCancel(j)
  <2>1. /\ UNCHANGED call /\ busy' \subseteq busy
        /\ \/ UNCHANGED <<status, fell>>
           \/ \E s \in Stations :
                /\ Write(j, s) /\ (s = "complete" => j \notin busy')
                /\ status[j] = "running" \/ (j \in busy /\ status[j] # "none")
    <3>1. CASE Work(j)
      <4>1. /\ UNCHANGED call /\ j \in busy
            /\ \E s \in Stations, ends \in BOOLEAN :
                /\ s = "complete" => ends
                /\ busy' = IF ends THEN busy \ {j} ELSE busy
                /\ IF status[j] = "none" THEN UNCHANGED <<status, fell, recent>>
                   ELSE Write(j, s)
        BY <3>1, Zenon DEF Work
      <4> QED
        BY <4>1
    <3>2. CASE ServeCancel(j)
      <4>1. /\ UNCHANGED <<call, busy>>
            /\ IF status[j] = "running" THEN Write(j, "failed")
               ELSE UNCHANGED <<status, fell, recent>>
        BY <3>2, Zenon DEF ServeCancel
      <4> QED
        BY <4>1 DEF Stations
    <3> QED
      BY <1>3, <3>1, <3>2
  <2>2. CASE UNCHANGED <<status, fell>>
    <3>1. RowsMove
      BY <1>t, <2>1, <2>2 DEF RowsMove, RowMoves
    <3> QED
      BY <1>q, <1>t, <2>1, <3>1, SameMoves DEF PageMoves
  <2>3. ASSUME NEW s \in Stations, Write(j, s), s = "complete" => j \notin busy',
               status[j] = "running" \/ (j \in busy /\ status[j] # "none")
        PROVE  PageMoves
    <3>1. /\ fell \subseteq fell' /\ fell' \subseteq Jobs /\ busy' \subseteq Jobs
          /\ s = "failed" => j \in fell'
      BY <1>t, <2>1, <2>3 DEF Write
    <3>2. status'[j] = s /\ \A k \in Jobs : k # j => status'[k] = status[k]
      BY <1>t, <2>3 DEF Write
    <3>3. \A k \in Jobs : RowMoves(k)
      BY <2>1, <2>3, <3>1, <3>2 DEF RowMoves, Stations
    <3>4. RowsMove
      BY <3>1, <3>3 DEF RowsMove
    <3> QED
      BY <1>q, <1>t, <2>1, <3>4, SameMoves DEF PageMoves
  <2> QED
    BY <2>1, <2>2, <2>3
<1> QED
  BY <1>1, <1>2, <1>3 DEF Serve

\* A reply arrives.
LEMMA HearMoves ==
    ASSUME PageInv, NEW j \in Jobs, HearCall(j)
    PROVE  PageMoves
<1> USE DEF serverVars, askVars, connVars, jobsVars
<1>t. /\ call \in [Jobs -> CallType] /\ call[j] \in CallType /\ registry \in Seq(Jobs)
  BY DEF PageInv, CallInv, ListsInv, RegistryInv
<1> DEFINE c == IF call[j].phase = "refused" THEN NoCall ELSE Over(call[j])
<1>1. /\ call' = [call EXCEPT ![j] = c] /\ call[j].phase \in {"accepted", "refused"}
      /\ UNCHANGED <<status, recent, busy, fell, param>>
      /\ \/ UNCHANGED <<registry, docCache, jobCache>>
         \/ /\ call[j].phase = "accepted" /\ Remember(j)
            /\ \/ call[j].by = "space" /\ Invalidate(call[j].here)
               \/ /\ call[j].by # "space"
                  /\ Render \/ UNCHANGED <<docCache, jobCache>>
  BY DEF HearCall, HearSpace, HearIndex, registryVars
<1>2. /\ Moves(call[j], c)
      /\ call[j].phase = "accepted" =>
            c.phase = "over" /\ c.by \in {call[j].by, "nobody"}
  <2>1. CASE call[j].phase = "refused"
    BY <2>1, NoCallType DEF Moves, Fresh, NoCall
  <2>2. CASE call[j].phase # "refused"
    <3> DEFINE d == call[j]
    <3>1. c = Over(d)
      BY <2>2
    <3> HIDE DEF d, c
    <3>2. Moves(d, Over(d)) /\ Over(d).phase = "over" /\ Over(d).by \in {d.by, "nobody"}
      <4>1. d \in CallType
        BY <1>t DEF d
      <4> QED
        BY ONLY <4>1, OverMoves
    <3> QED
      BY <3>1, <3>2 DEF d
  <2> QED
    BY <2>1, <2>2
<1> HIDE DEF c
<1>3. CallsMove /\ call'[j] = c
  BY <1>t, <1>1, <1>2, OneMoves
<1>4. RowsMove /\ ParamMoves
  BY <1>1, RowsStay DEF ParamMoves, PageInv
<1>5. call[j].here \in BOOLEAN
  BY <1>t DEF CallType
<1>6. CacheMoves
  BY <1>1, <1>5, Uncached DEF CacheMoves
<1>7. RegistryMoves
  <2>1. CASE UNCHANGED registry
    BY <2>1 DEF RegistryMoves
  <2>2. CASE call[j].phase = "accepted" /\ Remember(j)
    <3>1. \A k \in SetOf(registry') : k \in SetOf(registry) \cup {j}
      BY <1>t, <2>2, RegisterAdds DEF Remember
    <3>2. c.phase = "over" /\ (c.by # "space" \/ jobCache'.st # "loaded"
                                 \/ UNCHANGED registry)
      BY <1>1, <1>2, <1>5, <2>2, Uncached
    <3> QED
      BY <1>3, <3>1, <3>2 DEF RegistryMoves
  <2> QED
    BY <1>1, <2>1, <2>2
<1> QED
  BY <1>3, <1>4, <1>6, <1>7 DEF PageMoves

\* The page is rendered for the first time, with the job of its url.
LEMMA ListMoves ==
    ASSUME PageInv, LoadJobList
    PROVE  PageMoves
<1> USE DEF serverVars, askVars, connVars, jobsVars
<1>t. /\ call \in [Jobs -> CallType] /\ registry \in Seq(Jobs)
      /\ param # NoJob =>
            param \in Jobs /\ call[param].phase = "over" /\ call[param].by = "nobody"
  BY DEF PageInv, CallInv, ListsInv, RegistryInv, GhostInv, GhostType
<1>1. /\ UNCHANGED <<status, recent, busy, fell, call, param>>
      /\ \/ /\ UNCHANGED registry
            /\ jobCache' = Loaded(OpenJobs) \/ jobCache'.st # "loaded"
         \/ param # NoJob /\ Remember(param) /\ jobCache'.st # "loaded"
  BY DEF LoadJobList, registryVars, Asked, Failed
<1>2. CallsMove /\ RowsMove /\ ParamMoves
  BY <1>t, <1>1, SameMoves, RowsStay DEF ParamMoves, PageInv
<1>3. CacheMoves
  BY <1>1 DEF CacheMoves
<1>4. RegistryMoves
  <2>1. CASE UNCHANGED registry
    BY <2>1 DEF RegistryMoves
  <2>2. CASE param # NoJob /\ Remember(param)
    <3>1. \A k \in SetOf(registry') : k \in SetOf(registry) \cup {param}
      BY <1>t, <2>2, RegisterAdds DEF Remember
    <3> QED
      BY <1>t, <1>1, <2>2, <3>1 DEF RegistryMoves
  <2> QED
    BY <1>1, <2>1, <2>2
<1> QED
  BY <1>2, <1>3, <1>4 DEF PageMoves

\* Back from Notion with a job.
LEMMA GrantMoves ==
    ASSUME PageInv, NEW j \in Jobs, GrantJob(j)
    PROVE  PageMoves
<1> DEFINE made == [NoCall EXCEPT !.src = CHOOSE w \in grant : TRUE]
<1>1. /\ call' = [call EXCEPT ![j] = Over(made)] /\ grant # {}
      /\ status' = [status EXCEPT ![j] = "running"] /\ UNCHANGED registryVars
      /\ j \in Unused /\ param' = j /\ Open("connections", Empty({}), Empty(<<>>))
      /\ busy' = busy \cup {j} /\ fell' = fell
  BY DEF GrantJob
<1>2. /\ call \in [Jobs -> CallType] /\ status \in [Jobs -> Stations \cup {"none"}]
      /\ call[j].phase = "unused" /\ busy \subseteq Jobs /\ fell \subseteq Jobs
  BY <1>1 DEF PageInv, CallInv, TaskInv, ListsInv, RowInv, Unused
<1>3. made.src \in Spaces /\ made \in CallType /\ made.by = "nobody" /\ made.here = FALSE
  <2>1. (CHOOSE w \in grant : TRUE) \in Spaces
    BY <1>1 DEF PageInv, OtherInv
  <2> QED
    BY <2>1, NoCallType DEF NoCall, CallType, Sources
<1> HIDE DEF made
<1>4. /\ Over(made) \in CallType /\ Over(made).phase = "over"
      /\ Over(made).by = "nobody" /\ Over(made).src \in Sources
  <2>1. /\ Moves(made, Over(made)) /\ Over(made).phase = "over"
        /\ Over(made).by \in {made.by, "nobody"} /\ Over(made).src = made.src
    BY ONLY <1>3, OverMoves
  <2> QED
    BY <1>3, <2>1 DEF Moves, Sources
<1>5. Moves(call[j], Over(made))
  BY <1>2, <1>4 DEF Moves, Fresh
<1>6. CallsMove /\ call'[j] = Over(made)
  BY <1>1, <1>2, <1>5, OneMoves
<1>7. status'[j] = "running" /\ \A k \in Jobs : k # j => status'[k] = status[k]
  BY <1>1, <1>2
<1>8. RowsMove
  <2>1. Taken(j)
    BY <1>2, <1>4, <1>6 DEF Taken, Fresh
  <2>2. \A k \in Jobs : RowMoves(k)
    BY <1>1, <1>7, <2>1 DEF RowMoves
  <2> QED
    BY <1>1, <1>2, <2>2 DEF RowsMove
<1>9. ParamMoves /\ RegistryMoves /\ CacheMoves
  BY <1>1, <1>4, <1>6, Uncached
     DEF ParamMoves, RegistryMoves, CacheMoves, registryVars
<1> QED
  BY <1>6, <1>8, <1>9 DEF PageMoves

LEMMA StepMoves == PageInv /\ [SourcesNext]_sourcesVars => PageMoves
<1> SUFFICES ASSUME PageInv, [SourcesNext]_sourcesVars  PROVE PageMoves
  OBVIOUS
<1> USE DEF serverVars, askVars, registryVars, connVars, jobsVars, setupVars
<1>t. /\ call \in [Jobs -> CallType] /\ tour \in Tours /\ ViewInv /\ TaskInv
      /\ spaces.set \subseteq Spaces /\ IsFiniteSet(spaces.set)
      /\ setup.chosen \subseteq Sources /\ IsFiniteSet(setup.chosen) /\ batch \in Nat
      /\ \A r \in Repos : <<r>> \in Seq(Sources \cup {Default})
      /\ \A w \in Spaces : <<w>> \in Seq(Sources \cup {Default})
  <2>1. spaces.set \subseteq Spaces /\ setup.chosen \subseteq Sources /\ batch \in Nat
    BY DEF PageInv, ViewInv, SetupInv, SetupType, OtherInv
  <2>2. IsFiniteSet(spaces.set) /\ IsFiniteSet(setup.chosen)
    BY <2>1, Constants, FS_Subset DEF Sources
  <2> QED
    BY <2>1, <2>2 DEF PageInv, CallInv, ListsInv, Sources
<1>p. ASSUME Quiet, UNCHANGED call, jobCache'.st # "loaded" \/ jobCache' = jobCache
      PROVE  PageMoves
  BY <1>t, <1>p, SameMoves, QuietMoves
<1>q. ASSUME Quiet, UNCHANGED <<call, jobCache>>  PROVE PageMoves
  BY <1>p, <1>q
\* A page is left for another.
<1>o. ASSUME CallsMove, UNCHANGED <<status, busy, fell, registry>>, param' \in {param, NoJob},
             jobCache'.st # "loaded" \/ jobCache' = jobCache
      PROVE  PageMoves
  BY <1>o, <1>t, RowsStay DEF PageMoves, ParamMoves, RegistryMoves, CacheMoves
<1>1. ASSUME NEW p \in Pages, Go(p)  PROVE PageMoves
  <2>1. /\ call' = Apart(call) /\ UNCHANGED <<status, busy, fell, registry>> /\ param' = NoJob
        /\ Open(p, Kept(docCache, {}), Kept(jobCache, <<>>))
    BY <1>1 DEF Go, Part
  <2> QED
    BY <1>t, <1>o, <2>1, PartMoves, Uncached
<1>2. CASE Redirect
  <2>1. /\ call' = Apart(call) /\ UNCHANGED <<status, busy, fell, registry>> /\ param' = NoJob
        /\ Open("chat", Kept(docCache, {}), Kept(jobCache, <<>>))
    BY <1>2 DEF Redirect, Part
  <2> QED
    BY <1>t, <1>o, <2>1, PartMoves, Uncached
<1>3. CASE Connect
  <2>1. /\ Deafen /\ UNCHANGED <<status, busy, fell, registry>> /\ param' = NoJob
        /\ Open("notion", Empty({}), Empty(<<>>))
    BY <1>3 DEF Connect, Unload
  <2>2. CallsMove
    BY <1>t, <2>1, DeafenMoves DEF CallsMove
  <2> QED
    BY <1>o, <2>1, <2>2, Uncached
<1>4. CASE HearWipe
  <2>1. /\ Deafen /\ UNCHANGED <<status, busy, fell, param>> /\ registry' = <<>>
        /\ Open(page, Empty({}), Empty(<<>>))
    BY <1>4 DEF HearWipe, ForgetJobs
  <2>2. CallsMove
    BY <1>t, <2>1, DeafenMoves DEF CallsMove
  <2>3. RegistryMoves
    BY <2>1 DEF RegistryMoves, SetOf
  <2> QED
    BY <1>t, <2>1, <2>2, <2>3, RowsStay, Uncached DEF PageMoves, ParamMoves, CacheMoves
<1>5. CASE AbandonGrant
  <2>1. Quiet /\ UNCHANGED call /\ Open("connections", Empty({}), Empty(<<>>))
    BY <1>5 DEF AbandonGrant, Quiet
  <2> QED
    BY <1>p, <2>1, Uncached
<1>6. CASE LoadDocs
  BY <1>6, <1>p DEF LoadDocs, Asked, Quiet
<1>7. CASE Focus \/ ShowProviders
  <2>1. Quiet /\ UNCHANGED call /\ (Invalidate(TRUE) \/ Render)
    BY <1>7 DEF Focus, ShowProviders, Quiet
  <2> QED
    BY <1>p, <2>1, Uncached
<1>8. ASSUME NEW r \in Repos, AddRepo(r)  PROVE PageMoves
  <2>1. Quiet /\ Post(<<r>>, "add", 0) /\ Invalidate(TRUE)
    BY <1>8 DEF AddRepo, Quiet
  <2> QED
    BY <1>t, <2>1, Uncached, RequestMoves DEF Makers
<1>9. ASSUME NEW r \in Repos, Reindex(r)  PROVE PageMoves
  <2>1. Quiet /\ Post(<<r>>, "index", 0) /\ UNCHANGED jobCache
    BY <1>9 DEF Reindex, Quiet
  <2> QED
    BY <1>t, <2>1, RequestMoves DEF Makers
<1>10. ASSUME NEW w \in Spaces, IndexSpace(w)  PROVE PageMoves
  <2>1. Quiet /\ Post(<<w>>, "space", 0) /\ UNCHANGED jobCache
    BY <1>10 DEF IndexSpace, Quiet
  <2>2. \A i \in DOMAIN <<w>> : <<w>>[i] \in Spaces
    OBVIOUS
  <2> QED
    BY <1>t, <2>1, <2>2, RequestMoves DEF Makers
<1>11. ASSUME NEW w \in Spaces, AskDisconnect(w) \/ GrantSpace(w)  PROVE PageMoves
  BY <1>11, <1>q DEF AskDisconnect, GrantSpace, Quiet
<1>12. ASSUME NEW w \in Spaces, Disconnect(w)  PROVE PageMoves
  <2>1. /\ Quiet /\ UNCHANGED call
        /\ Invalidate(TRUE) \/ Invalidate(FALSE) \/ UNCHANGED jobCache
    <3>1. Quiet /\ UNCHANGED call
      BY <1>12 DEF Disconnect, Quiet
    <3>2. CASE unplug[w] = "asked"
      BY <1>12, <3>1, <3>2 DEF Disconnect
    <3>3. CASE unplug[w] = "apart"
      BY <1>12, <3>1, <3>3 DEF Disconnect
    <3>4. CASE unplug[w] \notin {"asked", "apart"}
      BY <1>12, <3>1, <3>4 DEF Disconnect
    <3> QED
      BY <3>2, <3>3, <3>4
  <2> QED
    BY <1>p, <2>1, Uncached
<1>13. CASE ReindexAll
  <2> DEFINE q == RepoRows \o Listing(spaces.set)
  <2>1. Quiet /\ Post(q, "all", 0) /\ UNCHANGED jobCache
    BY <1>13 DEF ReindexAll, Quiet
  <2>2. RepoRows \in Seq(Sources \cup {Default})
    <3>1. RepoRows \in Seq(Repos)
      BY <1>t, RowsOfRepos
    <3> HIDE DEF RepoRows
    <3> QED
      BY <3>1 DEF Sources
  <2>3. Listing(spaces.set) \in Seq(Sources \cup {Default})
    <3>1. spaces.set \subseteq Sources \cup {Default}
      BY <1>t DEF Sources
    <3> QED
      BY <1>t, <3>1, ListingOf
  <2>4. q \in Seq(Sources \cup {Default})
    BY ONLY <2>2, <2>3, ConcatProperties
  <2> HIDE DEF q
  <2> QED
    BY <2>1, <2>4, RequestMoves DEF Makers
<1>14. CASE StartIndexing
  <2>1. Quiet /\ Post(Listing(setup.chosen), "setup", batch + 1) /\ UNCHANGED jobCache
    <3>1. Post(Listing(setup.chosen), "setup", batch + 1)
      BY <1>14, Zenon DEF StartIndexing
    <3>2. Quiet /\ UNCHANGED jobCache
      BY <1>14, Zenon DEF StartIndexing, Quiet
    <3> QED
      BY <3>1, <3>2
  <2>2. Listing(setup.chosen) \in Seq(Sources \cup {Default})
    <3>1. setup.chosen \subseteq Sources \cup {Default}
      BY <1>t
    <3> QED
      BY <1>t, <3>1, ListingOf
  <2>3. batch + 1 \in Nat
    BY <1>t
  <2> QED
    BY <2>1, <2>2, <2>3, RequestMoves DEF Makers
<1>15. ASSUME NEW i \in DOMAIN shown, Rerun(i)  PROVE PageMoves
  <2> DEFINE src == call[shown[i].id].src
             x == IF src \in Repos THEN src ELSE Default
  <2>1. Quiet /\ Post(<<x>>, "rerun", 0) /\ UNCHANGED jobCache
    <3>1. Post(<<x>>, "rerun", 0)
      BY <1>15, Zenon DEF Rerun
    <3>2. Quiet /\ UNCHANGED jobCache
      BY <1>15, Zenon DEF Rerun, Quiet
    <3> QED
      BY <3>1, <3>2
  <2>2. x \in Sources \cup {Default}
    BY DEF Sources
  <2> HIDE DEF x
  <2>3. <<x>> \in Seq(Sources \cup {Default})
    BY <2>2
  <2> QED
    BY <2>1, <2>3, RequestMoves DEF Makers
<1>16. ASSUME NEW i \in DOMAIN shown, Cancel(i)  PROVE PageMoves
  <2>1. Quiet /\ UNCHANGED <<call, jobCache>>
    BY <1>16, Zenon DEF Cancel, Quiet
  <2> QED
    BY <1>q, <2>1
<1>17. CASE Poll \/ AnyList \/ AnyShow
  <2>1. Quiet /\ UNCHANGED <<call, jobCache>>
    <3>1. CASE Poll
      BY <3>1 DEF Poll, Quiet
    <3>2. CASE AnyList
      BY <3>2 DEF AnyList, ListJobs, Quiet
    <3>3. CASE AnyShow
      BY <3>3 DEF AnyShow, ShowJobs, Quiet
    <3> QED
      BY <1>17, <3>1, <3>2, <3>3
  <2> QED
    BY <1>q, <2>1
<1>18. CASE LoadProviders \/ Retry
  <2>1. Quiet /\ UNCHANGED <<call, jobCache>>
    <3>1. CASE LoadProviders
      <4>1. UNCHANGED <<status, recent, busy, fell, call>>
        BY <3>1, Zenon DEF LoadProviders
      <4>2. UNCHANGED <<registry, param, jobCache>>
        BY <3>1, Zenon DEF LoadProviders
      <4> QED
        BY <4>1, <4>2 DEF Quiet
    <3>2. CASE Retry
      BY <3>2 DEF Retry, Quiet
    <3> QED
      BY <1>18, <3>1, <3>2
  <2> QED
    BY <1>q, <2>1
<1>19. ASSUME NEW S, LoadResources(S)  PROVE PageMoves
  BY <1>19, <1>q DEF LoadResources, Quiet
<1>20. ASSUME NEW s \in Sources, Toggle(s)  PROVE PageMoves
  BY <1>20, <1>q DEF Toggle, Quiet
<1>21. CASE AskWipe \/ LoseWipe
  BY <1>21, <1>q DEF AskWipe, LoseWipe, Quiet
<1>22. CASE ServeWipe
  <2>1. /\ UNCHANGED <<busy, fell, call, registry, param, jobCache>>
        /\ (\A j \in Jobs : status'[j] = "none") \/ UNCHANGED status
    BY <1>22 DEF ServeWipe
  <2>2. CallsMove
    BY <1>t, <2>1, SameMoves
  <2> QED
    BY <1>t, <2>1, <2>2, RowsStay DEF PageMoves, ParamMoves, RegistryMoves, CacheMoves
<1>23. CASE UNCHANGED sourcesVars
  BY <1>23, <1>q DEF sourcesVars, Quiet
<1> QED
  BY <1>1, <1>2, <1>3, <1>4, <1>5, <1>6, <1>7, <1>8, <1>9, <1>10, <1>11, <1>12,
     <1>13, <1>14, <1>15, <1>16, <1>17, <1>18, <1>19, <1>20, <1>21, <1>22, <1>23,
     ServeMoves, HearMoves, ListMoves, GrantMoves DEF SourcesNext, SourcesStep

LEMMA CallStep ==
    ASSUME PageInv, PageMoves, ListsInv', GhostInv'
    PROVE  CallInv'
<1>t. /\ CallInv /\ TaskInv /\ CallsMove /\ RowsMove /\ RegistryMoves /\ ParamMoves
      /\ \A j \in SetOf(registry) : j \in Jobs
      /\ \A j \in SetOf(registry') : j \in Jobs
      /\ param \in Jobs \cup {NoJob} /\ param' \in Jobs \cup {NoJob}
  BY DEF PageInv, PageMoves, ListsInv, RegistryInv, GhostInv, GhostType, SetOf
<1>0. /\ call' \in [Jobs -> CallType]
      /\ \A j \in Jobs : Moves(call[j], call'[j]) /\ call'[j] \in CallType
  BY <1>t DEF CallsMove
<1>1. \A j \in Jobs : call'[j].by = "space" => call'[j].src \in Spaces
  BY <1>t, <1>0 DEF CallInv, Moves
<1>2. \A j \in Jobs : call'[j].phase \in Fresh => status'[j] = "none"
  <2> SUFFICES ASSUME NEW j \in Jobs, call'[j].phase \in Fresh  PROVE status'[j] = "none"
    OBVIOUS
  <2>1. call[j].phase \in Fresh /\ status[j] = "none"
    BY <1>t, <1>0 DEF CallInv, Moves
  <2> QED
    BY <1>t, <2>1 DEF RowsMove, RowMoves, Taken, TaskInv
<1>3. \A j \in Jobs : status'[j] # "none" => call'[j].src \in Sources
  <2> SUFFICES ASSUME NEW j \in Jobs, status'[j] # "none"  PROVE call'[j].src \in Sources
    OBVIOUS
  <2>1. CASE status[j] # "none"
    <3>1. call[j].src \in Sources /\ call[j].phase \notin Fresh
      BY <1>t, <2>1 DEF CallInv
    <3> QED
      BY <1>0, <3>1 DEF Moves
  <2>2. CASE status[j] = "none"
    BY <1>t, <2>2 DEF RowsMove, RowMoves, Taken
  <2> QED
    BY <2>1, <2>2
<1>4. \A j \in SetOf(registry') : call'[j].phase = "over"
  BY <1>t, <1>0 DEF CallInv, RegistryMoves, Moves
<1>5. param' # NoJob => call'[param'].phase = "over" /\ call'[param'].by = "nobody"
  BY <1>t, <1>0 DEF CallInv, ParamMoves, Moves
<1>6. SetOf(registry)' = SetOf(registry')
  BY DEF SetOf
<1> QED
  BY <1>0, <1>1, <1>2, <1>3, <1>4, <1>5, <1>6 DEF CallInv

LEMMA TaskStep == ASSUME PageInv, PageMoves PROVE TaskInv'
<1>1. TaskInv /\ CallsMove /\ RowsMove
  BY DEF PageInv, PageMoves
<1>2. \A j \in Jobs : Moves(call[j], call'[j]) /\ RowMoves(j)
  BY <1>1 DEF CallsMove, RowsMove
<1>3. \A j \in Jobs : status'[j] = "failed" => j \in fell'
  BY <1>1, <1>2 DEF TaskInv, RowsMove, RowMoves
<1>4. ASSUME NEW j \in busy'
      PROVE  /\ status'[j] # "complete"
             /\ call'[j].phase \notin Fresh /\ call'[j].src \in Sources
  <2>1. j \in Jobs
    BY <1>1 DEF RowsMove
  <2>2. CASE j \in busy
    <3>1. /\ status[j] # "complete" /\ call[j].phase \notin Fresh
          /\ call[j].src \in Sources
      BY <1>1, <2>2 DEF TaskInv
    <3> QED
      BY <1>2, <2>1, <3>1 DEF RowMoves, Moves, Taken
  <2>3. CASE j \notin busy
    BY <1>2, <2>1, <2>3 DEF RowMoves, Taken
  <2> QED
    BY <2>2, <2>3
<1> QED
  BY <1>1, <1>3, <1>4 DEF TaskInv, RowsMove

DocCaches == [st : States, val : SUBSET Sources]
JobCaches == [st : States, val : Seq(Entries)]
Caches == docCache' \in DocCaches /\ jobCache' \in JobCaches

LEMMA CacheTypes ==
    ASSUME docCache \in DocCaches, jobCache \in JobCaches
    PROVE  /\ UNCHANGED <<docCache, jobCache>> => Caches
           /\ \A h \in BOOLEAN : Invalidate(h) => Caches
           /\ Render => Caches
           /\ \A p : Open(p, Empty({}), Empty(<<>>)) => Caches
           /\ \A p : Open(p, Kept(docCache, {}), Kept(jobCache, <<>>)) => Caches
<1>1. \A v \in SUBSET Sources :
        /\ Empty(v) \in DocCaches /\ Asked(v) \in DocCaches
        /\ Loaded(v) \in DocCaches /\ Failed(v) \in DocCaches
  BY DEF Empty, Asked, Loaded, Failed, DocCaches, States
<1>2. \A v \in Seq(Entries) :
        /\ Empty(v) \in JobCaches /\ Asked(v) \in JobCaches
        /\ Loaded(v) \in JobCaches /\ Failed(v) \in JobCaches
  BY DEF Empty, Asked, Loaded, Failed, JobCaches, States
<1>3. /\ docCache.val \in SUBSET Sources /\ {} \in SUBSET Sources
      /\ jobCache.val \in Seq(Entries) /\ <<>> \in Seq(Entries)
  BY DEF DocCaches, JobCaches
<1> HIDE DEF DocCaches, JobCaches
<1>4. UNCHANGED <<docCache, jobCache>> => Caches
  BY DEF Caches
<1>5. \A h \in BOOLEAN : Invalidate(h) => Caches
  BY <1>1, <1>2, <1>3 DEF Invalidate, Caches
<1>6. Render => Caches
  BY <1>1, <1>2, <1>3 DEF Render, Caches
<1>7. \A p : Open(p, Empty({}), Empty(<<>>)) => Caches
  BY <1>1, <1>2, <1>3 DEF Open, Caches
<1>8. Kept(docCache, {}) \in DocCaches /\ Kept(jobCache, <<>>) \in JobCaches
  BY <1>1, <1>2, <1>3 DEF Kept
<1>9. \A p : Open(p, Kept(docCache, {}), Kept(jobCache, <<>>)) => Caches
  BY <1>1, <1>2, <1>3, <1>8 DEF Open, Caches
<1> QED
  BY <1>4, <1>5, <1>6, <1>7, <1>9

\* What is left of the view, when neither a page is opened nor documents change.
LEMMA ViewFrame ==
    ASSUME ViewInv, Caches, docs' \subseteq Sources, up' \in BOOLEAN,
           asking' \in BOOLEAN, spaces' \in [known : BOOLEAN, set : SUBSET Spaces],
           extra' \in Seq(Repos)
    PROVE  ViewInv'
  BY DEF ViewInv, Caches, DocCaches, JobCaches

LEMMA ViewOpened ==
    ASSUME ViewInv, Caches, docs' \subseteq Sources, NEW p, NEW d, NEW n, Open(p, d, n)
    PROVE  ViewInv'
<1>1. /\ up' \in BOOLEAN /\ asking' \in BOOLEAN /\ extra' \in Seq(Repos)
      /\ spaces' = Unknown
  BY DEF Open
<1>2. Unknown \in [known : BOOLEAN, set : SUBSET Spaces]
  BY DEF Unknown
<1> QED
  BY <1>1, <1>2, ViewFrame

\* The list of the jobs that have not completed has every running one, if it is not
\* cut off, each with its status.
LEMMA OpenJobsList ==
    ASSUME RowInv, tour \in Tours
    PROVE  /\ IsJobList(OpenJobs)
           /\ \A i \in DOMAIN OpenJobs : OpenJobs[i].station = status[OpenJobs[i].id]
           /\ \A j \in Jobs : status[j] = "running" =>
                 \/ Len(OpenJobs) >= ListLimit
                 \/ \E i \in DOMAIN OpenJobs : OpenJobs[i].id = j
<1> DEFINE S == {j \in Jobs : status[j] # "complete"}
           q == Only(recent, S)
           r == Listed(Prefix(q, ListLimit))
<1>1. ListLimit \in Nat
  BY SourcesAssumption DEF ListLimit
<1>2. Filtered(recent, S, Len(recent), q, Jobs)
  BY OnlyFilters DEF RowInv
<1>3. DOMAIN recent = 1..Len(recent)
  BY DEF RowInv
<1> HIDE DEF q
<1>4. /\ q \in Seq(Jobs) /\ Distinct(q)
      /\ \A j : j \in SetOf(q) <=> j \in S /\ j \in SetOf(recent)
  <2> HIDE DEF S
  <2>1. q \in Seq(Jobs) /\ Distinct(q)
    BY <1>2, <1>3 DEF Filtered, Distinct, RowInv
  <2>2. \A j : j \in SetOf(recent) <=> \E i \in 1..Len(recent) : recent[i] = j
    BY <1>3 DEF SetOf
  <2> QED
    BY <1>2, <2>1, <2>2 DEF Filtered
<1>5. /\ IsJobList(r) /\ Len(r) = (IF Len(q) < ListLimit THEN Len(q) ELSE ListLimit)
      /\ \A i \in DOMAIN r :
           i \in DOMAIN q /\ r[i].id = q[i] /\ r[i].station = status[q[i]]
  BY <1>1, <1>4, ListedRows
<1> HIDE DEF r
<1>6. ASSUME NEW j \in Jobs, status[j] = "running", ~(Len(r) >= ListLimit)
      PROVE  \E i \in DOMAIN r : r[i].id = j
  <2>1. Len(q) \in Nat /\ Len(r) = Len(q) /\ DOMAIN q = 1..Len(q)
    BY <1>1, <1>4, <1>5, <1>6
  <2>2. DOMAIN r = 1..Len(r)
    BY <1>5 DEF IsJobList
  <2>3. j \in SetOf(q)
    BY <1>4, <1>6 DEF RowInv
  <2>4. PICK i \in DOMAIN q : q[i] = j
    BY <2>3 DEF SetOf
  <2> QED
    BY <1>5, <2>1, <2>2, <2>4
<1> QED
  BY <1>5, <1>6 DEF OpenJobs, q, r

LEMMA ViewStep ==
    ASSUME PageInv, [SourcesNext]_sourcesVars
    PROVE  ViewInv'
<1> USE DEF serverVars, askVars, registryVars, connVars, jobsVars, setupVars
<1>t. /\ docs \subseteq Sources /\ wired \subseteq Spaces /\ ViewInv
      /\ docCache \in DocCaches /\ jobCache \in JobCaches
      /\ spaces \in [known : BOOLEAN, set : SUBSET Spaces]
      /\ up \in BOOLEAN /\ asking \in BOOLEAN /\ extra \in Seq(Repos)
      /\ call \in [Jobs -> CallType]
  BY DEF PageInv, ViewInv, SetupInv, SetupType, CallInv, DocCaches, JobCaches
<1>f. ASSUME Caches, docs' \subseteq Sources, UNCHANGED <<up, asking, spaces, extra>>
      PROVE  ViewInv'
  BY <1>t, <1>f, ViewFrame
<1>q. ASSUME UNCHANGED <<docs, connVars>>  PROVE ViewInv'
  BY <1>q, <1>t, <1>f, CacheTypes
<1>1. ASSUME NEW p \in Pages, Go(p)  PROVE ViewInv'
  <2>1. Open(p, Kept(docCache, {}), Kept(jobCache, <<>>)) /\ UNCHANGED docs
    BY <1>1 DEF Go
  <2> QED
    BY <1>t, <2>1, CacheTypes, ViewOpened
<1>2. CASE Redirect
  <2>1. Open("chat", Kept(docCache, {}), Kept(jobCache, <<>>)) /\ UNCHANGED docs
    BY <1>2 DEF Redirect
  <2> QED
    BY <1>t, <2>1, CacheTypes, ViewOpened
<1>3. CASE Connect
  <2>1. Open("notion", Empty({}), Empty(<<>>)) /\ UNCHANGED docs
    BY <1>3 DEF Connect
  <2> QED
    BY <1>t, <2>1, CacheTypes, ViewOpened
<1>4. CASE HearWipe
  <2>1. Open(page, Empty({}), Empty(<<>>)) /\ UNCHANGED docs
    BY <1>4 DEF HearWipe
  <2> QED
    BY <1>t, <2>1, CacheTypes, ViewOpened
<1>5. ASSUME NEW j \in Jobs, GrantJob(j)  PROVE ViewInv'
  <2>1. Open("connections", Empty({}), Empty(<<>>)) /\ UNCHANGED docs
    BY <1>5 DEF GrantJob
  <2> QED
    BY <1>t, <2>1, CacheTypes, ViewOpened
<1>6. CASE AbandonGrant
  <2>1. Open("connections", Empty({}), Empty(<<>>)) /\ UNCHANGED docs
    BY <1>6 DEF AbandonGrant
  <2> QED
    BY <1>t, <2>1, CacheTypes, ViewOpened
<1>7. ASSUME NEW j \in Jobs, Serve(j)  PROVE ViewInv'
  <2>1. CASE Accept(j) \/ Refuse(j) \/ ServeCancel(j)
    BY <2>1, <1>q DEF Accept, Refuse, ServeCancel
  <2>2. CASE Work(j)
    <3>1. j \in busy /\ UNCHANGED connVars /\ docs' \in DocsAfter(j)
      BY <2>2, Zenon DEF Work
    <3>2. call[j].src \in Sources
      BY <3>1 DEF PageInv, TaskInv
    <3>3. docs' \subseteq Sources
      BY <1>t, <3>1, <3>2 DEF DocsAfter
    <3> QED
      BY <1>f, <1>t, <3>1, <3>3, CacheTypes
  <2> QED
    BY <1>7, <2>1, <2>2 DEF Serve
<1>8. ASSUME NEW j \in Jobs, HearCall(j)  PROVE ViewInv'
  <2>1. /\ UNCHANGED <<docs, up, asking, spaces, extra>>
        /\ \/ UNCHANGED <<docCache, jobCache>>
           \/ Render
           \/ Invalidate(call[j].here)
    BY <1>8 DEF HearCall, HearSpace, HearIndex
  <2>2. call[j].here \in BOOLEAN
    BY <1>t DEF CallType
  <2>3. Caches
    BY <1>t, <2>1, <2>2, CacheTypes
  <2> QED
    BY <1>t, <1>f, <2>1, <2>3
<1>9. CASE LoadDocs
  <2>1. /\ UNCHANGED <<docs, up, asking, spaces, extra>>
        /\ docCache' \in {Loaded(docs), Failed({})}
        /\ jobCache' \in {Asked(<<>>), jobCache}
    BY <1>9 DEF LoadDocs
  <2>2. Loaded(docs) \in DocCaches /\ Failed({}) \in DocCaches /\ Asked(<<>>) \in JobCaches
    BY <1>t DEF Loaded, Failed, Asked, DocCaches, JobCaches, States
  <2> QED
    BY <1>t, <1>f, <2>1, <2>2 DEF Caches
<1>10. CASE LoadJobList
  <2>1. /\ UNCHANGED <<docs, docCache, spaces, extra>>
        /\ up' \in {up, TRUE} /\ asking' \in {asking, TRUE}
        /\ jobCache' \in {Loaded(OpenJobs), Failed(<<>>), Asked(<<>>)}
    BY <1>10 DEF LoadJobList
  <2>2. OpenJobs \in Seq(Entries)
    BY OpenJobsList DEF PageInv, ListsInv, IsJobList
  <2>3. /\ Loaded(OpenJobs) \in JobCaches /\ Failed(<<>>) \in JobCaches
        /\ Asked(<<>>) \in JobCaches
    BY <2>2 DEF Loaded, Failed, Asked, JobCaches, States
  <2>4. Caches
    BY <1>t, <2>1, <2>3 DEF Caches
  <2> QED
    BY <1>t, <2>1, <2>4, ViewFrame
<1>11. CASE Focus
  <2>1. UNCHANGED <<docs, up, asking, spaces, extra>> /\ Invalidate(TRUE)
    BY <1>11, Zenon DEF Focus
  <2> QED
    BY <1>t, <1>f, <2>1, CacheTypes
<1>12. CASE ShowProviders
  <2>1. /\ UNCHANGED <<docs, up, extra>> /\ Render /\ asking' = FALSE
        /\ \E S \in {wired, {}} : spaces' = [known |-> TRUE, set |-> S]
    BY <1>12 DEF ShowProviders
  <2>2. spaces' \in [known : BOOLEAN, set : SUBSET Spaces]
    BY <1>t, <2>1
  <2> QED
    BY <1>t, <2>1, <2>2, CacheTypes, ViewFrame
<1>13. ASSUME NEW r \in Repos, AddRepo(r)  PROVE ViewInv'
  <2>1. /\ UNCHANGED <<docs, up, asking, spaces>> /\ Invalidate(TRUE)
        /\ extra' = Append(extra, r)
    BY <1>13 DEF AddRepo
  <2>2. extra' \in Seq(Repos)
    BY <1>t, <2>1
  <2> QED
    BY <1>t, <2>1, <2>2, CacheTypes, ViewFrame
<1>14. ASSUME NEW r \in Repos, Reindex(r)  PROVE ViewInv'
  BY <1>14, <1>q DEF Reindex
<1>15. ASSUME NEW w \in Spaces, IndexSpace(w) \/ AskDisconnect(w) \/ GrantSpace(w)
       PROVE  ViewInv'
  BY <1>15, <1>q DEF IndexSpace, AskDisconnect, GrantSpace
<1>16. ASSUME NEW w \in Spaces, Disconnect(w)  PROVE ViewInv'
  <2>1. /\ UNCHANGED <<docs, up, spaces, extra>> /\ asking' \in {asking, TRUE}
        /\ Invalidate(TRUE) \/ Invalidate(FALSE) \/ UNCHANGED <<docCache, jobCache>>
    <3>1. UNCHANGED <<docs, up, spaces, extra>>
      BY <1>16 DEF Disconnect
    <3>2. CASE unplug[w] = "asked"
      BY <1>16, <3>1, <3>2 DEF Disconnect
    <3>3. CASE unplug[w] = "apart"
      BY <1>16, <3>1, <3>3 DEF Disconnect
    <3>4. CASE unplug[w] \notin {"asked", "apart"}
      BY <1>16, <3>1, <3>4 DEF Disconnect
    <3> QED
      BY <3>2, <3>3, <3>4
  <2>2. asking' \in BOOLEAN /\ Caches
    BY <1>t, <2>1, CacheTypes
  <2> QED
    BY <1>t, <2>1, <2>2, ViewFrame
<1>17. CASE ReindexAll
  BY <1>17, <1>q DEF ReindexAll
<1>18. CASE Poll
  BY <1>18, <1>q DEF Poll
<1>19. CASE AnyList \/ AnyShow
  <2>1. UNCHANGED <<docs, connVars>>
    <3>1. CASE AnyList
      BY <3>1 DEF AnyList, ListJobs
    <3>2. CASE AnyShow
      BY <3>2 DEF AnyShow, ShowJobs
    <3> QED
      BY <1>19, <3>1, <3>2
  <2> QED
    BY <1>q, <2>1
<1>20. ASSUME NEW i \in DOMAIN shown, Cancel(i) \/ Rerun(i)  PROVE ViewInv'
  <2>1. UNCHANGED <<docs, connVars>>
    BY <1>20, Zenon DEF Cancel, Rerun
  <2> QED
    BY <1>q, <2>1
<1>21. CASE LoadProviders
  <2>1. UNCHANGED <<docs, connVars>>
    BY <1>21, Zenon DEF LoadProviders
  <2> QED
    BY <1>q, <2>1
<1>22. CASE Retry \/ StartIndexing
  <2>1. UNCHANGED <<docs, connVars>>
    BY <1>22, Zenon DEF Retry, StartIndexing
  <2> QED
    BY <1>q, <2>1
<1>23. ASSUME NEW S, LoadResources(S)  PROVE ViewInv'
  BY <1>23, <1>q DEF LoadResources
<1>24. ASSUME NEW s \in Sources, Toggle(s)  PROVE ViewInv'
  BY <1>24, <1>q DEF Toggle
<1>25. CASE AskWipe \/ LoseWipe
  BY <1>25, <1>q DEF AskWipe, LoseWipe
<1>26. CASE ServeWipe
  <2>1. UNCHANGED connVars /\ docs' \in {docs, {}}
    BY <1>26 DEF ServeWipe
  <2> QED
    BY <1>t, <1>f, <2>1, CacheTypes
<1>27. CASE UNCHANGED sourcesVars
  BY <1>27, <1>q DEF sourcesVars
<1> QED
  BY <1>1, <1>2, <1>3, <1>4, <1>5, <1>6, <1>7, <1>8, <1>9, <1>10, <1>11, <1>12,
     <1>13, <1>14, <1>15, <1>16, <1>17, <1>18, <1>19, <1>20, <1>21, <1>22, <1>23,
     <1>24, <1>25, <1>26, <1>27 DEF SourcesNext, SourcesStep

LEMMA ClickStep ==
    ASSUME [SourcesNext]_sourcesVars
    PROVE  UNCHANGED clicks \/ Click
<1> USE DEF serverVars, askVars, registryVars, connVars, jobsVars, setupVars
<1> DEFINE Counted == UNCHANGED clicks \/ Click
<1>1. ASSUME NEW p \in Pages, Go(p)  PROVE Counted
  BY <1>1 DEF Go
<1>2. ASSUME NEW j \in Jobs, Serve(j)  PROVE Counted
  <2>1. CASE Accept(j)
    BY <2>1 DEF Accept
  <2>2. CASE Refuse(j)
    BY <2>2 DEF Refuse
  <2>3. CASE Work(j)
    BY <2>3, Zenon DEF Work
  <2>4. CASE ServeCancel(j)
    BY <2>4, Zenon DEF ServeCancel
  <2> QED
    BY <1>2, <2>1, <2>2, <2>3, <2>4 DEF Serve
<1>3. ASSUME NEW j \in Jobs, HearCall(j) \/ GrantJob(j)  PROVE Counted
  BY <1>3 DEF HearCall, GrantJob
<1>4. CASE LoadDocs \/ LoadJobList \/ ShowProviders \/ Focus
  BY <1>4 DEF LoadDocs, LoadJobList, ShowProviders, Focus
<1>5. ASSUME NEW r \in Repos, AddRepo(r) \/ Reindex(r)  PROVE Counted
  BY <1>5 DEF AddRepo, Reindex
<1>6. ASSUME NEW w \in Spaces,
             IndexSpace(w) \/ AskDisconnect(w) \/ Disconnect(w) \/ GrantSpace(w)
      PROVE  Counted
  BY <1>6 DEF IndexSpace, AskDisconnect, Disconnect, GrantSpace
<1>7. CASE ReindexAll \/ Connect \/ AbandonGrant
  BY <1>7 DEF ReindexAll, Connect, AbandonGrant
<1>8. CASE Poll \/ AnyList \/ AnyShow
  <2>1. CASE Poll
    BY <2>1 DEF Poll
  <2>2. CASE AnyList
    BY <2>2 DEF AnyList, ListJobs
  <2>3. CASE AnyShow
    BY <2>3 DEF AnyShow, ShowJobs
  <2> QED
    BY <1>8, <2>1, <2>2, <2>3
<1>9. ASSUME NEW i \in DOMAIN shown, Cancel(i) \/ Rerun(i)  PROVE Counted
  BY <1>9, Zenon DEF Cancel, Rerun
<1>10. CASE LoadProviders
  BY <1>10, Zenon DEF LoadProviders
<1>11. CASE Retry \/ StartIndexing
  BY <1>11, Zenon DEF Retry, StartIndexing
<1>12. CASE Redirect
  BY <1>12 DEF Redirect
<1>13. ASSUME NEW S, LoadResources(S)  PROVE Counted
  BY <1>13 DEF LoadResources
<1>14. ASSUME NEW s \in Sources, Toggle(s)  PROVE Counted
  BY <1>14 DEF Toggle
<1>15. CASE AskWipe \/ ServeWipe \/ HearWipe \/ LoseWipe
  BY <1>15 DEF AskWipe, ServeWipe, HearWipe, LoseWipe
<1>16. CASE UNCHANGED sourcesVars
  BY <1>16 DEF sourcesVars
<1> QED
  BY <1>1, <1>2, <1>3, <1>4, <1>5, <1>6, <1>7, <1>8, <1>9, <1>10, <1>11, <1>12,
     <1>13, <1>14, <1>15, <1>16 DEF SourcesNext, SourcesStep

SetupRecords == [st : SetupStates, first : SUBSET Spaces, offered : SUBSET Sources,
                 chosen : SUBSET Sources]
Unplugs == [Spaces -> {"no", "asked", "apart", "deaf"}]

LEMMA OpenSetupType ==
    ASSUME NEW p \in Pages, NEW d, NEW n, Open(p, d, n)
    PROVE  setup' \in SetupRecords /\ page' \in Pages
<1>1. /\ page' = p
      /\ \/ setup' = [NoSetup EXCEPT !.st = "loading"]
         \/ setup' = NoSetup
  BY DEF Open
<1>2. NoSetup \in SetupRecords /\ [NoSetup EXCEPT !.st = "loading"] \in SetupRecords
  BY DEF NoSetup, SetupRecords, SetupStates
<1> QED
  BY <1>1, <1>2

LEMMA OtherStep ==
    ASSUME PageInv, [SourcesNext]_sourcesVars
    PROVE  OtherInv'
<1> USE DEF serverVars, askVars, registryVars, connVars, jobsVars, setupVars
<1>t. /\ cancels \subseteq Jobs /\ unplug \in Unplugs
      /\ grant = {} \/ \E w \in Spaces : grant = {w}
      /\ wiping \in {"no", "asked", "deaf", "done"} /\ page \in Pages
      /\ setup \in SetupRecords /\ leaving \in BOOLEAN /\ unheard \in BOOLEAN
      /\ batch \in Nat /\ clicks \in 0..tour.clicks /\ tour.clicks \in Nat
      /\ wired \subseteq Spaces
  <2>1. tour \in Tours
    BY DEF PageInv, ListsInv
  <2>2. tour.clicks \in Nat
    BY <2>1, SourcesAssumption
  <2> QED
    BY <2>2 DEF PageInv, OtherInv, SetupRecords, Unplugs, SetupInv, SetupType
<1>c. clicks' \in 0..tour'.clicks
  <2>1. tour' = tour
    BY DEF SourcesNext, sourcesVars
  <2>2. UNCHANGED clicks \/ Click
    BY ClickStep
  <2> QED
    BY <1>t, <2>1, <2>2 DEF Click
<1> DEFINE Rest ==
             /\ cancels' \subseteq Jobs /\ unplug' \in Unplugs
             /\ grant' = {} \/ \E w \in Spaces : grant' = {w}
             /\ wiping' \in {"no", "asked", "deaf", "done"} /\ page' \in Pages
             /\ setup' \in SetupRecords /\ leaving' \in BOOLEAN /\ unheard' \in BOOLEAN
             /\ batch' \in Nat
<1> SUFFICES Rest
  BY <1>c DEF OtherInv, SetupRecords, Unplugs
<1>q. ASSUME UNCHANGED <<cancels, unplug, grant, wiping, page, setup, leaving, batch,
                         unheard>>
      PROVE  Rest
  BY <1>t, <1>q
<1>s. ASSUME UNCHANGED <<cancels, unplug, grant, wiping, page, leaving, unheard>>,
             setup' \in SetupRecords, batch' \in Nat
      PROVE  Rest
  BY <1>t, <1>s
<1>p. unplug' = [w \in Spaces |-> IF unplug[w] = "asked" THEN "apart" ELSE unplug[w]]
        => unplug' \in Unplugs
  BY <1>t DEF Unplugs
<1>d. unplug' = [w \in Spaces |-> IF unplug[w] = "no" THEN "no" ELSE "deaf"]
        => unplug' \in Unplugs
  BY <1>t DEF Unplugs
<1>1. ASSUME NEW p \in Pages, Go(p)  PROVE Rest
  <2>1. /\ setup' \in SetupRecords /\ page' \in Pages
        /\ UNCHANGED <<cancels, grant, wiping, leaving, batch, unheard>>
    BY <1>1, OpenSetupType DEF Go
  <2> QED
    BY <1>1, <1>t, <1>p, <2>1 DEF Go, Part
<1>2. CASE Redirect
  <2>1. /\ setup' \in SetupRecords /\ page' \in Pages /\ leaving' = FALSE
        /\ UNCHANGED <<cancels, grant, wiping, batch, unheard>>
    BY <1>2, OpenSetupType DEF Redirect, Pages
  <2> QED
    BY <1>2, <1>t, <1>p, <2>1 DEF Redirect, Part
<1>3. CASE Connect
  <2>1. /\ setup' \in SetupRecords /\ page' \in Pages /\ Unload
        /\ UNCHANGED <<cancels, grant, batch>>
    <3>1. Unload /\ UNCHANGED <<cancels, grant, batch>>
          /\ Open("notion", Empty({}), Empty(<<>>))
      BY <1>3 DEF Connect
    <3> QED
      BY <3>1, OpenSetupType DEF Pages
  <2>2. /\ unplug' \in Unplugs /\ leaving' = FALSE
        /\ wiping' \in {"no", "asked", "deaf", "done"}
        /\ unheard' = (unheard \/ wiping = "done")
    <3>1. unplug' \in Unplugs /\ leaving' = FALSE
      BY <1>d, <2>1 DEF Unload, Deafen
    <3>2. wiping' = CASE wiping = "asked" -> "deaf"
                      [] wiping = "done" -> "no"
                      [] OTHER -> wiping
      BY <2>1 DEF Unload
    <3>3. wiping' \in {"deaf", "no", wiping}
      BY <3>2
    <3> QED
      BY <1>t, <2>1, <3>1, <3>3 DEF Unload
  <2> QED
    BY <1>t, <2>1, <2>2
<1>4. CASE HearWipe
  <2>1. /\ setup' \in SetupRecords /\ page' \in Pages /\ Deafen
        /\ wiping' = "no" /\ unheard' = FALSE /\ UNCHANGED <<cancels, grant, batch>>
    <3>1. /\ Open(page, Empty({}), Empty(<<>>)) /\ Deafen
          /\ wiping' = "no" /\ unheard' = FALSE /\ UNCHANGED <<cancels, grant, batch>>
      BY <1>4 DEF HearWipe
    <3> QED
      BY <1>t, <3>1, OpenSetupType
  <2>2. unplug' \in Unplugs /\ leaving' = FALSE
    BY <1>d, <2>1 DEF Deafen
  <2> QED
    BY <1>t, <2>1, <2>2
<1>5. ASSUME NEW j \in Jobs, GrantJob(j)  PROVE Rest
  <2>1. /\ Open("connections", Empty({}), Empty(<<>>)) /\ grant' = {}
        /\ UNCHANGED <<cancels, unplug, wiping, leaving, batch, unheard>>
    BY <1>5 DEF GrantJob
  <2>2. setup' \in SetupRecords /\ page' \in Pages
    BY <2>1, OpenSetupType DEF Pages
  <2> QED
    BY <1>t, <2>1, <2>2
<1>6. CASE AbandonGrant
  <2>1. /\ Open("connections", Empty({}), Empty(<<>>)) /\ grant' = {}
        /\ UNCHANGED <<cancels, unplug, wiping, leaving, batch, unheard>>
    BY <1>6 DEF AbandonGrant
  <2>2. setup' \in SetupRecords /\ page' \in Pages
    BY <2>1, OpenSetupType DEF Pages
  <2> QED
    BY <1>t, <2>1, <2>2
<1>7. ASSUME NEW j \in Jobs, Serve(j)  PROVE Rest
  <2>1. UNCHANGED <<cancels, unplug, grant, wiping, page, setup, leaving, batch, unheard>>
        \/ ServeCancel(j)
    BY <1>7, Zenon DEF Serve, Accept, Refuse, Work
  <2>2. CASE ServeCancel(j)
    <3>1. /\ cancels' = cancels \ {j}
          /\ UNCHANGED <<unplug, grant, wiping, page, setup, leaving, batch, unheard>>
      BY <2>2, Zenon DEF ServeCancel
    <3> QED
      BY <1>t, <3>1
  <2> QED
    BY <1>q, <2>1, <2>2
<1>8. ASSUME NEW j \in Jobs, HearCall(j)  PROVE Rest
  <2>1. /\ UNCHANGED <<cancels, unplug, grant, wiping, page, batch, unheard>>
        /\ leaving' \in {leaving, TRUE}
        /\ setup' \in {setup, [setup EXCEPT !.st = "done"]}
    BY <1>8 DEF HearCall, HearSetup
  <2>2. [setup EXCEPT !.st = "done"] \in SetupRecords
    BY <1>t DEF SetupRecords, SetupStates
  <2> QED
    BY <1>t, <2>1, <2>2
<1>9. CASE LoadDocs \/ LoadJobList \/ ShowProviders \/ ReindexAll
  BY <1>9, <1>q DEF LoadDocs, LoadJobList, ShowProviders, ReindexAll
<1>10. CASE Focus
  <2>1. UNCHANGED <<cancels, unplug, grant, wiping, page, setup, leaving, batch, unheard>>
    BY <1>10, Zenon DEF Focus
  <2> QED
    BY <1>q, <2>1
<1>11. ASSUME NEW r \in Repos, AddRepo(r) \/ Reindex(r)  PROVE Rest
  BY <1>11, <1>q DEF AddRepo, Reindex
<1>12. ASSUME NEW w \in Spaces, IndexSpace(w)  PROVE Rest
  BY <1>12, <1>q DEF IndexSpace
<1>13. ASSUME NEW w \in Spaces, AskDisconnect(w)  PROVE Rest
  <2>1. /\ unplug' = [unplug EXCEPT ![w] = "asked"]
        /\ UNCHANGED <<cancels, grant, wiping, page, setup, leaving, batch, unheard>>
    BY <1>13 DEF AskDisconnect
  <2>2. unplug' \in Unplugs
    BY <1>t, <2>1 DEF Unplugs
  <2> QED
    BY <1>t, <2>1, <2>2
<1>14. ASSUME NEW w \in Spaces, Disconnect(w)  PROVE Rest
  <2>1. /\ unplug' = [unplug EXCEPT ![w] = "no"]
        /\ UNCHANGED <<cancels, grant, wiping, page, setup, leaving, batch, unheard>>
    BY <1>14 DEF Disconnect
  <2>2. unplug' \in Unplugs
    BY <1>t, <2>1 DEF Unplugs
  <2> QED
    BY <1>t, <2>1, <2>2
<1>15. ASSUME NEW w \in Spaces, GrantSpace(w)  PROVE Rest
  <2>1. /\ grant' = {w}
        /\ UNCHANGED <<cancels, unplug, wiping, page, setup, leaving, batch, unheard>>
    BY <1>15 DEF GrantSpace
  <2> QED
    BY <1>t, <2>1
<1>16. CASE Poll \/ AnyList \/ AnyShow
  <2>1. CASE Poll
    BY <1>q, <2>1 DEF Poll
  <2>2. CASE AnyList
    BY <1>q, <2>2 DEF AnyList, ListJobs
  <2>3. CASE AnyShow
    BY <1>q, <2>3 DEF AnyShow, ShowJobs
  <2> QED
    BY <1>16, <2>1, <2>2, <2>3
<1>17. ASSUME NEW i \in DOMAIN shown, Cancel(i)  PROVE Rest
  <2>1. /\ cancels' = cancels \cup {shown[i].id}
        /\ UNCHANGED <<unplug, grant, wiping, page, setup, leaving, batch, unheard>>
    BY <1>17, Zenon DEF Cancel
  <2>2. shown \in Seq(Entries)
    BY DEF PageInv, ListsInv, PollsInv, IsJobList
  <2>3. shown[i] \in Entries
    BY <2>2
  <2>4. shown[i].id \in Jobs
    BY <2>3 DEF Entries
  <2> QED
    BY <1>t, <2>1, <2>4
<1>18. ASSUME NEW i \in DOMAIN shown, Rerun(i)  PROVE Rest
  <2>1. UNCHANGED <<cancels, unplug, grant, wiping, page, setup, leaving, batch, unheard>>
    BY <1>18, Zenon DEF Rerun
  <2> QED
    BY <1>q, <2>1
<1>19. CASE LoadProviders
  <2>1. UNCHANGED <<cancels, unplug, grant, wiping, page, leaving, batch, unheard>>
    BY <1>19, Zenon DEF LoadProviders
  <2>2. \/ setup' = [setup EXCEPT !.st = "error"]
        \/ \E f \in IF wired = {} THEN {{}} ELSE {{w} : w \in wired} :
              setup' = [setup EXCEPT !.st = "ready", !.first = f]
    BY <1>19, Zenon DEF LoadProviders
  <2>3. \E f \in SUBSET Spaces : \/ setup' = [setup EXCEPT !.st = "error"]
                                 \/ setup' = [setup EXCEPT !.st = "ready", !.first = f]
    <3>1. \A f \in IF wired = {} THEN {{}} ELSE {{w} : w \in wired} : f \in SUBSET Spaces
      BY <1>t
    <3>2. {} \in SUBSET Spaces
      OBVIOUS
    <3> QED
      BY <2>2, <3>1, <3>2, Zenon
  <2>4. setup' \in SetupRecords
    BY <1>t, <2>3 DEF SetupRecords, SetupStates
  <2> QED
    BY <1>t, <1>s, <2>1, <2>4
<1>20. CASE Retry
  <2>1. /\ UNCHANGED <<cancels, unplug, grant, wiping, page, leaving, batch, unheard>>
        /\ setup' = [setup EXCEPT !.st = "loading"]
    BY <1>20 DEF Retry
  <2>2. setup' \in SetupRecords
    BY <1>t, <2>1 DEF SetupRecords, SetupStates
  <2> QED
    BY <1>t, <1>s, <2>1, <2>2
<1>21. CASE StartIndexing
  <2>1. /\ UNCHANGED <<cancels, unplug, grant, wiping, page, leaving, unheard>>
        /\ setup' = [setup EXCEPT !.st = "posting"] /\ batch' = batch + 1
    BY <1>21, Zenon DEF StartIndexing
  <2>2. setup' \in SetupRecords /\ batch' \in Nat
    BY <1>t, <2>1 DEF SetupRecords, SetupStates
  <2> QED
    BY <1>s, <2>1, <2>2
<1>22. ASSUME NEW S \in {Repos} \cup {{w} : w \in Spaces}, LoadResources(S)  PROVE Rest
  <2>1. /\ UNCHANGED <<cancels, unplug, grant, wiping, page, leaving, batch, unheard>>
        /\ setup' = [setup EXCEPT !.offered = setup.offered \cup S]
    BY <1>22 DEF LoadResources
  <2>2. S \subseteq Sources
    BY DEF Sources
  <2>3. setup' \in SetupRecords
    BY <1>t, <2>1, <2>2 DEF SetupRecords
  <2> QED
    BY <1>t, <1>s, <2>1, <2>3
<1>23. ASSUME NEW s \in Sources, Toggle(s)  PROVE Rest
  <2>1. /\ UNCHANGED <<cancels, unplug, grant, wiping, page, leaving, batch, unheard>>
        /\ setup' = [setup EXCEPT !.chosen = IF s \in setup.chosen
                       THEN setup.chosen \ {s} ELSE setup.chosen \cup {s}]
    BY <1>23 DEF Toggle
  <2>2. setup' \in SetupRecords
    BY <1>t, <2>1 DEF SetupRecords
  <2> QED
    BY <1>t, <1>s, <2>1, <2>2
<1>24. CASE AskWipe \/ LoseWipe
  <2>1. CASE AskWipe
    <3>1. /\ UNCHANGED <<cancels, unplug, grant, page, setup, leaving, batch, unheard>>
          /\ wiping' = "asked"
      BY <2>1 DEF AskWipe
    <3> QED
      BY <1>t, <3>1 DEF Rest
  <2>2. CASE LoseWipe
    <3>1. /\ UNCHANGED <<cancels, unplug, grant, page, setup, leaving, batch>>
          /\ wiping' = "no" /\ unheard' = TRUE
      BY <2>2 DEF LoseWipe
    <3> QED
      BY <1>t, <3>1 DEF Rest
  <2> QED
    BY <1>24, <2>1, <2>2
<1>25. CASE ServeWipe
  <2>1. /\ UNCHANGED <<cancels, unplug, grant, page, setup, leaving, batch>>
        /\ wiping' \in {"done", "no"} /\ unheard' \in BOOLEAN
    BY <1>25, <1>t DEF ServeWipe
  <2> QED
    BY <1>t, <2>1
<1>26. CASE UNCHANGED sourcesVars
  BY <1>26, <1>q DEF sourcesVars
<1> HIDE DEF Rest
<1> QED
  BY <1>1, <1>2, <1>3, <1>4, <1>5, <1>6, <1>7, <1>8, <1>9, <1>10, <1>11, <1>12,
     <1>13, <1>14, <1>15, <1>16, <1>17, <1>18, <1>19, <1>20, <1>21, <1>22, <1>23,
     <1>24, <1>25, <1>26 DEF SourcesNext, SourcesStep

------------------------------------------------------------------------------
(* The types                                                               *)

LEMMA PageTypes == PageInv => SourcesTypeOK
<1> SUFFICES ASSUME PageInv  PROVE SourcesTypeOK
  OBVIOUS
<1>1. /\ status \in [Jobs -> Stations \cup {"none"}] /\ recent \in Seq(Jobs)
      /\ registry \in Seq(Jobs) /\ Len(registry) <= Keep
      /\ ever \in Seq(Jobs) /\ late \subseteq Jobs /\ tour \in Tours
      /\ param \in Jobs \cup {NoJob}
  BY DEF PageInv, GhostInv, GhostType, ListsInv, RowInv, RegistryInv
<1>2. /\ docs \subseteq Sources /\ wired \subseteq Spaces /\ up \in BOOLEAN
      /\ docCache \in [st : States, val : SUBSET Sources]
      /\ jobCache \in [st : States, val : Seq(Entries)]
      /\ spaces \in [known : BOOLEAN, set : SUBSET Spaces]
      /\ asking \in BOOLEAN /\ extra \in Seq(Repos)
  BY DEF PageInv, ViewInv, SetupInv, SetupType
<1>3. call \in [Jobs -> [by : Makers, src : Sources \cup {Default},
                         phase : {"unused", "sent", "accepted", "refused", "over"},
                         here : BOOLEAN, batch : Nat]]
  BY DEF PageInv, CallInv, CallType, Phases
<1>4. /\ cancels \subseteq Jobs
      /\ unplug \in [Spaces -> {"no", "asked", "apart", "deaf"}]
      /\ wiping \in {"no", "asked", "deaf", "done"} /\ page \in Pages
      /\ leaving \in BOOLEAN /\ unheard \in BOOLEAN /\ batch \in Nat
      /\ clicks \in 0..tour.clicks /\ busy \subseteq Jobs /\ fell \subseteq Jobs
  BY DEF PageInv, OtherInv, TaskInv
<1>5. setup \in [st : {"none", "loading", "error", "ready", "posting", "done"},
                 first : SUBSET Spaces, offered : SUBSET Sources,
                 chosen : SUBSET Sources]
  BY DEF PageInv, OtherInv, SetupStates
<1>6. grant \subseteq Spaces /\ Cardinality(grant) <= 1
  <2>1. grant = {} \/ \E w \in Spaces : grant = {w}
    BY DEF PageInv, OtherInv
  <2>2. CASE grant = {}
    BY <2>2, FS_EmptySet
  <2>3. ASSUME NEW w \in Spaces, grant = {w}
        PROVE  grant \subseteq Spaces /\ Cardinality(grant) <= 1
    <3>1. Cardinality({w}) = 1
      BY FS_Singleton
    <3> QED
      BY <2>3, <3>1
  <2> QED
    BY <2>1, <2>2, <2>3
<1>7. /\ Cardinality(polls) <= MaxPolls /\ shown \in Seq(Entries)
      /\ \A p \in polls :
          /\ DOMAIN p = {"listed", "stored", "list"}
          /\ p.listed \in BOOLEAN /\ p.stored \in Seq(Jobs) /\ p.list \in Seq(Entries)
  BY DEF PageInv, ListsInv, PollsInv, IsJobList
<1> QED
  BY <1>1, <1>2, <1>3, <1>4, <1>5, <1>6, <1>7 DEF SourcesTypeOK

LEMMA PageStart == SourcesInit => PageInv
<1> SUFFICES ASSUME SourcesInit  PROVE PageInv
  OBVIOUS
<1>1. CallInv /\ TaskInv
  <2>1. /\ registry = <<>> /\ param = NoJob
        /\ wired \subseteq Spaces /\ Spaces \subseteq Sources
    BY DEF SourcesInit, Sources
  <2>2. CASE /\ call = [j \in Jobs |-> NoCall] /\ status = [j \in Jobs |-> "none"]
             /\ busy = {} /\ fell = {}
    <3>1. NoCall.by = "nobody"
      BY DEF NoCall
    <3> QED
      BY <2>1, <2>2, <3>1, NoCallType DEF CallInv, TaskInv, SetOf
  <2>3. ASSUME NEW k \in Jobs, NEW w \in wired, busy = {k}, fell = {k},
               status = [j \in Jobs |-> IF j = k THEN "failed" ELSE "none"],
               call = [j \in Jobs |-> IF j = k
                          THEN [NoCall EXCEPT !.src = w, !.phase = "over"] ELSE NoCall]
        PROVE  CallInv /\ TaskInv
    <3> DEFINE one == [NoCall EXCEPT !.src = w, !.phase = "over"]
    <3>1. /\ one \in CallType /\ one.by = "nobody" /\ one.phase = "over" /\ one.src = w
          /\ NoCall.by = "nobody"
      BY <2>1 DEF NoCall, CallType, Makers, Phases, Sources
    <3> HIDE DEF one
    <3>2. call = [j \in Jobs |-> IF j = k THEN one ELSE NoCall]
      BY <2>3 DEF one
    <3>3. call[k] = one /\ \A j \in Jobs : call[j] \in {one, NoCall}
                          /\ (j # k => status[j] = "none")
      BY <2>3, <3>2
    <3>4. call \in [Jobs -> CallType] /\ status[k] = "failed"
      BY <2>3, <3>1, <3>2, NoCallType
    <3> QED
      BY <2>1, <2>3, <3>1, <3>3, <3>4 DEF CallInv, TaskInv, SetOf, Fresh
  <2> QED
    BY <2>2, <2>3 DEF SourcesInit, Before
<1>2. ViewInv
  <2>1. /\ docs = {} /\ spaces = Unknown /\ up = FALSE /\ asking = FALSE /\ extra = <<>>
        /\ docCache \in {Asked({}), Empty({})} /\ jobCache = Empty(<<>>)
    BY DEF SourcesInit
  <2>2. Asked({}) \in DocCaches /\ Empty({}) \in DocCaches /\ Empty(<<>>) \in JobCaches
    BY DEF Asked, Empty, DocCaches, JobCaches, States
  <2>3. Unknown \in [known : BOOLEAN, set : SUBSET Spaces]
    BY DEF Unknown
  <2>4. docCache \in DocCaches /\ jobCache \in JobCaches
    BY <2>1, <2>2
  <2>5. extra \in Seq(Repos) /\ docs \subseteq Sources
    BY <2>1
  <2>6. up \in BOOLEAN /\ asking \in BOOLEAN
    BY <2>1, Zenon
  <2> QED
    BY <2>1, <2>3, <2>4, <2>5, <2>6 DEF ViewInv, DocCaches, JobCaches
<1>3. OtherInv
  <2>1. /\ cancels = {} /\ unplug = [w \in Spaces |-> "no"] /\ grant = {}
        /\ wiping = "no" /\ leaving = FALSE /\ unheard = FALSE /\ batch = 0
        /\ clicks = 0 /\ tour \in Tours
        /\ page \in AppPages \cup {"setup"}
        /\ setup \in {NoSetup, [NoSetup EXCEPT !.st = "loading"]}
    BY DEF SourcesInit
  <2>2. NoSetup \in SetupRecords /\ [NoSetup EXCEPT !.st = "loading"] \in SetupRecords
    BY DEF NoSetup, SetupRecords, SetupStates
  <2>3. clicks \in 0..tour.clicks
    BY <2>1, SourcesAssumption
  <2> QED
    BY <2>1, <2>2, <2>3 DEF OtherInv, SetupRecords, AppPages, Pages
<1> QED
  BY <1>1, <1>2, <1>3, GhostStart, SetupStart, ListsStart DEF PageInv

LEMMA PageStep == PageInv /\ [SourcesNext]_sourcesVars => PageInv'
<1> SUFFICES ASSUME PageInv, [SourcesNext]_sourcesVars  PROVE PageInv'
  OBVIOUS
<1>1. GhostInv' /\ SetupInv' /\ ListsInv'
  BY GhostStep, SetupStep, ListsStep DEF PageInv
<1>2. CallInv' /\ TaskInv'
  BY <1>1, StepMoves, CallStep, TaskStep
<1>3. ViewInv' /\ OtherInv'
  BY ViewStep, OtherStep
<1> QED
  BY <1>1, <1>2, <1>3 DEF PageInv

LEMMA PageAlways == SourcesSpec => []PageInv
  BY PageStart, PageStep, PTL DEF SourcesSpec

\* Type correctness of the console's pages and of what they show, among it that a
\* list of jobs has ids of jobs only and that no more polls run than MaxPolls.
THEOREM SourcesTypeTheorem == SourcesSpec => []SourcesTypeOK
  BY PageTypes, PageAlways, PTL

------------------------------------------------------------------------------
(* The ids in the browser are the newest                                   *)

\* No id is registered twice since the list was cleared: the reply to a request is
\* heard once, and the id in the url is registered when the page is first rendered.
\* So the list is the beginning of all that were registered.
EverInv ==
    /\ Distinct(ever) /\ registry = Prefix(ever, Keep)
    /\ \A j \in SetOf(ever) : call[j].phase = "over"
    /\ param # NoJob /\ ~up => param \notin SetOf(ever)
    /\ page = "notion" => param = NoJob

\* A list of distinct ids holds all but those that Keep others follow.
LEMMA EverKeeps == PageInv /\ EverInv => RegistryKeepsNewest
<1> SUFFICES ASSUME PageInv, EverInv  PROVE RegistryKeepsNewest
  OBVIOUS
<1> DEFINE n == Len(registry)
<1>1. /\ ever \in Seq(Jobs) /\ Distinct(ever) /\ Keep \in Nat
      /\ DOMAIN ever = 1..Len(ever) /\ Len(ever) \in Nat
      /\ registry = Prefix(ever, Keep)
  BY SourcesAssumption DEF PageInv, ListsInv, RegistryInv, EverInv
<1>2. /\ n = (IF Len(ever) < Keep THEN Len(ever) ELSE Keep)
      /\ n \in 0..Len(ever) /\ DOMAIN registry = 1..n
      /\ \A i \in 1..n : registry[i] = ever[i]
  BY <1>1, PrefixOf
<1> HIDE DEF n
<1>3. SetOf(registry) \subseteq SetOf(ever)
  <2>1. Len(ever) \in Nat /\ n \in 0..Len(ever)
    BY <1>1, <1>2, Zenon
  <2>2. 1..n \subseteq 1..Len(ever)
    BY ONLY <2>1
  <2>3. \A i \in DOMAIN registry : i \in DOMAIN ever /\ registry[i] = ever[i]
    BY <1>1, <1>2, <2>2, Zenon
  <2> QED
    BY <2>3 DEF SetOf
<1>4. ASSUME NEW i \in DOMAIN ever, ever[i] \notin SetOf(registry)
      PROVE  Cardinality({ever[k] : k \in 1..(i - 1)}) >= Keep
  <2> DEFINE T == {ever[k] : k \in 1..(i - 1)}
             f == [k \in 1..(i - 1) |-> ever[k]]
  <2>1. i \notin 1..n
    BY <1>2, <1>4 DEF SetOf
  <2>2. n = Keep /\ i > n /\ i \in Nat /\ i - 1 \in Nat /\ i - 1 >= Keep
    <3>0. /\ i \in 1..Len(ever) /\ Len(ever) \in Nat
          /\ n \in 0..Len(ever) /\ i \notin 1..n
      BY <1>1, <1>2, <2>1, Zenon
    <3>1. i \in 1..Len(ever) /\ n \in Nat /\ i > n
      <4> HIDE DEF T, f
      <4> QED
        BY ONLY <3>0
    <3>2. n = Keep
      <4>1. n < Len(ever) /\ Len(ever) \in Nat
        BY <1>1, <3>1
      <4>2. n = Len(ever) \/ n = Keep
        BY <1>2, Zenon
      <4> QED
        BY <3>1, <4>1, <4>2
    <3> QED
      BY <3>1, <3>2
  <2>3. \A k \in 1..(i - 1) : k \in DOMAIN ever
    BY <1>1, <2>2
  <2>4. f \in Surjection(1..(i - 1), T)
    BY DEF Surjection
  <2>5. f \in Injection(1..(i - 1), T)
    BY <1>1, <2>3, <2>4 DEF Injection, IsInjective, Surjection, Distinct
  <2>6. IsFiniteSet(1..(i - 1)) /\ Cardinality(1..(i - 1)) = i - 1
    BY <2>2, FS_Interval
  <2> HIDE DEF T, f
  <2>7. Cardinality(T) = Cardinality(1..(i - 1))
    BY <2>4, <2>5, <2>6, FS_Surjection
  <2> QED
    BY <2>2, <2>6, <2>7 DEF T
<1> QED
  BY <1>3, <1>4 DEF RegistryKeepsNewest

\* A new id goes before both lists.
LEMMA EverRegisters ==
    ASSUME PageInv, EverInv, NEW j \in Jobs, j \notin SetOf(ever), Remember(j)
    PROVE  /\ Distinct(ever') /\ registry' = Prefix(ever', Keep)
           /\ SetOf(ever') = SetOf(ever) \cup {j}
<1> DEFINE n == Len(registry)
           a == <<j>> \o registry
           b == <<j>> \o ever
<1>0. Keep \in Nat \ {0}
  BY SourcesAssumption
<1>1. /\ ever \in Seq(Jobs) /\ registry \in Seq(Jobs) /\ registry = Prefix(ever, Keep)
      /\ Len(ever) \in Nat /\ Distinct(ever)
  BY DEF PageInv, ListsInv, RegistryInv, EverInv
<1>2. /\ n = (IF Len(ever) < Keep THEN Len(ever) ELSE Keep)
      /\ n \in 0..Len(ever) /\ DOMAIN registry = 1..n
      /\ \A i \in 1..n : registry[i] = ever[i]
  BY <1>0, <1>1, PrefixOf
<1>3. ever' = b /\ registry' = Prefix(a, Keep)
  <2>1. j \notin SetOf(registry)
    BY <1>1, <1>2 DEF SetOf
  <2> QED
    BY <2>1 DEF Remember, RegisterJob
<1>4. /\ a \in Seq(Jobs) /\ Len(a) = n + 1
      /\ a[1] = j /\ \A i \in 2..(n + 1) : a[i] = registry[i - 1]
  BY <1>1, Ahead
<1>5. /\ b \in Seq(Jobs) /\ Len(b) = Len(ever) + 1 /\ Distinct(b)
      /\ DOMAIN b = 1..(Len(ever) + 1) /\ DOMAIN ever = 1..Len(ever)
      /\ b[1] = j /\ \A i \in 2..(Len(ever) + 1) : b[i] = ever[i - 1]
  BY <1>1, Ahead, AheadOnce
<1> DEFINE m == IF n + 1 < Keep THEN n + 1 ELSE Keep
<1>6. m = (IF Len(ever) + 1 < Keep THEN Len(ever) + 1 ELSE Keep) /\ m \in Nat
  BY <1>0, <1>1, <1>2
<1> HIDE DEF a, b, n
<1>7. \A i \in 1..m : a[i] = b[i]
  <2> SUFFICES ASSUME NEW i \in 1..m, i # 1  PROVE a[i] = b[i]
    BY <1>4, <1>5
  <2>1. i \in 2..(n + 1) /\ i \in 2..(Len(ever) + 1) /\ i - 1 \in 1..n
    BY <1>0, <1>1, <1>2
  <2> QED
    <3>1. a[i] = registry[i - 1] /\ b[i] = ever[i - 1]
      BY <1>4, <1>5, <2>1
    <3> QED
      BY <1>2, <2>1, <3>1
<1>8. /\ Prefix(a, Keep) \in Seq(Jobs) /\ Len(Prefix(a, Keep)) = m
      /\ \A i \in 1..m : Prefix(a, Keep)[i] = a[i]
  BY <1>0, <1>4, PrefixOf
<1>9. /\ Prefix(b, Keep) \in Seq(Jobs) /\ Len(Prefix(b, Keep)) = m
      /\ \A i \in 1..m : Prefix(b, Keep)[i] = b[i]
  BY <1>0, <1>5, <1>6, PrefixOf
<1> HIDE DEF m
<1>10. Prefix(a, Keep) = Prefix(b, Keep)
  BY <1>6, <1>7, <1>8, <1>9, SeqEqual
<1>11. SetOf(b) = SetOf(ever) \cup {j}
  <2>1. \A i \in DOMAIN b : i = 1 \/ (i - 1 \in DOMAIN ever /\ b[i] = ever[i - 1])
    BY <1>1, <1>5
  <2>2. SetOf(b) \subseteq SetOf(ever) \cup {j}
    BY <1>5, <2>1 DEF SetOf
  <2>3. \A i \in DOMAIN ever : i + 1 \in DOMAIN b /\ b[i + 1] = ever[i]
    BY <1>1, <1>5
  <2>4. SetOf(ever) \subseteq SetOf(b)
    BY <2>3 DEF SetOf
  <2>5. 1 \in DOMAIN b /\ b[1] = j
    BY <1>1, <1>5
  <2>6. j \in SetOf(b)
    BY <2>5 DEF SetOf
  <2> QED
    BY <2>2, <2>4, <2>6
<1> QED
  BY <1>3, <1>5, <1>10, <1>11

\* What a step registers, and what it does to the id in the url.
EverMoves ==
    \/ /\ UNCHANGED <<registry, ever>>
       /\ \/ param' = NoJob
          \/ UNCHANGED <<param, up, page>>
          \/ page = "notion" /\ page' # "notion" /\ UNCHANGED param
          \/ /\ page' # "notion" /\ param' \in Jobs
             /\ call[param'].phase = "unused"
    \/ \E j \in Jobs :
        /\ Remember(j) /\ call'[j].phase = "over" /\ UNCHANGED <<param, page>>
        /\ \/ call[j].phase = "accepted" /\ UNCHANGED up
           \/ j = param /\ ~up /\ up'
    \/ ForgetJobs /\ UNCHANGED <<param, page>>

LEMMA StepEver == PageInv /\ [SourcesNext]_sourcesVars => EverMoves
<1> SUFFICES ASSUME PageInv, [SourcesNext]_sourcesVars  PROVE EverMoves
  OBVIOUS
<1> USE DEF serverVars, askVars, registryVars, connVars, jobsVars, setupVars
<1>t. /\ call \in [Jobs -> CallType] /\ param \in Jobs \cup {NoJob}
      /\ param # NoJob => call[param].phase = "over"
  BY DEF PageInv, CallInv, GhostInv, GhostType
<1>q. ASSUME UNCHANGED <<registry, ever>>, UNCHANGED <<param, up, page>> \/ param' = NoJob
      PROVE  EverMoves
  BY <1>q DEF EverMoves
<1>1. ASSUME NEW p \in Pages, Go(p)  PROVE EverMoves
  BY <1>1, <1>q DEF Go
<1>2. ASSUME NEW j \in Jobs, Serve(j)  PROVE EverMoves
  <2>1. UNCHANGED <<registry, ever, param, up, page>>
    BY <1>2, Zenon DEF Serve, Accept, Refuse, Work, ServeCancel
  <2> QED
    BY <1>q, <2>1
<1>3. ASSUME NEW j \in Jobs, HearCall(j)  PROVE EverMoves
  <2>1. /\ UNCHANGED <<param, up, page>>
        /\ \/ UNCHANGED <<registry, ever>>
           \/ /\ Remember(j) /\ call[j].phase = "accepted"
              /\ call' = [call EXCEPT ![j] = Over(call[j])]
    BY <1>3 DEF HearCall, HearSpace, HearIndex
  <2>2. Over(call[j]).phase = "over"
    <3> DEFINE c == call[j]
    <3>1. c \in CallType
      BY <1>t
    <3> HIDE DEF c
    <3>2. Over(c).phase = "over"
      BY ONLY <3>1, OverMoves
    <3> QED
      BY <3>2 DEF c
  <2> QED
    BY <1>t, <2>1, <2>2 DEF EverMoves
<1>4. ASSUME NEW j \in Jobs, GrantJob(j)  PROVE EverMoves
  <2>1. /\ j \in Unused /\ param' = j /\ Open("connections", Empty({}), Empty(<<>>))
        /\ UNCHANGED <<registry, ever>>
    BY <1>4 DEF GrantJob
  <2>2. page' # "notion" /\ call[j].phase = "unused"
    BY <2>1 DEF Open, Unused
  <2> QED
    BY <2>1, <2>2 DEF EverMoves
<1>5. CASE LoadJobList
  <2>1. /\ UNCHANGED <<param, page, call>>
        /\ \/ UNCHANGED <<registry, ever>>
           \/ param # NoJob /\ Remember(param) /\ ~up /\ up' = TRUE
    BY <1>5 DEF LoadJobList
  <2>2. CASE param # NoJob /\ Remember(param) /\ ~up /\ up' = TRUE
    BY <1>t, <2>1, <2>2 DEF EverMoves
  <2>3. UNCHANGED up \/ param = NoJob \/ (param # NoJob /\ Remember(param) /\ ~up /\ up')
    BY <1>5 DEF LoadJobList
  <2> QED
    BY <1>q, <2>1, <2>2, <2>3
<1>6. CASE LoadDocs \/ ShowProviders \/ Focus \/ ReindexAll
  <2>1. UNCHANGED <<registry, ever, param, up, page>>
    BY <1>6, Zenon DEF LoadDocs, ShowProviders, Focus, ReindexAll
  <2> QED
    BY <1>q, <2>1
<1>7. ASSUME NEW r \in Repos, AddRepo(r) \/ Reindex(r)  PROVE EverMoves
  BY <1>7, <1>q, Zenon DEF AddRepo, Reindex
<1>8. ASSUME NEW w \in Spaces,
             IndexSpace(w) \/ AskDisconnect(w) \/ Disconnect(w) \/ GrantSpace(w)
      PROVE  EverMoves
  BY <1>8, <1>q, Zenon DEF IndexSpace, AskDisconnect, Disconnect, GrantSpace
<1>9. CASE Connect
  BY <1>9, <1>q DEF Connect
<1>10. CASE AbandonGrant
  BY <1>10 DEF AbandonGrant, EverMoves, Open
<1>11. CASE Poll \/ AnyList \/ AnyShow
  <2>1. UNCHANGED <<registry, ever, param, up, page>>
    BY <1>11, Zenon DEF Poll, AnyList, ListJobs, AnyShow, ShowJobs
  <2> QED
    BY <1>q, <2>1
<1>12. ASSUME NEW i \in DOMAIN shown, Cancel(i) \/ Rerun(i)  PROVE EverMoves
  <2>1. UNCHANGED <<registry, ever, param, up, page>>
    BY <1>12, Zenon DEF Cancel, Rerun
  <2> QED
    BY <1>q, <2>1
<1>13. CASE LoadProviders \/ Retry \/ StartIndexing
  <2>1. UNCHANGED <<registry, ever, param, up, page>>
    BY <1>13, Zenon DEF LoadProviders, Retry, StartIndexing
  <2> QED
    BY <1>q, <2>1
<1>14. CASE Redirect
  BY <1>14, <1>q DEF Redirect
<1>15. ASSUME NEW S, LoadResources(S)  PROVE EverMoves
  BY <1>15, <1>q DEF LoadResources
<1>16. ASSUME NEW s \in Sources, Toggle(s)  PROVE EverMoves
  BY <1>16, <1>q DEF Toggle
<1>17. CASE AskWipe \/ ServeWipe \/ LoseWipe
  <2>1. UNCHANGED <<registry, ever, param, up, page>>
    BY <1>17, Zenon DEF AskWipe, ServeWipe, LoseWipe
  <2> QED
    BY <1>q, <2>1
<1>18. CASE HearWipe
  BY <1>18 DEF HearWipe, Open, EverMoves
<1>19. CASE UNCHANGED sourcesVars
  BY <1>19, <1>q DEF sourcesVars
<1> QED
  BY <1>1, <1>2, <1>3, <1>4, <1>5, <1>6, <1>7, <1>8, <1>9, <1>10, <1>11, <1>12,
     <1>13, <1>14, <1>15, <1>16, <1>17, <1>18, <1>19 DEF SourcesNext, SourcesStep

LEMMA EverStep == PageInv /\ EverInv /\ [SourcesNext]_sourcesVars => EverInv'
<1> SUFFICES ASSUME PageInv, EverInv, [SourcesNext]_sourcesVars  PROVE EverInv'
  OBVIOUS
<1>1. EverMoves /\ CallsMove
  BY StepEver, StepMoves DEF PageMoves
<1>t. /\ ever \in Seq(Jobs) /\ \A j \in SetOf(ever) : j \in Jobs
      /\ \A j \in SetOf(ever) : call[j].phase = "over" /\ call'[j].phase = "over"
  <2>1. ever \in Seq(Jobs)
    BY DEF PageInv, ListsInv, RegistryInv
  <2>2. \A j \in SetOf(ever) : j \in Jobs
    BY <2>1 DEF SetOf
  <2> QED
    BY <1>1, <2>1, <2>2 DEF EverInv, CallsMove, Moves
<1>s. SetOf(ever)' = SetOf(ever') /\ Distinct(ever)' = Distinct(ever')
  BY DEF SetOf, Distinct
<1>p. Prefix(ever, Keep)' = Prefix(ever', Keep)
  BY DEF Prefix
<1>2. ASSUME UNCHANGED <<registry, ever>>,
             \/ param' = NoJob
             \/ UNCHANGED <<param, up, page>>
             \/ page = "notion" /\ page' # "notion" /\ UNCHANGED param
             \/ /\ page' # "notion" /\ param' \in Jobs
                /\ call[param'].phase = "unused"
      PROVE  EverInv'
  <2>1. Distinct(ever') /\ registry' = Prefix(ever', Keep) /\ SetOf(ever') = SetOf(ever)
    BY <1>2 DEF EverInv
  <2>2. (param' # NoJob /\ ~up' => param' \notin SetOf(ever'))
        /\ (page' = "notion" => param' = NoJob)
    BY <1>2, <1>t, <2>1 DEF EverInv
  <2> QED
    BY <1>s, <1>p, <1>t, <2>1, <2>2 DEF EverInv
<1>3. ASSUME NEW j \in Jobs, Remember(j), call'[j].phase = "over",
             UNCHANGED <<param, page>>,
             \/ call[j].phase = "accepted" /\ UNCHANGED up
             \/ j = param /\ ~up /\ up'
      PROVE  EverInv'
  <2>1. j \notin SetOf(ever)
    <3>1. j # NoJob
      BY SourcesAssumption DEF Jobs, NoJob
    <3> QED
      BY <1>3, <1>t, <3>1 DEF EverInv
  <2>2. /\ Distinct(ever') /\ registry' = Prefix(ever', Keep)
        /\ SetOf(ever') = SetOf(ever) \cup {j}
    BY <1>3, <2>1, EverRegisters
  <2>3. param' # NoJob /\ ~up' => param' \notin SetOf(ever')
    <3>1. param # NoJob => call[param].phase = "over"
      BY DEF PageInv, CallInv
    <3> QED
      BY <1>3, <2>2, <3>1 DEF EverInv
  <2> QED
    BY <1>3, <1>s, <1>p, <1>t, <2>2, <2>3 DEF EverInv
<1>4. CASE ForgetJobs /\ UNCHANGED <<param, page>>
  <2>1. registry' = <<>> /\ ever' = <<>> /\ SetOf(ever') = {} /\ Distinct(ever')
    BY <1>4 DEF ForgetJobs, SetOf, Distinct
  <2>2. Prefix(<<>>, Keep) = <<>>
    BY SourcesAssumption DEF Prefix
  <2> QED
    BY <1>4, <1>s, <1>p, <2>1, <2>2 DEF EverInv
<1> QED
  BY <1>1, <1>2, <1>3, <1>4 DEF EverMoves

LEMMA EverStart == SourcesInit => EverInv
<1> SUFFICES ASSUME SourcesInit  PROVE EverInv
  OBVIOUS
<1>1. registry = <<>> /\ ever = <<>> /\ param = NoJob
  BY DEF SourcesInit
<1>2. Prefix(<<>>, Keep) = <<>>
  BY SourcesAssumption DEF Prefix
<1> QED
  BY <1>1, <1>2 DEF EverInv, Distinct, SetOf

\* The browser forgets a job only for Keep newer ones, or in a wipe, in whatever
\* order the requests of the pages are answered, those of pages that were left
\* included, and although one id comes in the url: registerJob in jobs/page.tsx, for
\* any number of ids it keeps, in a browser with one tab.
THEOREM NewestTheorem == SourcesSpec => []RegistryKeepsNewest
<1>1. SourcesSpec => []EverInv
  BY PageAlways, EverStart, EverStep, PTL DEF SourcesSpec
<1> QED
  BY <1>1, PageAlways, EverKeeps, PTL

------------------------------------------------------------------------------
(* What the connections page says of the jobs it started                   *)

\* The job was started from the page that is open, which has heard so.
FromPage(j) ==
    /\ call[j].by = "space" /\ call[j].here /\ call[j].phase = "over"
    /\ j \in SetOf(registry)

\* As long as such a job runs, and has not failed before, the list of the page has
\* it, unless the list is cut off, and no job fails there that never did: whatever
\* would make the list out of date, the reply to the request or an end of the job,
\* was before it.
StartedInv ==
    \A j \in Jobs :
        /\ FromPage(j) /\ jobCache.st = "loaded" /\ status[j] = "running"
        /\ j \notin fell
        =>
            /\ \/ Len(jobCache.val) >= ListLimit
               \/ \E i \in DOMAIN jobCache.val : jobCache.val[i].id = j
            /\ \A i \in DOMAIN jobCache.val :
                  jobCache.val[i].station = "failed" => jobCache.val[i].id \in fell

LEMMA StartedStart == SourcesInit => StartedInv
<1> SUFFICES ASSUME SourcesInit  PROVE StartedInv
  OBVIOUS
<1>1. jobCache.st = "none"
  BY DEF SourcesInit, Empty
<1> QED
  BY <1>1 DEF StartedInv

LEMMA StartedStep ==
    PageInv /\ PageInv' /\ StartedInv /\ [SourcesNext]_sourcesVars => StartedInv'
<1> SUFFICES ASSUME PageInv, PageInv', StartedInv, [SourcesNext]_sourcesVars,
                    NEW j \in Jobs, FromPage(j)', jobCache'.st = "loaded",
                    status'[j] = "running", j \notin fell'
             PROVE  /\ \/ Len(jobCache'.val) >= ListLimit'
                       \/ \E i \in DOMAIN jobCache'.val : jobCache'.val[i].id = j
                    /\ \A i \in DOMAIN jobCache'.val :
                          jobCache'.val[i].station = "failed" =>
                              jobCache'.val[i].id \in fell'
  BY DEF StartedInv
<1>1. CallsMove /\ RowsMove /\ RegistryMoves /\ CacheMoves
  BY StepMoves DEF PageMoves
<1>2. tour' = tour /\ ListLimit' = ListLimit /\ tour \in Tours
  BY DEF SourcesNext, sourcesVars, ListLimit, PageInv, ListsInv
<1>3. FromPage(j)
  <2>1. j \in SetOf(registry')
    BY DEF FromPage, SetOf
  <2>2. j \in SetOf(registry) /\ call'[j].by = "space" /\ call'[j].here
    BY <1>1, <2>1 DEF RegistryMoves, FromPage
  <2>3. call[j].phase = "over" /\ Moves(call[j], call'[j])
    BY <1>1, <2>2 DEF PageInv, CallInv, CallsMove
  <2> QED
    BY <2>2, <2>3 DEF FromPage, Moves
<1>4. status[j] = "running" /\ j \notin fell
  <2>1. RowMoves(j) /\ fell \subseteq fell' /\ TaskInv /\ call[j].phase = "over"
    BY <1>1, <1>3 DEF RowsMove, PageInv, FromPage
  <2>2. status[j] \in Stations \cup {"none"}
    BY DEF PageInv, ListsInv, RowInv
  <2> QED
    BY <2>1, <2>2 DEF RowMoves, Taken, Fresh, TaskInv, Stations
<1>5. CASE jobCache' = jobCache
  BY <1>1, <1>2, <1>3, <1>4, <1>5 DEF StartedInv, RowsMove
<1>6. CASE jobCache' = Loaded(OpenJobs) /\ UNCHANGED <<status, fell>>
  <2>1. jobCache'.val = OpenJobs
    BY <1>6 DEF Loaded
  <2>2. RowInv /\ TaskInv
    BY DEF PageInv, ListsInv
  <2>3. /\ IsJobList(OpenJobs)
        /\ \A i \in DOMAIN OpenJobs : OpenJobs[i].station = status[OpenJobs[i].id]
        /\ Len(OpenJobs) >= ListLimit \/ \E i \in DOMAIN OpenJobs : OpenJobs[i].id = j
    BY <1>2, <1>4, <2>2, OpenJobsList
  <2>4. ASSUME NEW i \in DOMAIN OpenJobs, OpenJobs[i].station = "failed"
        PROVE  OpenJobs[i].id \in fell
    <3>1. OpenJobs[i] \in Entries
      BY <2>3 DEF IsJobList
    <3>2. OpenJobs[i].id \in Jobs
      BY <3>1 DEF Entries
    <3> QED
      BY <2>2, <2>3, <2>4, <3>2 DEF TaskInv
  <2> QED
    BY <1>2, <1>6, <2>1, <2>3, <2>4
<1> QED
  BY <1>1, <1>5, <1>6 DEF CacheMoves

\* The rows of the page say so.
LEMMA StartedShows == PageInv /\ StartedInv => StartedShowsIndexing
<1> SUFFICES ASSUME PageInv, StartedInv, NEW j \in Jobs,
                    jobCache.st = "loaded", Len(jobCache.val) < ListLimit,
                    FromPage(j), status[j] = "running",
                    \A k \in fell : call[k].src # call[j].src
             PROVE  \E r \in NotionRows : r.of = call[j].src /\ r.st = "indexing"
  BY DEF StartedShowsIndexing, FromPage
<1> DEFINE w == call[j].src
           list == jobCache.val
           of == {i \in DOMAIN list : call[list[i].id].src = w}
<1>1. w \in Spaces /\ list \in Seq(Entries) /\ ListLimit \in Nat
  BY SourcesAssumption
     DEF PageInv, CallInv, FromPage, ViewInv, ListsInv, ListLimit
<1>2. /\ \E i \in DOMAIN list : list[i].id = j
      /\ \A i \in DOMAIN list : list[i].station = "failed" => list[i].id \in fell
  BY <1>1 DEF StartedInv
<1>3. of # {} /\ of \subseteq Nat
  BY <1>1, <1>2
<1>4. PICK n \in of : \A k \in of : n <= k
  <2> HIDE DEF of
  <2> QED
    BY <1>3, LeastNatural
<1> DEFINE m == CHOOSE i \in of : \A k \in of : i <= k
<1>5. m \in of
  <2> HIDE DEF of
  <2> QED
    BY <1>4
<1>6. LatestOf(w) = list[m] /\ w \in JobSources
  BY <1>2 DEF LatestOf, JobSources
<1> HIDE DEF m
<1>7. list[m].station # "failed"
  <2>1. list[m] \in Entries /\ call[list[m].id].src = w /\ m \in DOMAIN list
    BY <1>1, <1>5
  <2>2. list[m].id \in Jobs
    BY <2>1 DEF Entries
  <2> QED
    BY <1>2, <2>1, <2>2
<1> HIDE DEF w, of
<1>8. \A kind : kind # "connected" =>
        SpaceRow(w, kind).of = w /\ SpaceRow(w, kind).st = "indexing"
  BY <1>6, <1>7 DEF SpaceRow
<1>9. CASE w \in docCache.val
  <2>1. SpaceRow(w, "documents") \in NotionRows
    BY <1>1, <1>9 DEF NotionRows
  <2> QED
    BY <1>8, <2>1 DEF w
<1>10. CASE w \notin docCache.val
  <2>1. SpaceRow(w, "job") \in NotionRows
    BY <1>1, <1>6, <1>10 DEF NotionRows
  <2> QED
    BY <1>8, <2>1 DEF w
<1> QED
  BY <1>9, <1>10

\* A workspace none of whose jobs has ever failed shows as indexing while a job that
\* was started from the page that is open runs: handleIndexNotion drops the page's
\* list of jobs when the reply is there and every list it has after that was read
\* later, so that the row cannot go back to what it was (connections/page.tsx).  A
\* job that failed may run again, cancelled before its task was done, and the row
\* goes on to show the error.
THEOREM StartedTheorem == SourcesSpec => []StartedShowsIndexing
<1>1. SourcesSpec => []StartedInv
  BY PageAlways, StartedStart, StartedStep, PTL DEF SourcesSpec
<1> QED
  BY <1>1, PageAlways, StartedShows, PTL
==============================================================================
