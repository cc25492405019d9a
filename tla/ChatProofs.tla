------------------------------ MODULE ChatProofs ------------------------------
(***************************************************************************)
(* Theorems about Chat for any number of conversations, questions, loads   *)
(* and deletes, any length of an answer and any number of clicks and       *)
(* faults: type correctness, what the server stores (ExchangeIsWhole,      *)
(* NoOrphans) and what it gives the model (HistoryIsSettled).  What the    *)
(* browser shows is the subject of ChatViewProofs.                         *)
(***************************************************************************)
EXTENDS Chat, FiniteSetTheorems, SequenceTheorems, WellFoundedInduction, TLAPS

------------------------------------------------------------------------------
(* Lemmas about the operators                                              *)

\* A function over the places of a sequence is a sequence again.
LEMMA SequenceOf ==
    ASSUME NEW S, NEW n \in Nat, NEW f \in [1..n -> S]
    PROVE  f \in Seq(S) /\ DOMAIN f = 1..n /\ Len(f) = n
BY SeqDef

LEMMA Rewritten ==
    ASSUME NEW S, NEW T, NEW q \in Seq(S), NEW f \in [DOMAIN q -> T]
    PROVE  f \in Seq(T) /\ DOMAIN f = DOMAIN q
<1>1. Len(q) \in Nat /\ DOMAIN q = 1..Len(q)
  BY LenProperties
<1> QED
  BY <1>1, SequenceOf

\* The sets a query may return are finite.
LEMMA FiniteRows ==
    ASSUME NEW R \in SUBSET Rows
    PROVE  IsFiniteSet(R) /\ Cardinality(R) \in Nat
<1>1. IsFiniteSet(Sends)
  BY FS_Interval, ChatAssumption DEF Sends
<1>2. IsFiniteSet(Roles)
  <2>1. IsFiniteSet({"user"})
    BY FS_Singleton
  <2>2. IsFiniteSet({"user"} \cup {"assistant"})
    BY <2>1, FS_AddElement
  <2>3. {"user"} \cup {"assistant"} = Roles
    BY DEF Roles
  <2> QED
    BY <2>2, <2>3
<1>3. IsFiniteSet(Rows)
  BY <1>1, <1>2, FS_Product DEF Rows
<1> QED
  BY <1>3, FS_Subset, FS_CardinalityType

\* The result of an ordered query is a sequence of its rows.
LEMMA OrderedRows ==
    ASSUME NEW R \in SUBSET Rows, NEW q \in InOrder(R)
    PROVE  /\ q \in Seq(Rows) /\ q \in [1..Cardinality(R) -> R]
           /\ DOMAIN q = 1..Cardinality(R) /\ Cardinality(R) \in Nat
           /\ \A i \in DOMAIN q : q[i] \in R
<1>1. q \in [1..Cardinality(R) -> R]
  BY DEF InOrder
<1>2. Cardinality(R) \in Nat
  BY FiniteRows
<1>3. q \in [1..Cardinality(R) -> Rows]
  BY <1>1
<1> QED
  BY <1>1, <1>2, <1>3, SequenceOf

\* The window is a sequence over the same rows.
LEMMA WindowType ==
    ASSUME NEW S, NEW q \in Seq(S)
    PROVE  Window(q) \in Seq(S)
<1> DEFINE from == IF Len(q) > HistoryLimit THEN Len(q) - HistoryLimit ELSE 0
<1>1. Len(q) \in Nat /\ q \in [1..Len(q) -> S]
  BY LenProperties
<1>2. from \in Nat /\ Len(q) - from \in Nat
  BY <1>1, ChatAssumption
<1>3. Window(q) = [i \in 1..(Len(q) - from) |-> q[from + i]]
  BY DEF Window
<1>4. \A i \in 1..(Len(q) - from) : from + i \in 1..Len(q)
  BY <1>1, <1>2
<1>5. Window(q) \in [1..(Len(q) - from) -> S]
  BY <1>1, <1>3, <1>4
<1> QED
  BY <1>2, <1>5, SequenceOf

LEMMA ContentType ==
    ASSUME NEW row \in Rows, said \in [Sends -> 0..Deltas]
    PROVE  Content(row) \in Texts
<1> DEFINE n == IF row[2] = "user" THEN 1 ELSE said[row[1]]
<1>1. row[1] \in Sends
  BY DEF Rows
<1>2. n \in Nat
  BY <1>1, ChatAssumption
<1>3. Content(row) \in [1..n -> Sends \cup {Nobody}]
  BY <1>1 DEF Content
<1> QED
  BY <1>2, <1>3, SequenceOf DEF Texts

\* The last answer of a list of bubbles is one of its places, and no later bubble
\* is an answer.
LEMMA LastAnswerIsLast ==
    ASSUME NEW S, NEW m \in Seq(S)
    PROVE  /\ LastAnswer(m) = 0 <=> \A i \in DOMAIN m : m[i].role # "assistant"
           /\ LastAnswer(m) # 0 =>
                /\ LastAnswer(m) \in DOMAIN m
                /\ m[LastAnswer(m)].role = "assistant"
                /\ \A j \in DOMAIN m : m[j].role = "assistant" => j <= LastAnswer(m)
<1> DEFINE answers == {i \in DOMAIN m : m[i].role = "assistant"}
<1>1. DOMAIN m = 1..Len(m) /\ Len(m) \in Nat
  BY LenProperties
<1>2. CASE answers = {}
  BY <1>2 DEF LastAnswer
<1>3. CASE answers # {}
  <2> DEFINE back == {Len(m) - i : i \in answers}
  <2>1. back \subseteq Nat /\ back # {}
    BY <1>1, <1>3
  <2>2. PICK least \in back : \A k \in back : ~(<<k, least>> \in OpToRel(<, Nat))
    BY <2>1, WFMin, NatLessThanWellFounded
  <2>3. \A k \in back : least <= k
    <3> SUFFICES ASSUME NEW k \in back PROVE least <= k
      OBVIOUS
    <3>1. k \in Nat /\ least \in Nat
      BY <2>1
    <3>2. ~(k < least)
      BY <2>2, <3>1, Zenon DEF OpToRel
    <3> QED
      BY <3>1, <3>2
  <2>4. PICK i \in answers : least = Len(m) - i
    OBVIOUS
  <2>5. \A j \in answers : Len(m) - i <= Len(m) - j
    BY <2>3, <2>4
  <2>6. \A j \in answers : j <= i
    BY <1>1, <2>5
  <2>7. /\ LastAnswer(m) \in answers
        /\ \A j \in answers : j <= LastAnswer(m)
    BY <1>3, <2>6 DEF LastAnswer
  <2> QED
    BY <1>1, <2>7
<1> QED
  BY <1>2, <1>3

------------------------------------------------------------------------------
(* Who changes what                                                        *)

DbSteps ==
    \/ \E s \in Sends : Commit(s) \/ SaveOutput(s)
    \/ \E d \in Deletes : DeleteRows(d)

GenSteps == \E s \in Sends : Send(s) \/ Generate(s)

ViewSteps ==
    \/ \E s \in Sends : Send(s) \/ Hear(s) \/ Break(s)
    \/ \E l \in Loads : ShowLoad(l)
    \/ \E d \in Deletes : HearDelete(d)
    \/ NewChat
    \/ \E reloaded \in BOOLEAN : Remount(reloaded)

ReadSteps ==
    \/ \E s \in Sends : Send(s) \/ Hear(s) \/ Break(s)
    \/ \E reloaded \in BOOLEAN : Remount(reloaded)

LoadSteps ==
    \/ \E l \in Loads : FindLoad(l) \/ ReadLoad(l) \/ ShowLoad(l) \/ DropLoad(l)
    \/ \E c \in Convs : Select(c)
    \/ \E reloaded \in BOOLEAN : Remount(reloaded)

DelSteps ==
    \/ \E d \in Deletes :
        DeleteOutputs(d) \/ DeleteRows(d) \/ HearDelete(d) \/ DropDelete(d)
    \/ \E c \in Convs : AskDelete(c)
    \/ \E reloaded \in BOOLEAN : Remount(reloaded)

\* A step changes the database, the generators, the view, the body being read,
\* the loads or the deletes only if it is one of those named above.
LEMMA Frames ==
    ASSUME [Next]_vars
    PROVE  /\ DbSteps \/ UNCHANGED dbVars
           /\ GenSteps \/ UNCHANGED genVars
           /\ ViewSteps \/ UNCHANGED viewVars
           /\ ReadSteps \/ UNCHANGED readVars
           /\ LoadSteps \/ UNCHANGED load
           /\ DelSteps \/ UNCHANGED del
<1> DEFINE Framed == /\ DbSteps \/ UNCHANGED dbVars
                     /\ GenSteps \/ UNCHANGED genVars
                     /\ ViewSteps \/ UNCHANGED viewVars
                     /\ ReadSteps \/ UNCHANGED readVars
                     /\ LoadSteps \/ UNCHANGED load
                     /\ DelSteps \/ UNCHANGED del
<1>1. ASSUME NEW s \in Sends, Send(s) PROVE Framed
  BY <1>1 DEF Send, GenSteps, ViewSteps, ReadSteps, dbVars, genVars, viewVars, readVars
<1>2. ASSUME NEW s \in Sends, Refuse(s) PROVE Framed
  BY <1>2 DEF Refuse, GenSteps, Generate, dbVars, genVars, viewVars, readVars
<1>3. ASSUME NEW s \in Sends, Start(s) PROVE Framed
  BY <1>3 DEF Start, GenSteps, Generate, dbVars, genVars, viewVars, readVars
<1>4. ASSUME NEW s \in Sends, Ask(s) PROVE Framed
  BY <1>4 DEF Ask, GenSteps, Generate, dbVars, genVars, viewVars, readVars
<1>5. ASSUME NEW s \in Sends, Delta(s) PROVE Framed
  BY <1>5 DEF Delta, GenSteps, Generate, dbVars, genVars, viewVars, readVars
<1>6. ASSUME NEW s \in Sends, Source(s) PROVE Framed
  BY <1>6 DEF Source, GenSteps, Generate, dbVars, genVars, viewVars, readVars
<1>7. ASSUME NEW s \in Sends, Commit(s) PROVE Framed
  BY <1>7 DEF Commit, DbSteps, GenSteps, Generate, dbVars, genVars, viewVars, readVars
<1>8. ASSUME NEW s \in Sends, Fail(s) PROVE Framed
  BY <1>8 DEF Fail, GenSteps, Generate, dbVars, genVars, viewVars, readVars
<1>9. ASSUME NEW s \in Sends, Abort(s) PROVE Framed
  BY <1>9 DEF Abort, GenSteps, Generate, dbVars, genVars, viewVars, readVars
<1>10. ASSUME NEW s \in Sends, HearText(s) PROVE Framed
  BY <1>10 DEF HearText, ViewSteps, ReadSteps, Hear, dbVars, genVars, viewVars, readVars
<1>11. ASSUME NEW s \in Sends, HearSources(s) PROVE Framed
  BY <1>11 DEF HearSources, ViewSteps, ReadSteps, Hear, dbVars, genVars, viewVars, readVars
<1>12. ASSUME NEW s \in Sends, HearDone(s) PROVE Framed
  BY <1>12 DEF HearDone, ViewSteps, ReadSteps, Hear, dbVars, genVars, viewVars, readVars
<1>13. ASSUME NEW s \in Sends, HearError(s) PROVE Framed
  BY <1>13 DEF HearError, ViewSteps, ReadSteps, Hear, dbVars, genVars, viewVars, readVars
<1>14. ASSUME NEW s \in Sends, HearEnd(s) PROVE Framed
  BY <1>14 DEF HearEnd, ViewSteps, ReadSteps, Hear, dbVars, genVars, viewVars, readVars
<1>15. ASSUME NEW s \in Sends, Break(s) PROVE Framed
  BY <1>15 DEF Break, ViewSteps, ReadSteps, dbVars, genVars, viewVars, readVars
<1>16. ASSUME NEW s \in Sends, SaveOutput(s) PROVE Framed
  BY <1>16 DEF SaveOutput, DbSteps, dbVars, genVars, viewVars, readVars
<1>17. ASSUME NEW c \in Convs, Select(c) PROVE Framed
  BY <1>17 DEF Select, LoadSteps, dbVars, genVars, viewVars, readVars
<1>18. ASSUME NEW c \in Convs, AskDelete(c) PROVE Framed
  BY <1>18 DEF AskDelete, DelSteps, dbVars, genVars, viewVars, readVars
<1>19. ASSUME NEW l \in Loads, FindLoad(l) \/ ReadLoad(l) PROVE Framed
  BY <1>19 DEF FindLoad, ReadLoad, LoadSteps, dbVars, genVars, viewVars, readVars
<1>20. ASSUME NEW l \in Loads, ShowLoad(l) PROVE Framed
  BY <1>20 DEF ShowLoad, ViewSteps, LoadSteps, dbVars, genVars, viewVars, readVars
<1>21. ASSUME NEW l \in Loads, DropLoad(l) PROVE Framed
  BY <1>21 DEF DropLoad, LoadSteps, dbVars, genVars, viewVars, readVars
<1>22. ASSUME NEW d \in Deletes, DeleteOutputs(d) PROVE Framed
  BY <1>22 DEF DeleteOutputs, DelSteps, dbVars, genVars, viewVars, readVars
<1>23. ASSUME NEW d \in Deletes, DeleteRows(d) PROVE Framed
  BY <1>23 DEF DeleteRows, DbSteps, DelSteps, dbVars, genVars, viewVars, readVars
<1>24. ASSUME NEW d \in Deletes, HearDelete(d) PROVE Framed
  BY <1>24 DEF HearDelete, ViewSteps, DelSteps, dbVars, genVars, viewVars, readVars
<1>25. ASSUME NEW d \in Deletes, DropDelete(d) PROVE Framed
  BY <1>25 DEF DropDelete, DelSteps, dbVars, genVars, viewVars, readVars
<1>26. ASSUME NEW i \in DOMAIN msgs, AskOutput(i) PROVE Framed
  BY <1>26 DEF AskOutput, dbVars, genVars, viewVars, readVars
<1>27. ASSUME NewChat PROVE Framed
  BY <1>27 DEF NewChat, ViewSteps, dbVars, genVars, viewVars, readVars
<1>28. ASSUME Leave PROVE Framed
  BY <1>28 DEF Leave, dbVars, genVars, viewVars, readVars
<1>29. ASSUME Return PROVE Framed
  BY <1>29 DEF Return, dbVars, genVars, viewVars, readVars
<1>30. ASSUME NEW reloaded \in BOOLEAN, Remount(reloaded) PROVE Framed
  BY <1>30 DEF Remount, ViewSteps, ReadSteps, LoadSteps, DelSteps, dbVars, genVars, viewVars, readVars
<1>31. ASSUME UNCHANGED vars PROVE Framed
  BY <1>31 DEF vars, dbVars, genVars, viewVars, readVars
<1> QED
  BY <1>1, <1>2, <1>3, <1>4, <1>5, <1>6, <1>7, <1>8, <1>9, <1>10, <1>11, <1>12, <1>13, <1>14, <1>15, <1>16, <1>17, <1>18, <1>19, <1>20, <1>21, <1>22, <1>23, <1>24, <1>25, <1>26, <1>27, <1>28, <1>29, <1>30, <1>31 DEF Next, Generate, Hear

------------------------------------------------------------------------------
(* Type correctness                                                        *)

DbType ==
    /\ convs \subseteq existed
    /\ existed \subseteq Convs
    /\ rows \subseteq Rows
    /\ outs \subseteq Sends

GenType ==
    /\ stage \in [Sends -> Stages]
    /\ aim \in [Sends -> Convs \cup {NoConv}]
    /\ home \in [Sends -> Convs \cup {NoConv}]
    /\ birth \in [Sends -> 0..MaxSends]
    /\ said \in [Sends -> 0..Deltas]
    /\ sourced \in [Sends -> BOOLEAN]
    /\ prompt \in [Sends -> Seq(Rows)]

ViewType ==
    /\ msgs \in Seq(Bubbles)
    /\ conv \in Convs \cup {NoConv}
    /\ streaming \in BOOLEAN
    /\ rail \in Sends \cup {Nobody}
    /\ disturbed \in BOOLEAN

ReadType ==
    /\ reading \in Sends \cup {Nobody}
    /\ heard \in [Sends -> 0..Deltas]
    /\ told \in [Sends -> SUBSET {"sources", "done", "error"}]

PageType ==
    /\ list \subseteq Convs
    /\ url \in Convs \cup {NoConv, Elsewhere}
    /\ last \in Convs \cup {NoConv}
    /\ saving \subseteq Sends
    /\ events \in 0..MaxEvents

LoadRecords == [phase : {"idle", "asked", "found", "read", "missing", "over"},
                conv : Convs \cup {NoConv}, byUrl : BOOLEAN, got : Seq(Bubbles)]
LoadType == load \in [Loads -> LoadRecords]

DelRecords == [phase : {"idle", "asked", "cleared", "deleted", "failed", "over"},
               conv : Convs \cup {NoConv}, seen : Convs \cup {NoConv},
               cleared : SUBSET Sends]
DelType == del \in [Deletes -> DelRecords]

LEMMA TypeParts ==
    TypeOK <=> /\ DbType /\ GenType /\ ViewType /\ ReadType /\ PageType
               /\ LoadType /\ DelType
BY DEF TypeOK, DbType, GenType, ViewType, ReadType, PageType, LoadType, DelType,
   LoadRecords, DelRecords

\* A transaction that has not started has no created_at to give, and a question
\* that is inserted has its conversation.
BeginInv ==
    \A s \in Sends :
        /\ stage[s] \in {"idle", "posted"} => birth[s] = 0
        /\ stage[s] \in Holding \cup {"done"} => home[s] \in Convs

TypeInv == TypeOK /\ BeginInv

\* The next place in the order of transactions is one of MaxSends.
LEMMA BirthType ==
    ASSUME NEW s \in Sends, birth[s] = 0
    PROVE  Cardinality({t \in Sends : birth[t] # 0}) + 1 \in 0..MaxSends
<1> DEFINE born == {t \in Sends : birth[t] # 0}
<1>1. IsFiniteSet(Sends) /\ Cardinality(Sends) = MaxSends
  BY FS_Interval, ChatAssumption DEF Sends
<1>2. IsFiniteSet(Sends \ {s}) /\ Cardinality(Sends \ {s}) = MaxSends - 1
  BY <1>1, FS_RemoveElement
<1>3. born \in SUBSET (Sends \ {s})
  OBVIOUS
<1>4. /\ IsFiniteSet(born) /\ Cardinality(born) \in Nat
      /\ Cardinality(born) <= MaxSends - 1
  BY <1>2, <1>3, FS_Subset, FS_CardinalityType
<1> QED
  BY <1>4, ChatAssumption

LEMMA DbTypeStep ==
    ASSUME TypeInv, [Next]_vars
    PROVE  DbType'
<1>1. DbType /\ GenType /\ BeginInv
  BY TypeParts DEF TypeInv
<1>2. ASSUME NEW s \in Sends, Commit(s) PROVE DbType'
  BY <1>1, <1>2 DEF Commit, DbType, BeginInv, Rows, Roles, Holding
<1>3. ASSUME NEW s \in Sends, SaveOutput(s) PROVE DbType'
  BY <1>1, <1>3 DEF SaveOutput, DbType
<1>4. ASSUME NEW d \in Deletes, DeleteRows(d) PROVE DbType'
  BY <1>1, <1>4 DEF DeleteRows, DbType, dbVars
<1>5. CASE UNCHANGED dbVars
  BY <1>1, <1>5 DEF DbType, dbVars
<1> QED
  BY <1>2, <1>3, <1>4, <1>5, Frames DEF DbSteps

LEMMA GenTypeStep ==
    ASSUME TypeInv, [Next]_vars
    PROVE  GenType' /\ BeginInv'
<1>1. DbType /\ GenType /\ ViewType /\ BeginInv
  BY TypeParts DEF TypeInv
<1>2. ASSUME NEW s \in Sends, Send(s) PROVE GenType' /\ BeginInv'
  BY <1>1, <1>2 DEF Send, GenType, ViewType, BeginInv, Stages, Holding
<1>3. ASSUME NEW s \in Sends, Refuse(s) PROVE GenType' /\ BeginInv'
  BY <1>1, <1>3 DEF Refuse, GenType, BeginInv, Stages, Holding
<1>4. ASSUME NEW s \in Sends, Start(s) PROVE GenType' /\ BeginInv'
  <2>1. Cardinality({t \in Sends : birth[t] # 0}) + 1 \in 0..MaxSends
    BY <1>1, <1>4, BirthType DEF Start, BeginInv
  <2> QED
    BY <1>1, <1>4, <2>1 DEF Start, GenType, BeginInv, Stages, Holding
<1>5. ASSUME NEW s \in Sends, Ask(s) PROVE GenType' /\ BeginInv'
  <2>1. PICK c \in Convs :
          /\ home' = [home EXCEPT ![s] = c]
          /\ IF aim[s] = NoConv THEN prompt' = prompt
             ELSE \E q \in InOrder(RowsOf(c) \cup {<<s, "user">>}) :
                    prompt' = [prompt EXCEPT ![s] = Window(q)]
    BY <1>5 DEF Ask
  <2>2. RowsOf(c) \cup {<<s, "user">>} \in SUBSET Rows
    BY <1>1 DEF RowsOf, Rows, Roles, DbType
  <2>3. prompt' \in [Sends -> Seq(Rows)]
    <3>1. \A q \in InOrder(RowsOf(c) \cup {<<s, "user">>}) : Window(q) \in Seq(Rows)
      BY <2>2, OrderedRows, WindowType
    <3>2. prompt \in [Sends -> Seq(Rows)]
      BY <1>1 DEF GenType
    <3> QED
      BY <2>1, <3>1, <3>2
  <2> QED
    BY <1>1, <1>5, <2>1, <2>3 DEF Ask, GenType, BeginInv, Stages, Holding
<1>6. ASSUME NEW s \in Sends, Delta(s) PROVE GenType' /\ BeginInv'
  BY <1>1, <1>6, ChatAssumption DEF Delta, GenType, BeginInv
<1>7. ASSUME NEW s \in Sends, Source(s) PROVE GenType' /\ BeginInv'
  BY <1>1, <1>7 DEF Source, GenType, BeginInv, Stages, Holding
<1>8. ASSUME NEW s \in Sends, Commit(s) \/ Fail(s) \/ Abort(s)
      PROVE  GenType' /\ BeginInv'
  <2>0. <<>> \in Seq(Rows)
    BY EmptySeq
  <2>1. CASE Commit(s)
    BY <1>1, <2>0, <2>1 DEF Commit, GenType, BeginInv, Stages, Holding
  <2>2. CASE Fail(s)
    BY <1>1, <2>0, <2>2 DEF Fail, GenType, BeginInv, Stages, Holding
  <2>3. CASE Abort(s)
    BY <1>1, <2>0, <2>3 DEF Abort, GenType, BeginInv, Stages, Holding
  <2> QED
    BY <1>8, <2>1, <2>2, <2>3
<1>9. CASE UNCHANGED genVars
  BY <1>1, <1>9 DEF GenType, BeginInv, genVars
<1> QED
  BY <1>2, <1>3, <1>4, <1>5, <1>6, <1>7, <1>8, <1>9, Frames DEF GenSteps, Generate

\* Rewriting the placeholder of an answer keeps the bubbles.
LEMMA BubblesType ==
    ASSUME ViewType, NEW f \in [DOMAIN msgs -> Bubbles]
    PROVE  f \in Seq(Bubbles)
BY Rewritten DEF ViewType

LEMMA NoticeType == Notice \in Texts /\ <<>> \in Texts /\ \A s \in Sends : <<s>> \in Texts
BY DEF Notice, Texts

\* The sources of a loaded conversation are those of one of its sends.
LEMMA RailType ==
    ASSUME NEW m \in Seq(Bubbles), LastAnswer(m) # 0
    PROVE  m[LastAnswer(m)].of \in Sends
<1>1. LastAnswer(m) \in DOMAIN m
  BY LastAnswerIsLast
<1>2. m[LastAnswer(m)] \in Bubbles
  BY <1>1, LenProperties, ElementOfSeq
<1> QED
  BY <1>2 DEF Bubbles

LEMMA ViewTypeStep ==
    ASSUME TypeInv, [Next]_vars
    PROVE  ViewType'
<1>1. GenType /\ ViewType /\ LoadType /\ DelType
  BY TypeParts DEF TypeInv
<1>2. \A i \in DOMAIN msgs : msgs[i] \in Bubbles
  BY <1>1, LenProperties, ElementOfSeq DEF ViewType
<1>3. ASSUME NEW s \in Sends, Send(s) PROVE ViewType'
  <2> DEFINE asked == [of |-> s, role |-> "user", stored |-> FALSE, text |-> <<s>>]
             blank == [of |-> s, role |-> "assistant", stored |-> FALSE, text |-> <<>>]
  <2>1. asked \in Bubbles /\ blank \in Bubbles
    BY NoticeType DEF Bubbles, Roles
  <2>2. <<asked, blank>> \in Seq(Bubbles)
    BY <2>1
  <2>3. msgs' = msgs \o <<asked, blank>>
    BY <1>3 DEF Send
  <2>4. msgs' \in Seq(Bubbles)
    BY <1>1, <2>2, <2>3, ConcatProperties DEF ViewType
  <2> QED
    BY <1>1, <1>3, <2>4 DEF Send, ViewType
<1>4. ASSUME NEW s \in Sends, HearText(s) PROVE ViewType'
  <2>1. \A i \in DOMAIN msgs : Append(msgs[i].text, s) \in Texts
    BY <1>2 DEF Bubbles, Texts
  <2>2. msgs' \in [DOMAIN msgs -> Bubbles]
    BY <1>2, <1>4, <2>1 DEF HearText, Bubbles
  <2> QED
    BY <1>1, <1>4, <2>2, BubblesType DEF HearText, ViewType
<1>5. ASSUME NEW s \in Sends, HearSources(s) PROVE ViewType'
  BY <1>1, <1>5 DEF HearSources, ViewType
<1>6. ASSUME NEW s \in Sends, HearDone(s) PROVE ViewType'
  <2>1. msgs' \in [DOMAIN msgs -> Bubbles]
    BY <1>2, <1>6 DEF HearDone, Bubbles
  <2> QED
    BY <1>1, <1>6, <2>1, BubblesType DEF HearDone, ViewType, GenType
<1>7. ASSUME NEW s \in Sends, HearError(s) PROVE ViewType'
  <2>1. msgs' \in [DOMAIN msgs -> Bubbles]
    BY <1>2, <1>7, NoticeType DEF HearError, Bubbles
  <2> QED
    BY <1>1, <1>7, <2>1, BubblesType DEF HearError, ViewType
<1>8. ASSUME NEW s \in Sends, HearEnd(s) PROVE ViewType'
  BY <1>1, <1>8 DEF HearEnd, ViewType
<1>9. ASSUME NEW s \in Sends, Break(s) PROVE ViewType'
  <2>1. msgs' \in [DOMAIN msgs -> Bubbles]
    BY <1>2, <1>9, NoticeType DEF Break, Bubbles
  <2> QED
    BY <1>1, <1>9, <2>1, BubblesType DEF Break, ViewType
<1>10. ASSUME NEW l \in Loads, ShowLoad(l) PROVE ViewType'
  <2>1. load[l] \in LoadRecords
    BY <1>1 DEF LoadType
  <2>2. load[l].got \in Seq(Bubbles) /\ load[l].conv \in Convs \cup {NoConv}
    BY <2>1 DEF LoadRecords
  <2>3. rail' \in Sends \cup {Nobody}
    BY <1>1, <1>10, <2>2, RailType DEF ShowLoad, ViewType
  <2> QED
    BY <1>1, <1>10, <2>2, <2>3 DEF ShowLoad, Disturb, ViewType
<1>11. ASSUME NEW d \in Deletes, HearDelete(d) PROVE ViewType'
  BY <1>1, <1>11, EmptySeq DEF HearDelete, Disturb, ViewType
<1>12. ASSUME NewChat PROVE ViewType'
  BY <1>1, <1>12, EmptySeq DEF NewChat, Disturb, ViewType
<1>13. ASSUME NEW reloaded \in BOOLEAN, Remount(reloaded) PROVE ViewType'
  BY <1>1, <1>13, EmptySeq DEF Remount, ViewType
<1>14. CASE UNCHANGED viewVars
  BY <1>1, <1>14 DEF ViewType, viewVars
<1> QED
  BY <1>3, <1>4, <1>5, <1>6, <1>7, <1>8, <1>9, <1>10, <1>11, <1>12, <1>13, <1>14,
     Frames DEF ViewSteps, Hear

LEMMA ReadTypeStep ==
    ASSUME TypeInv, [Next]_vars
    PROVE  ReadType'
<1>1. GenType /\ ReadType
  BY TypeParts DEF TypeInv
<1>2. ASSUME NEW s \in Sends, Send(s) PROVE ReadType'
  BY <1>1, <1>2 DEF Send, ReadType
<1>3. ASSUME NEW s \in Sends, HearText(s) PROVE ReadType'
  <2>1. heard[s] + 1 \in 0..Deltas
    BY <1>1, <1>3, ChatAssumption DEF HearText, ReadType, GenType
  <2> QED
    BY <1>1, <1>3, <2>1 DEF HearText, ReadType
<1>4. ASSUME NEW s \in Sends, HearSources(s) \/ HearDone(s) \/ HearError(s)
      PROVE  ReadType'
  BY <1>1, <1>4 DEF HearSources, HearDone, HearError, ReadType
<1>5. ASSUME NEW s \in Sends, HearEnd(s) \/ Break(s) PROVE ReadType'
  BY <1>1, <1>5 DEF HearEnd, Break, ReadType
<1>6. ASSUME NEW reloaded \in BOOLEAN, Remount(reloaded) PROVE ReadType'
  BY <1>1, <1>6 DEF Remount, ReadType
<1>7. CASE UNCHANGED readVars
  BY <1>1, <1>7 DEF ReadType, readVars
<1> QED
  BY <1>2, <1>3, <1>4, <1>5, <1>6, <1>7, Frames DEF ReadSteps, Hear

LEMMA PageTypeStep ==
    ASSUME TypeInv, [Next]_vars
    PROVE  PageType'
<1>1. DbType /\ PageType
  BY TypeParts DEF TypeInv
<1>2. \A before : ShowList(before) /\ before \subseteq Convs => list' \subseteq Convs
  BY <1>1 DEF ShowList, DbType
<1>3. Event => events' \in 0..MaxEvents
  BY <1>1, ChatAssumption DEF Event, PageType
<1>4. ASSUME NEW s \in Sends, Send(s) \/ Generate(s) PROVE PageType'
  <2>1. UNCHANGED <<list, url, last, saving>> /\ (Event \/ UNCHANGED events)
    BY <1>4 DEF Send, Generate, Refuse, Start, Ask, Delta, Source, Commit, Fail,
       Abort, pageVars
  <2> QED
    BY <1>1, <1>3, <2>1 DEF PageType
<1>5. ASSUME NEW s \in Sends, Hear(s) \/ Break(s) PROVE PageType'
  <2>1. /\ UNCHANGED <<url, last, saving>> /\ (Event \/ UNCHANGED events)
        /\ ShowList(list) \/ UNCHANGED list
    BY <1>5 DEF Hear, HearText, HearSources, HearDone, HearError, HearEnd, Break,
       pageVars
  <2> QED
    BY <1>1, <1>2, <1>3, <2>1 DEF PageType
<1>6. ASSUME NEW s \in Sends, SaveOutput(s) PROVE PageType'
  BY <1>1, <1>6 DEF SaveOutput, PageType, pageVars
<1>7. ASSUME NEW c \in Convs, Select(c) PROVE PageType'
  BY <1>1, <1>3, <1>7 DEF Select, PageType, pageVars
<1>8. ASSUME NEW c \in Convs, AskDelete(c) PROVE PageType'
  BY <1>1, <1>3, <1>8 DEF AskDelete, PageType, pageVars
<1>9. ASSUME NEW l \in Loads, FindLoad(l) \/ ReadLoad(l) \/ ShowLoad(l) PROVE PageType'
  BY <1>1, <1>9 DEF FindLoad, ReadLoad, ShowLoad, PageType, pageVars
<1>10. ASSUME NEW l \in Loads, DropLoad(l) PROVE PageType'
  BY <1>1, <1>3, <1>10 DEF DropLoad, PageType
<1>11. ASSUME NEW d \in Deletes, DeleteOutputs(d) \/ DeleteRows(d) \/ DropDelete(d)
       PROVE  PageType'
  BY <1>1, <1>3, <1>11 DEF DeleteOutputs, DeleteRows, DropDelete, PageType, pageVars
<1>12. ASSUME NEW d \in Deletes, HearDelete(d) PROVE PageType'
  BY <1>1, <1>12 DEF HearDelete, PageType, pageVars
<1>13. ASSUME NEW i \in DOMAIN msgs, AskOutput(i) PROVE PageType'
  <2>1. msgs \in Seq(Bubbles)
    BY TypeParts DEF TypeInv, ViewType
  <2>2. msgs[i] \in Bubbles
    BY <2>1, LenProperties, ElementOfSeq
  <2>3. msgs[i].of \in Sends
    BY <2>2 DEF Bubbles
  <2> QED
    BY <1>1, <1>3, <1>13, <2>3 DEF AskOutput, PageType, pageVars
<1>14. ASSUME NewChat \/ Leave \/ Return PROVE PageType'
  BY <1>1, <1>3, <1>14 DEF NewChat, Leave, Return, PageType
<1>15. ASSUME NEW reloaded \in BOOLEAN, Remount(reloaded) PROVE PageType'
  BY <1>1, <1>2, <1>3, <1>15 DEF Remount, PageType
<1>16. CASE UNCHANGED vars
  BY <1>1, <1>16 DEF PageType, vars, pageVars
<1> QED
  BY <1>4, <1>5, <1>6, <1>7, <1>8, <1>9, <1>10, <1>11, <1>12, <1>13, <1>14, <1>15,
     <1>16 DEF Next

\* What a load brings is a sequence of bubbles.
LEMMA GotType ==
    ASSUME GenType, NEW R \in SUBSET Rows, NEW q \in InOrder(R)
    PROVE  [i \in DOMAIN q |-> [of |-> q[i][1], role |-> q[i][2], stored |-> TRUE,
                                text |-> Content(q[i])]] \in Seq(Bubbles)
<1>1. /\ q \in Seq(Rows)
      /\ \A i \in DOMAIN q : q[i] \in Rows /\ Content(q[i]) \in Texts
  BY OrderedRows, ContentType DEF GenType
<1>2. \A i \in DOMAIN q : q[i][1] \in Sends /\ q[i][2] \in Roles
  BY <1>1 DEF Rows
<1> DEFINE got == [i \in DOMAIN q |-> [of |-> q[i][1], role |-> q[i][2],
                                      stored |-> TRUE, text |-> Content(q[i])]]
<1>3. got \in [DOMAIN q -> Bubbles]
  BY <1>1, <1>2 DEF Bubbles
<1> HIDE DEF got
<1>4. got \in Seq(Bubbles)
  BY <1>1, <1>3, Rewritten
<1> QED
  BY <1>4 DEF got

LEMMA LoadTypeStep ==
    ASSUME TypeInv, [Next]_vars
    PROVE  LoadType'
<1>1. DbType /\ GenType /\ PageType /\ LoadType
  BY TypeParts DEF TypeInv
<1>2. \A c \in Convs, byUrl \in BOOLEAN : Asked(c, byUrl) \in LoadRecords
  BY EmptySeq DEF Asked, NoLoad, LoadRecords
<1>3. [NoLoad EXCEPT !.phase = "over"] \in LoadRecords
  BY EmptySeq DEF NoLoad, LoadRecords
<1>4. ASSUME NEW c \in Convs, Select(c) PROVE LoadType'
  BY <1>1, <1>2, <1>4 DEF Select, LoadType
<1>5. ASSUME NEW l \in Loads, ReadLoad(l) PROVE LoadType'
  <2>1. load[l] \in LoadRecords
    BY <1>1 DEF LoadType
  <2>2. RowsOf(load[l].conv) \in SUBSET Rows
    BY <1>1 DEF RowsOf, DbType
  <2>3. PICK q \in InOrder(RowsOf(load[l].conv)) :
          load' = [load EXCEPT ![l].phase = "read", ![l].got =
                     [i \in DOMAIN q |->
                        [of |-> q[i][1], role |-> q[i][2], stored |-> TRUE,
                         text |-> Content(q[i])]]]
    BY <1>5 DEF ReadLoad
  <2> DEFINE got == [i \in DOMAIN q |->
                        [of |-> q[i][1], role |-> q[i][2], stored |-> TRUE,
                         text |-> Content(q[i])]]
  <2>4. got \in Seq(Bubbles)
    BY <1>1, <2>2, GotType
  <2> HIDE DEF got
  <2>5. load' = [load EXCEPT ![l].phase = "read", ![l].got = got]
    BY <2>3 DEF got
  <2> QED
    BY <1>1, <2>1, <2>4, <2>5 DEF LoadType, LoadRecords
<1>6. ASSUME NEW l \in Loads, ShowLoad(l) \/ DropLoad(l) PROVE LoadType'
  BY <1>1, <1>3, <1>6 DEF ShowLoad, DropLoad, LoadType
<1>7. ASSUME NEW reloaded \in BOOLEAN, Remount(reloaded) PROVE LoadType'
  BY <1>1, <1>2, <1>3, <1>7 DEF Remount, LoadType
<1>8. ASSUME NEW l \in Loads, FindLoad(l) PROVE LoadType'
  <2>1. load[l] \in LoadRecords
    BY <1>1 DEF LoadType
  <2> QED
    BY <1>1, <1>8, <2>1 DEF FindLoad, LoadType, LoadRecords
<1>9. CASE UNCHANGED load
  BY <1>1, <1>9 DEF LoadType
<1> QED
  BY <1>4, <1>5, <1>6, <1>7, <1>8, <1>9, Frames DEF LoadSteps

LEMMA DelTypeStep ==
    ASSUME TypeInv, [Next]_vars
    PROVE  DelType'
<1>1. DbType /\ ViewType /\ DelType
  BY TypeParts DEF TypeInv
<1>2. NoDelete \in DelRecords /\ [NoDelete EXCEPT !.phase = "over"] \in DelRecords
  BY DEF NoDelete, DelRecords
<1>3. ASSUME NEW c \in Convs, AskDelete(c) PROVE DelType'
  <2>1. [NoDelete EXCEPT !.phase = "asked", !.conv = c, !.seen = conv] \in DelRecords
    BY <1>1 DEF NoDelete, DelRecords, ViewType
  <2> QED
    BY <1>1, <1>3, <2>1 DEF AskDelete, DelType
<1>4. ASSUME NEW d \in Deletes, DeleteOutputs(d) PROVE DelType'
  <2>1. del[d] \in DelRecords
    BY <1>1 DEF DelType
  <2>2. {s \in outs : home[s] = del[d].conv} \in SUBSET Sends
    BY <1>1 DEF DbType
  <2> QED
    BY <1>1, <1>4, <2>1, <2>2 DEF DeleteOutputs, DelType, DelRecords
<1>5. ASSUME NEW d \in Deletes, DeleteRows(d) PROVE DelType'
  <2>1. del[d] \in DelRecords
    BY <1>1 DEF DelType
  <2> QED
    BY <1>1, <1>5, <2>1 DEF DeleteRows, DelType, DelRecords
<1>6. ASSUME NEW d \in Deletes, HearDelete(d) \/ DropDelete(d) PROVE DelType'
  BY <1>1, <1>2, <1>6 DEF HearDelete, DropDelete, DelType
<1>7. ASSUME NEW reloaded \in BOOLEAN, Remount(reloaded) PROVE DelType'
  <2>1. \A d \in Deletes : [del[d] EXCEPT !.seen = NoConv] \in DelRecords
    BY <1>1 DEF DelType, DelRecords
  <2> QED
    BY <1>1, <1>2, <1>7, <2>1 DEF Remount, DelType
<1>8. CASE UNCHANGED del
  BY <1>1, <1>8 DEF DelType
<1> QED
  BY <1>3, <1>4, <1>5, <1>6, <1>7, <1>8, Frames DEF DelSteps

LEMMA TypeInit == Init => TypeInv
<1> SUFFICES ASSUME Init PROVE TypeInv
  OBVIOUS
<1>1. DbType /\ GenType /\ BeginInv
  BY ChatAssumption, EmptySeq DEF Init, DbType, GenType, BeginInv, Stages, Holding
<1>2. ViewType
  BY EmptySeq DEF Init, ViewType
<1>3. ReadType /\ PageType
  BY ChatAssumption DEF Init, ReadType, PageType
<1>4. NoLoad \in LoadRecords /\ NoDelete \in DelRecords
  BY EmptySeq DEF NoLoad, NoDelete, LoadRecords, DelRecords
<1>5. LoadType /\ DelType
  BY <1>4 DEF Init, LoadType, DelType
<1> QED
  BY <1>1, <1>2, <1>3, <1>5, TypeParts DEF TypeInv

LEMMA TypeStep == TypeInv /\ [Next]_vars => TypeInv'
<1> SUFFICES ASSUME TypeInv, [Next]_vars PROVE TypeInv'
  OBVIOUS
<1>1. DbType' /\ GenType' /\ BeginInv' /\ ViewType' /\ ReadType' /\ PageType'
      /\ LoadType' /\ DelType'
  BY DbTypeStep, GenTypeStep, ViewTypeStep, ReadTypeStep, PageTypeStep, LoadTypeStep,
     DelTypeStep
<1>2. TypeOK' <=> /\ DbType' /\ GenType' /\ ViewType' /\ ReadType' /\ PageType'
                  /\ LoadType' /\ DelType'
  BY TypeParts, PTL
<1> QED
  BY <1>1, <1>2 DEF TypeInv

LEMMA TypeAlways == Spec => []TypeInv
BY TypeInit, TypeStep, PTL DEF Spec

\* Every variable of the chat keeps its type, however many questions, loads and
\* deletes there are and whatever fails.
THEOREM TypeCorrect == Spec => []TypeOK
<1>1. TypeInv => TypeOK
  BY DEF TypeInv
<1> QED
  BY TypeAlways, <1>1, PTL

------------------------------------------------------------------------------
(* What is stored                                                          *)

\* A transaction that holds its question writes to a conversation that is there
\* and stays, or to a new one that nobody else has.
HolderInv ==
    \A s \in Sends : stage[s] \in Holding =>
        IF aim[s] # NoConv
        THEN home[s] = aim[s] /\ home[s] \in convs
        ELSE /\ home[s] \notin existed
             /\ \A t \in Sends \ {s} : stage[t] \in Holding => home[t] # home[s]

\* Rows are those of committed sends, whose conversation is there or was deleted.
DoneInv ==
    /\ \A r \in rows : stage[r[1]] = "done"
    /\ \A s \in Sends : stage[s] = "done" =>
        \/ \A r \in Roles : <<s, r>> \in rows
        \/ home[s] \in existed \ convs

ServerInv == HolderInv /\ DoneInv /\ ExchangeIsWhole /\ NoOrphans

LEMMA ServerInit == Init => ServerInv
BY DEF Init, ServerInv, HolderInv, DoneInv, ExchangeIsWhole, NoOrphans, Holding

\* A step of a generator that commits nothing leaves the rows as they are.
LEMMA ServerGenerate ==
    ASSUME TypeInv, ServerInv, NEW s \in Sends, Send(s) \/ Generate(s), ~Commit(s)
    PROVE  ServerInv'
<1>1. /\ stage \in [Sends -> Stages] /\ home \in [Sends -> Convs \cup {NoConv}]
      /\ aim \in [Sends -> Convs \cup {NoConv}]
      /\ rows \subseteq Rows /\ outs \subseteq Sends /\ convs \subseteq existed
  BY TypeParts DEF TypeInv, GenType, DbType
<1>2. UNCHANGED dbVars
  BY DEF Send, Generate, Refuse, Start, Ask, Delta, Source, Fail, Abort
<1>3. stage[s] # "done"
  BY DEF Send, Generate, Refuse, Start, Ask, Delta, Source, Fail, Abort,
     InTransaction, Holding
<1>4. CASE Ask(s)
  <2>1. PICK c \in Convs :
          /\ IF aim[s] = NoConv THEN Fresh(c) ELSE c = aim[s] /\ c \in convs
          /\ home' = [home EXCEPT ![s] = c]
    BY <1>4 DEF Ask
  <2>2. /\ stage[s] = "retrieving" /\ stage' = [stage EXCEPT ![s] = "answering"]
        /\ aim' = aim
    BY <1>4 DEF Ask
  <2>3. HolderInv'
    <3>1. ASSUME NEW t \in Sends, stage'[t] \in Holding, t # s
          PROVE  IF aim'[t] # NoConv
                 THEN home'[t] = aim'[t] /\ home'[t] \in convs'
                 ELSE /\ home'[t] \notin existed'
                      /\ \A u \in Sends \ {t} : stage'[u] \in Holding
                                                => home'[u] # home'[t]
      <4>1. stage[t] \in Holding /\ home'[t] = home[t] /\ home'[s] = c
        BY <1>1, <2>1, <2>2, <3>1
      <4>2. CASE aim[t] # NoConv
        BY <1>2, <2>2, <4>1, <4>2 DEF ServerInv, HolderInv, dbVars
      <4>3. CASE aim[t] = NoConv
        <5>1. home[t] # c
          BY <1>1, <2>1, <4>1, <4>3 DEF Fresh, ServerInv, HolderInv
        <5> QED
          BY <1>1, <1>2, <2>1, <2>2, <4>1, <4>3, <5>1
             DEF ServerInv, HolderInv, dbVars
      <4> QED
        BY <4>2, <4>3
    <3>2. IF aim'[s] # NoConv
          THEN home'[s] = aim'[s] /\ home'[s] \in convs'
          ELSE /\ home'[s] \notin existed'
               /\ \A u \in Sends \ {s} : stage'[u] \in Holding
                                         => home'[u] # home'[s]
      BY <1>1, <1>2, <2>1, <2>2 DEF Fresh, dbVars
    <3> QED
      BY <3>1, <3>2 DEF HolderInv
  <2>4. \A t \in Sends : stage[t] = "done" => home'[t] = home[t] /\ stage'[t] = "done"
    BY <1>1, <1>3, <2>1, <2>2
  <2>5. \A t \in Sends : stage'[t] = "done" => stage[t] = "done"
    BY <1>1, <2>2
  <2> QED
    BY <1>1, <1>2, <2>3, <2>4, <2>5
       DEF ServerInv, DoneInv, ExchangeIsWhole, NoOrphans, dbVars, Rows
<1>5. CASE ~Ask(s)
  <2>1. /\ home' = home
        /\ \A t \in Sends : stage'[t] = "done" <=> stage[t] = "done"
        /\ \A t \in Sends : stage'[t] \in Holding =>
             stage[t] \in Holding /\ aim'[t] = aim[t]
    BY <1>1, <1>5
       DEF Send, Generate, Refuse, Start, Delta, Source, Fail, Abort, Holding,
           InTransaction
  <2>2. HolderInv'
    BY <1>2, <2>1 DEF ServerInv, HolderInv, dbVars
  <2> QED
    BY <1>1, <1>2, <2>1, <2>2
       DEF ServerInv, DoneInv, ExchangeIsWhole, NoOrphans, dbVars, Rows
<1> QED
  BY <1>4, <1>5

\* The commit of an answer.
LEMMA ServerCommit ==
    ASSUME TypeInv, ServerInv, NEW s \in Sends, Commit(s)
    PROVE  ServerInv'
<1>1. /\ stage \in [Sends -> Stages] /\ home \in [Sends -> Convs \cup {NoConv}]
      /\ rows \subseteq Rows /\ outs \subseteq Sends /\ convs \subseteq existed
  BY TypeParts DEF TypeInv, GenType, DbType
<1>2. /\ stage[s] = "sourced" /\ stage' = [stage EXCEPT ![s] = "done"]
      /\ UNCHANGED <<outs, aim, home>>
      /\ convs' = IF aim[s] = NoConv THEN convs \cup {home[s]} ELSE convs
      /\ existed' = existed \cup convs'
      /\ rows' = rows \cup {<<s, r>> : r \in Roles}
  BY DEF Commit
<1>3. /\ stage[s] \in Holding /\ home[s] \in convs'
      /\ aim[s] = NoConv => home[s] \notin existed
  BY <1>2 DEF Holding, ServerInv, HolderInv
<1>4. HolderInv'
  <2> SUFFICES ASSUME NEW t \in Sends, stage'[t] \in Holding
               PROVE  IF aim[t] # NoConv
                      THEN home[t] = aim[t] /\ home[t] \in convs'
                      ELSE /\ home[t] \notin existed'
                           /\ \A u \in Sends \ {t} : stage'[u] \in Holding
                                                     => home[u] # home[t]
    BY <1>2 DEF HolderInv
  <2>1. t # s /\ stage[t] \in Holding
    BY <1>1, <1>2 DEF Holding
  <2>2. aim[t] = NoConv => home[t] # home[s] /\ home[t] \notin existed
    BY <1>3, <2>1 DEF ServerInv, HolderInv
  <2>3. \A u \in Sends : stage'[u] \in Holding => stage[u] \in Holding
    BY <1>1, <1>2, <1>3
  <2> QED
    BY <1>1, <1>2, <2>1, <2>2, <2>3 DEF ServerInv, HolderInv
<1>5. DoneInv'
  <2>1. \A r \in rows' : stage'[r[1]] = "done"
    BY <1>1, <1>2 DEF ServerInv, DoneInv, Rows
  <2>2. ASSUME NEW t \in Sends, stage'[t] = "done"
        PROVE  \/ \A r \in Roles : <<t, r>> \in rows'
               \/ home[t] \in existed' \ convs'
    <3>1. CASE t = s
      BY <1>2, <3>1
    <3>2. CASE t # s
      <4>1. stage[t] = "done"
        BY <1>1, <1>2, <2>2, <3>2
      <4>2. home[t] \in existed \ convs => home[t] \in existed' \ convs'
        BY <1>2, <1>3
      <4> QED
        BY <1>2, <4>1, <4>2 DEF ServerInv, DoneInv
    <3> QED
      BY <3>1, <3>2
  <2> QED
    BY <1>2, <2>1, <2>2 DEF DoneInv
<1>6. ExchangeIsWhole'
  <2>1. \A t \in Sends : <<t, "user">> \in rows' <=> <<t, "assistant">> \in rows'
    BY <1>2 DEF ServerInv, ExchangeIsWhole, Roles
  <2>2. \A c \in convs' : c \in convs \/ c = home[s]
    BY <1>2
  <2> QED
    BY <1>2, <2>1, <2>2 DEF ServerInv, ExchangeIsWhole, Roles
<1>7. NoOrphans'
  BY <1>1, <1>2, <1>3 DEF ServerInv, NoOrphans, Roles
<1> QED
  BY <1>4, <1>5, <1>6, <1>7 DEF ServerInv

\* The commit of a delete: only when nobody holds the conversation, and only with
\* all outputs that refer to its messages.
LEMMA ServerDelete ==
    ASSUME TypeInv, ServerInv, NEW d \in Deletes, DeleteRows(d)
    PROVE  ServerInv'
<1>1. /\ stage \in [Sends -> Stages] /\ home \in [Sends -> Convs \cup {NoConv}]
      /\ rows \subseteq Rows /\ outs \subseteq Sends /\ convs \subseteq existed
  BY TypeParts DEF TypeInv, GenType, DbType
<1> DEFINE c == del[d].conv
<1>2. UNCHANGED <<stage, aim, home, existed>>
  BY DEF DeleteRows, genVars, dbVars
<1>3. CASE UNCHANGED dbVars
  BY <1>2, <1>3 DEF ServerInv, HolderInv, DoneInv, ExchangeIsWhole, NoOrphans, dbVars
<1>4. CASE /\ \A s \in outs \ del[d].cleared : home[s] # c
           /\ \A t \in Sends : stage[t] \in Holding => home[t] # c
           /\ convs' = convs \ {c}
           /\ rows' = rows \ RowsOf(c)
           /\ outs' = outs \ del[d].cleared
  <2>1. \A r \in rows : r \in rows' <=> home[r[1]] # c
    BY <1>4 DEF RowsOf
  <2>2. HolderInv'
    BY <1>2, <1>4 DEF ServerInv, HolderInv
  <2>3. DoneInv'
    <3>1. ASSUME NEW t \in Sends, stage[t] = "done"
          PROVE  \/ \A r \in Roles : <<t, r>> \in rows'
                 \/ home[t] \in existed \ convs'
      <4>1. CASE home[t] \in existed \ convs
        BY <1>4, <4>1
      <4>2. CASE \A r \in Roles : <<t, r>> \in rows
        <5>1. <<t, "user">> \in rows
          BY <4>2 DEF Roles
        <5>2. home[t] \in convs
          BY <5>1 DEF ServerInv, NoOrphans
        <5>3. home[t] = c => home[t] \in existed \ convs'
          BY <1>1, <1>4, <5>2
        <5>4. home[t] # c => \A r \in Roles : <<t, r>> \in rows'
          BY <2>1, <4>2
        <5> QED
          BY <5>3, <5>4
      <4> QED
        BY <3>1, <4>1, <4>2 DEF ServerInv, DoneInv
    <3>2. \A r \in rows' : stage[r[1]] = "done"
      BY <1>4 DEF ServerInv, DoneInv
    <3> QED
      BY <1>2, <3>1, <3>2 DEF DoneInv
  <2>4. ExchangeIsWhole'
    <3>1. \A s \in Sends : <<s, "user">> \in rows' <=> <<s, "assistant">> \in rows'
      BY <1>4, <2>1 DEF ServerInv, ExchangeIsWhole
    <3>2. ASSUME NEW b \in convs'
          PROVE  \E s \in Sends : <<s, "assistant">> \in rows' /\ home[s] = b
      <4>1. PICK s \in Sends : <<s, "assistant">> \in rows /\ home[s] = b
        BY <1>4 DEF ServerInv, ExchangeIsWhole
      <4> QED
        BY <1>4, <2>1, <4>1
    <3> QED
      BY <1>2, <3>1, <3>2 DEF ExchangeIsWhole
  <2>5. NoOrphans'
    <3>1. \A r \in rows' : home[r[1]] \in convs'
      BY <1>4, <2>1 DEF ServerInv, NoOrphans
    <3>2. \A s \in outs' : <<s, "assistant">> \in rows'
      BY <1>4, <2>1 DEF ServerInv, NoOrphans
    <3> QED
      BY <1>2, <3>1, <3>2 DEF NoOrphans
  <2> QED
    BY <2>2, <2>3, <2>4, <2>5 DEF ServerInv
<1> QED
  BY <1>3, <1>4 DEF DeleteRows

LEMMA ServerStep == TypeInv /\ ServerInv /\ [Next]_vars => ServerInv'
<1> SUFFICES ASSUME TypeInv, ServerInv, [Next]_vars PROVE ServerInv'
  OBVIOUS
<1>1. ASSUME NEW s \in Sends, SaveOutput(s) PROVE ServerInv'
  BY <1>1 DEF SaveOutput, genVars, ServerInv, HolderInv, DoneInv, ExchangeIsWhole,
     NoOrphans
<1>2. CASE UNCHANGED <<dbVars, genVars>>
  BY <1>2 DEF ServerInv, HolderInv, DoneInv, ExchangeIsWhole, NoOrphans, dbVars, genVars
<1>3. GenSteps => ServerInv'
  BY ServerGenerate, ServerCommit DEF GenSteps
<1>4. DbSteps => ServerInv'
  BY <1>1, ServerCommit, ServerDelete DEF DbSteps
<1> QED
  BY <1>2, <1>3, <1>4, Frames

LEMMA ServerAlways == Spec => [](TypeInv /\ ServerInv)
BY TypeInit, TypeStep, ServerInit, ServerStep, PTL DEF Spec

\* A stored question has its stored answer and every conversation has one, whatever
\* fails, whoever goes away and whatever is deleted meanwhile.
THEOREM ExchangesAreWhole == Spec => []ExchangeIsWhole
<1>1. ServerInv => ExchangeIsWhole
  BY DEF ServerInv
<1> QED
  BY ServerAlways, <1>1, PTL

\* No message outlives its conversation, no output its message.
THEOREM NothingOrphaned == Spec => []NoOrphans
<1>1. ServerInv => NoOrphans
  BY DEF ServerInv
<1> QED
  BY ServerAlways, <1>1, PTL

------------------------------------------------------------------------------
(* What the model is given                                                 *)

\* HistoryIsSettled, said of the rows, and no history before it is read.
PromptInv ==
    /\ HistoryIsSettled
    /\ \A s \in Sends : stage[s] \in {"idle", "posted", "retrieving"} => prompt[s] = <<>>

\* A window of an ordered query has none of its rows twice.
LEMMA WindowOnce ==
    ASSUME NEW R \in SUBSET Rows, NEW q \in InOrder(R)
    PROVE  LET p == Window(q)
           IN  \A i \in DOMAIN p : /\ p[i] \in R
                                   /\ \A j \in DOMAIN p : p[j] = p[i] => i = j
<1> DEFINE from == IF Len(q) > HistoryLimit THEN Len(q) - HistoryLimit ELSE 0
           n == Cardinality(R)
<1>1. q \in Seq(Rows) /\ DOMAIN q = 1..n /\ n \in Nat /\ \A i \in DOMAIN q : q[i] \in R
  BY OrderedRows
<1>2. Len(q) = n
  BY <1>1, LenProperties
<1>3. from \in Nat /\ n - from \in Nat
  BY <1>1, <1>2, ChatAssumption
<1>4. Window(q) = [i \in 1..(n - from) |-> q[from + i]]
  BY <1>2 DEF Window
<1>5. \A i, j \in 1..n : i < j => q[i] # q[j]
  BY DEF InOrder
<1> HIDE DEF from, n
<1>6. \A i \in 1..(n - from) : from + i \in 1..n
  BY <1>1, <1>3
<1>7. \A i, j \in 1..(n - from) : q[from + i] = q[from + j] => i = j
  BY <1>1, <1>3, <1>5, <1>6
<1>8. \A i \in 1..(n - from) : q[from + i] \in R
  BY <1>1, <1>6
<1> QED
  BY <1>4, <1>7, <1>8

\* A step that reads no history: exchanges that are complete stay so, and a
\* question keeps its conversation from the time its history is read.
LEMMA PromptKept ==
    ASSUME TypeInv, PromptInv,
           \A t \in Sends : stage[t] = "done" => stage'[t] = "done" /\ home'[t] = home[t],
           \A s \in Sends :
               \/ prompt'[s] = <<>>
               \/ /\ prompt'[s] = prompt[s] /\ aim'[s] = aim[s]
                  /\ stage'[s] \notin {"idle", "posted", "retrieving"}
    PROVE  PromptInv'
<1>1. /\ prompt \in [Sends -> Seq(Rows)]
      /\ \A s \in Sends : \A i \in DOMAIN prompt[s] : prompt[s][i][1] \in Sends
  <2>1. prompt \in [Sends -> Seq(Rows)]
    BY TypeParts DEF TypeInv, GenType
  <2>2. ASSUME NEW s \in Sends, NEW i \in DOMAIN prompt[s]
        PROVE  prompt[s][i][1] \in Sends
    <3>1. prompt[s][i] \in Rows
      BY <2>1, ElementOfSeq, LenProperties
    <3> QED
      BY <3>1 DEF Rows
  <2> QED
    BY <2>1, <2>2
<1>2. ASSUME NEW s \in Sends, NEW i \in DOMAIN prompt'[s]
      PROVE  prompt'[s] = prompt[s] /\ aim'[s] = aim[s]
  <2>1. prompt'[s] # <<>>
    BY <1>2
  <2> QED
    BY <2>1
<1>3. HistoryIsSettled'
  <2> SUFFICES ASSUME NEW s \in Sends, NEW i \in DOMAIN prompt'[s]
               PROVE  /\ \A j \in DOMAIN prompt'[s] :
                           prompt'[s][j] = prompt'[s][i] => i = j
                      /\ \/ prompt'[s][i] = <<s, "user">>
                         \/ /\ stage'[prompt'[s][i][1]] = "done"
                            /\ home'[prompt'[s][i][1]] = aim'[s]
    BY DEF HistoryIsSettled
  <2>1. prompt'[s] = prompt[s] /\ aim'[s] = aim[s]
    BY <1>2
  <2>2. i \in DOMAIN prompt[s] /\ prompt[s][i][1] \in Sends
    BY <1>1, <2>1
  <2> QED
    BY <2>1, <2>2 DEF PromptInv, HistoryIsSettled
<1>4. \A s \in Sends : stage'[s] \in {"idle", "posted", "retrieving"} => prompt'[s] = <<>>
  OBVIOUS
<1> QED
  BY <1>3, <1>4 DEF PromptInv

\* The history is read.
LEMMA PromptRead ==
    ASSUME TypeInv, ServerInv, PromptInv, NEW s \in Sends, Ask(s)
    PROVE  PromptInv'
<1>1. /\ stage \in [Sends -> Stages] /\ home \in [Sends -> Convs \cup {NoConv}]
      /\ prompt \in [Sends -> Seq(Rows)] /\ rows \subseteq Rows
  BY TypeParts DEF TypeInv, GenType, DbType
<1>2. PICK c \in Convs :
        /\ aim[s] # NoConv => c = aim[s]
        /\ home' = [home EXCEPT ![s] = c]
        /\ \/ prompt' = prompt
           \/ /\ c = aim[s]
              /\ \E q \in InOrder(RowsOf(c) \cup {<<s, "user">>}) :
                   prompt' = [prompt EXCEPT ![s] = Window(q)]
  BY DEF Ask
<1>3. /\ stage[s] = "retrieving" /\ stage' = [stage EXCEPT ![s] = "answering"]
      /\ aim' = aim
  BY DEF Ask
<1>4. \A t \in Sends : stage[t] = "done" =>
        stage'[t] = "done" /\ home'[t] = home[t] /\ t # s
  BY <1>1, <1>2, <1>3
<1>5. CASE prompt' = prompt
  <2>1. prompt[s] = <<>>
    BY <1>3 DEF PromptInv
  <2>2. \A t \in Sends : t # s => stage'[t] = stage[t]
    BY <1>1, <1>3
  <2>3. \A t \in Sends : \/ prompt'[t] = <<>>
                         \/ /\ prompt'[t] = prompt[t] /\ aim'[t] = aim[t]
                            /\ stage'[t] \notin {"idle", "posted", "retrieving"}
    BY <1>3, <1>5, <2>1, <2>2 DEF PromptInv
  <2> QED
    BY <1>4, <2>3, PromptKept
<1>6. ASSUME c = aim[s], NEW q \in InOrder(RowsOf(c) \cup {<<s, "user">>}),
             prompt' = [prompt EXCEPT ![s] = Window(q)]
      PROVE  PromptInv'
  <2> DEFINE R == RowsOf(c) \cup {<<s, "user">>}
  <2>1. R \in SUBSET Rows
    BY <1>1 DEF RowsOf, Rows, Roles
  <2>2. prompt'[s] = Window(q) /\ \A t \in Sends : t # s => prompt'[t] = prompt[t]
    BY <1>1, <1>6
  <2>3. \A m \in RowsOf(c) : stage'[m[1]] = "done" /\ home'[m[1]] = aim'[s]
    BY <1>1, <1>3, <1>4, <1>6 DEF RowsOf, ServerInv, DoneInv, Rows
  <2>4. \A i \in DOMAIN prompt'[s] :
          /\ \A j \in DOMAIN prompt'[s] : prompt'[s][j] = prompt'[s][i] => i = j
          /\ \/ prompt'[s][i] = <<s, "user">>
             \/ /\ stage'[prompt'[s][i][1]] = "done"
                /\ home'[prompt'[s][i][1]] = aim'[s]
    BY <2>1, <2>2, <2>3, WindowOnce
  <2>5. ASSUME NEW t \in Sends, t # s, NEW i \in DOMAIN prompt'[t]
        PROVE  /\ \A j \in DOMAIN prompt'[t] : prompt'[t][j] = prompt'[t][i] => i = j
               /\ \/ prompt'[t][i] = <<t, "user">>
                  \/ /\ stage'[prompt'[t][i][1]] = "done"
                     /\ home'[prompt'[t][i][1]] = aim'[t]
    <3>1. prompt'[t] = prompt[t] /\ aim'[t] = aim[t] /\ i \in DOMAIN prompt[t]
      BY <1>3, <2>2, <2>5
    <3>2. prompt[t][i] \in Rows
      BY <1>1, <3>1, ElementOfSeq, LenProperties
    <3>3. prompt[t][i][1] \in Sends
      BY <3>2 DEF Rows
    <3> QED
      BY <1>4, <3>1, <3>3 DEF PromptInv, HistoryIsSettled
  <2>6. HistoryIsSettled'
    BY <2>4, <2>5 DEF HistoryIsSettled
  <2>7. \A t \in Sends : stage'[t] \in {"idle", "posted", "retrieving"} =>
          t # s /\ stage'[t] = stage[t]
    BY <1>1, <1>3
  <2>8. \A t \in Sends : stage'[t] \in {"idle", "posted", "retrieving"} => prompt'[t] = <<>>
    BY <2>2, <2>7 DEF PromptInv
  <2> QED
    BY <2>6, <2>8 DEF PromptInv
<1> QED
  BY <1>2, <1>5, <1>6

LEMMA PromptStep == TypeInv /\ ServerInv /\ PromptInv /\ [Next]_vars => PromptInv'
<1> SUFFICES ASSUME TypeInv, ServerInv, PromptInv, [Next]_vars  PROVE PromptInv'
  OBVIOUS
<1>1. /\ stage \in [Sends -> Stages] /\ prompt \in [Sends -> Seq(Rows)]
      /\ aim \in [Sends -> Convs \cup {NoConv}]
      /\ \A s \in Sends : stage[s] \in {"idle", "posted", "retrieving"} => prompt[s] = <<>>
  BY TypeParts DEF TypeInv, GenType, PromptInv
<1>2. CASE UNCHANGED genVars
  BY <1>1, <1>2, PromptKept DEF genVars
<1>3. ASSUME NEW s \in Sends, Send(s) \/ Generate(s), ~Ask(s)  PROVE PromptInv'
  <2>1. /\ home' = home /\ stage[s] # "done"
        /\ \A t \in Sends \ {s} :
             stage'[t] = stage[t] /\ prompt'[t] = prompt[t] /\ aim'[t] = aim[t]
    BY <1>1, <1>3
       DEF Send, Generate, Refuse, Start, Delta, Source, Commit, Fail, Abort,
           InTransaction, Holding
  <2>2. \/ prompt'[s] = <<>>
        \/ /\ prompt'[s] = prompt[s] /\ aim'[s] = aim[s]
           /\ stage'[s] \notin {"idle", "posted", "retrieving"}
    BY <1>1, <1>3
       DEF Send, Generate, Refuse, Start, Delta, Source, Commit, Fail, Abort
  <2>3. \A t \in Sends : stage[t] = "done" => stage'[t] = "done" /\ home'[t] = home[t]
    BY <2>1
  <2>4. \A t \in Sends : \/ prompt'[t] = <<>>
                         \/ /\ prompt'[t] = prompt[t] /\ aim'[t] = aim[t]
                            /\ stage'[t] \notin {"idle", "posted", "retrieving"}
    BY <1>1, <2>1, <2>2
  <2> QED
    BY <2>3, <2>4, PromptKept
<1> QED
  BY <1>2, <1>3, PromptRead, Frames DEF GenSteps, Generate

LEMMA PromptStart == Init => PromptInv
  BY DEF Init, PromptInv, HistoryIsSettled

\* The history put before the model is of the conversation the question was sent to,
\* each message once, and but for the question of exchanges that are complete:
\* _load_history in engine.py beside other sends, failures and deletes.
THEOREM HistoriesAreSettled == Spec => []HistoryIsSettled
<1>1. PromptInv => HistoryIsSettled
  BY DEF PromptInv
<1> QED
  BY ServerAlways, PromptStart, PromptStep, <1>1, PTL DEF Spec
==============================================================================
