---------------------------- MODULE ChatViewProofs ----------------------------
(***************************************************************************)
(* Theorems about what the browser shows in Chat, for any number of        *)
(* questions, loads, deletes, clicks and faults: ShownStoredIsTrue,        *)
(* ViewIsCurrent and RailIsOfLastAnswer.                                   *)
(*                                                                         *)
(* Above the server's invariant of ChatProofs there are six layers:        *)
(* ReadInv, one body is read and its events follow the stage of its        *)
(* generator; SilentInv, a question that was refused brings no text and a  *)
(* failed one no more of it; AimInv, which conversation a question goes    *)
(* to; BubbleInv, what a bubble may hold; ReplyInv, what a reply under way *)
(* holds; and ShowInv, how the bubbles on the screen, the conversation and *)
(* the right rail belong together unless the view was disturbed.           *)
(***************************************************************************)
EXTENDS ChatProofs

------------------------------------------------------------------------------
(* How generators move                                                     *)

\* A committed or failed send stays so with its answer; one that was posted stays
\* posted with its conversation_id; only a Send starts one.
Moves ==
    \A s \in Sends :
        /\ stage[s] = "done" =>
             stage'[s] = "done" /\ home'[s] = home[s] /\ said'[s] = said[s]
        /\ stage[s] = "error" => stage'[s] = "error" /\ said'[s] = said[s]
        /\ stage[s] # "idle" => stage'[s] # "idle" /\ aim'[s] = aim[s]
        /\ stage[s] = "idle" => stage'[s] = "idle" \/ Send(s)

LEMMA GeneratorsMove ==
    ASSUME TypeInv, [Next]_vars
    PROVE  Moves
<1>1. GenType
  BY TypeParts DEF TypeInv
<1>2. ASSUME NEW t \in Sends, Send(t) PROVE Moves
  BY <1>1, <1>2 DEF Moves, Send, GenType
<1>3. ASSUME NEW t \in Sends, Refuse(t) \/ Start(t) \/ Source(t) \/ Delta(t)
      PROVE  Moves
  BY <1>1, <1>3 DEF Moves, Refuse, Start, Source, Delta, GenType
<1>4. ASSUME NEW t \in Sends, Ask(t) PROVE Moves
  <2>1. PICK c \in Convs : home' = [home EXCEPT ![t] = c]
    BY <1>4 DEF Ask
  <2> QED
    BY <1>1, <1>4, <2>1 DEF Moves, Ask, GenType
<1>5. ASSUME NEW t \in Sends, Commit(t) \/ Fail(t) \/ Abort(t) PROVE Moves
  BY <1>1, <1>5 DEF Moves, Commit, Fail, Abort, InTransaction, Holding, GenType
<1>6. CASE UNCHANGED genVars
  BY <1>6 DEF Moves, genVars
<1> QED
  BY <1>2, <1>3, <1>4, <1>5, <1>6, Frames DEF GenSteps, Generate

------------------------------------------------------------------------------
(* The body that is read                                                   *)

\* The composer is busy while a body is read, nothing was received of a question
\* not yet sent, and an error event comes from a generator that failed.
ReadInv ==
    /\ streaming <=> reading # Nobody
    /\ reading # Nobody => stage[reading] # "idle"
    /\ \A s \in Sends : stage[s] = "idle" => heard[s] = 0 /\ told[s] = {}
    /\ \A s \in Sends : "error" \in told[s] => stage[s] = "error"
    /\ \A s \in Sends : "done" \in told[s] => stage[s] = "done"

LEMMA SendsAreSomebody == \A s \in Sends : s # Nobody
BY DEF Sends, Nobody

LEMMA ReadStep ==
    ASSUME TypeInv, ReadInv, [Next]_vars
    PROVE  ReadInv'
<1>1. /\ GenType /\ ReadType /\ ViewType /\ Moves
      /\ \A s \in Sends : s # Nobody
  BY TypeParts, GeneratorsMove, SendsAreSomebody DEF TypeInv
<1>2. ASSUME NEW s \in Sends, Send(s) PROVE ReadInv'
  BY <1>1, <1>2 DEF Send, ReadInv, GenType, Moves
<1>3. ASSUME NEW s \in Sends, HearText(s) PROVE ReadInv'
  BY <1>1, <1>3 DEF HearText, ReadInv, ReadType, genVars
<1>4. ASSUME NEW s \in Sends, HearSources(s) \/ HearDone(s) \/ HearError(s)
      PROVE  ReadInv'
  BY <1>1, <1>4 DEF HearSources, HearDone, HearError, ReadInv, ReadType, genVars
<1>5. ASSUME NEW s \in Sends, HearEnd(s) \/ Break(s) PROVE ReadInv'
  BY <1>1, <1>5 DEF HearEnd, Break, ReadInv, genVars
<1>6. ASSUME NEW reloaded \in BOOLEAN, Remount(reloaded) PROVE ReadInv'
  BY <1>1, <1>6 DEF Remount, ReadInv, genVars
<1>7. CASE UNCHANGED <<readVars, streaming>> /\ ~\E s \in Sends : Send(s)
  BY <1>1, <1>7 DEF ReadInv, Moves, readVars, ReadType
<1>8. \/ ReadSteps
      \/ UNCHANGED <<readVars, streaming>>
  BY Frames
     DEF ViewSteps, ReadSteps, viewVars, ShowLoad, HearDelete, NewChat, Remount
<1> QED
  BY <1>2, <1>3, <1>4, <1>5, <1>6, <1>7, <1>8 DEF ReadSteps, Hear

\* What is refused before its generator runs has no text, and an error event is
\* the last of a body's.
SilentInv ==
    \A s \in Sends :
        /\ stage[s] \in {"idle", "posted", "retrieving", "refused"} => said[s] = 0
        /\ "error" \in told[s] => heard[s] = said[s]

LEMMA SilentStep ==
    ASSUME TypeInv, ReadInv, SilentInv, [Next]_vars
    PROVE  SilentInv'
<1>1. GenType /\ ReadType /\ Moves
  BY TypeParts, GeneratorsMove DEF TypeInv
<1> DEFINE Silent == {"idle", "posted", "retrieving", "refused"}
<1>2. \A s \in Sends : stage'[s] \in Silent => said'[s] = 0
  <2>1. ASSUME NEW t \in Sends, \/ Send(t) \/ Refuse(t) \/ Start(t) \/ Source(t)
                                \/ Ask(t) \/ Commit(t) \/ Fail(t) \/ Abort(t)
        PROVE  /\ said' = said
               /\ \A s \in Sends : stage'[s] \in Silent => stage[s] \in Silent
    BY <1>1, <2>1 DEF Send, Refuse, Start, Source, Ask, Commit, Fail, Abort, GenType
  <2>2. ASSUME NEW t \in Sends, Delta(t)
        PROVE  /\ stage' = stage /\ stage[t] = "answering"
               /\ \A s \in Sends \ {t} : said'[s] = said[s]
    BY <1>1, <2>2 DEF Delta, GenType
  <2>3. CASE UNCHANGED genVars
    BY <2>3 DEF SilentInv, genVars
  <2> QED
    BY <2>1, <2>2, <2>3, Frames DEF SilentInv, GenSteps, Generate
<1>3. \A s \in Sends : "error" \in told[s] => said'[s] = said[s]
  BY <1>1 DEF ReadInv, Moves
<1>4. \A s \in Sends : "error" \in told'[s] => heard'[s] = said'[s]
  <2>1. ASSUME NEW t \in Sends, HearText(t)
        PROVE  /\ told' = told /\ said' = said /\ heard[t] # said[t]
               /\ \A s \in Sends \ {t} : heard'[s] = heard[s]
    BY <1>1, <2>1, ChatAssumption DEF HearText, genVars, ReadType, GenType
  <2>2. ASSUME NEW t \in Sends, HearError(t)
        PROVE  /\ heard' = heard /\ said' = said /\ heard[t] = said[t]
               /\ \A s \in Sends \ {t} : told'[s] = told[s]
    BY <1>1, <2>2 DEF HearError, Caught, genVars, ReadType
  <2>3. ASSUME NEW t \in Sends, HearSources(t) \/ HearDone(t)
        PROVE  /\ heard' = heard
               /\ \A s \in Sends : "error" \in told'[s] => "error" \in told[s]
    BY <1>1, <2>3 DEF HearSources, HearDone, ReadType
  <2>4. ASSUME NEW t \in Sends, Send(t) \/ HearEnd(t) \/ Break(t)
        PROVE  UNCHANGED <<heard, told>>
    BY <2>4 DEF Send, HearEnd, Break
  <2>5. ASSUME NEW reloaded \in BOOLEAN, Remount(reloaded)
        PROVE  UNCHANGED <<heard, told>>
    BY <2>5 DEF Remount
  <2>6. CASE UNCHANGED <<heard, told>>
    BY <1>3, <2>6 DEF SilentInv
  <2>7. UNCHANGED readVars => UNCHANGED <<heard, told>>
    BY DEF readVars
  <2> QED
    BY <1>3, <2>1, <2>2, <2>3, <2>4, <2>5, <2>6, <2>7, Frames
       DEF SilentInv, ReadSteps, Hear
<1> QED
  BY <1>2, <1>4 DEF SilentInv

------------------------------------------------------------------------------
(* Where an answer goes                                                    *)

\* A question with a conversation_id is inserted into that conversation.
AimInv ==
    \A s \in Sends :
        stage[s] \in Holding \cup {"done"} /\ aim[s] # NoConv => home[s] = aim[s]

LEMMA AimStep ==
    ASSUME TypeInv, AimInv, [Next]_vars
    PROVE  AimInv'
<1>1. GenType
  BY TypeParts DEF TypeInv
<1>2. ASSUME NEW s \in Sends, Send(s) PROVE AimInv'
  BY <1>1, <1>2 DEF Send, AimInv, GenType, Holding
<1>3. ASSUME NEW s \in Sends, Ask(s) PROVE AimInv'
  <2>1. PICK c \in Convs : /\ aim[s] # NoConv => c = aim[s]
                           /\ home' = [home EXCEPT ![s] = c]
    BY <1>3 DEF Ask
  <2> QED
    BY <1>1, <1>3, <2>1 DEF Ask, AimInv, GenType
<1>4. ASSUME NEW s \in Sends,
             \/ Refuse(s) \/ Start(s) \/ Delta(s) \/ Source(s)
             \/ Commit(s) \/ Fail(s) \/ Abort(s)
      PROVE  AimInv'
  <2>1. /\ aim' = aim /\ home' = home
        /\ \A t \in Sends : stage'[t] \in Holding \cup {"done"}
                            => stage[t] \in Holding \cup {"done"}
    BY <1>1, <1>4 DEF Refuse, Start, Delta, Source, Commit, Fail, Abort, Holding, GenType
  <2> QED
    BY <2>1 DEF AimInv
<1>5. CASE UNCHANGED genVars
  BY <1>5 DEF AimInv, genVars
<1> QED
  BY <1>2, <1>3, <1>4, <1>5, Frames DEF GenSteps, Generate

------------------------------------------------------------------------------
(* Bubbles and replies                                                     *)

\* The answer of s as far as it was received.
Copies(s, n) == [i \in 1..n |-> s]

\* A bubble with the server's identity is a committed row with all of its content.
Whole(b, st, sd) ==
    b.stored => /\ st[b.of] = "done"
                /\ b.text = Copies(b.of, IF b.role = "user" THEN 1 ELSE sd[b.of])

\* A bubble on the screen belongs to a question that was sent; the placeholder of
\* the body that is read has the text received so far or the notice of its error,
\* and one that no body will fill any more shows no text.
BubbleInv ==
    \A i \in DOMAIN msgs :
        /\ Whole(msgs[i], stage, said)
        /\ stage[msgs[i].of] # "idle"
        /\ IsPlaceholder(msgs[i], reading) =>
             msgs[i].text = IF "error" \in told[reading] THEN Notice
                            ELSE Copies(reading, heard[reading])
        /\ /\ IsPlaceholder(msgs[i], msgs[i].of)
           /\ msgs[i].of # reading /\ "done" \notin told[msgs[i].of]
           => msgs[i].text \in {<<>>, Notice}

\* A reply under way brings rows of its conversation, an answer among them, unless
\* the conversation was deleted after it was found.
ReplyInv ==
    \A l \in Loads :
      /\ load[l].phase = "found" => load[l].conv \in existed
      /\ load[l].phase = "read" =>
        /\ \/ LastAnswer(load[l].got) # 0
           \/ load[l].got = <<>> /\ load[l].conv \in existed \ convs
        /\ \A i \in DOMAIN load[l].got :
            /\ load[l].got[i].stored
            /\ Whole(load[l].got[i], stage, said)
            /\ home[load[l].got[i].of] = load[l].conv

\* The result of an ordered query has every row of the table.
LEMMA EveryRowIsRead ==
    ASSUME NEW R \in SUBSET Rows, NEW q \in InOrder(R), NEW r \in R
    PROVE  \E i \in DOMAIN q : q[i] = r
<1>1. IsFiniteSet(R) /\ Cardinality(R) \in Nat
  BY FiniteRows
<1>2. q \in [1..Cardinality(R) -> R] /\ DOMAIN q = 1..Cardinality(R)
  BY OrderedRows
<1>3. \A i, j \in 1..Cardinality(R) : i < j => q[i] # q[j]
  BY DEF InOrder
<1>4. \A i, j \in 1..Cardinality(R) : q[i] = q[j] => i = j
  BY <1>1, <1>3
<1>5. q \in Injection(1..Cardinality(R), R)
  BY <1>2, <1>4 DEF Injection, IsInjective
<1>6. Cardinality(1..Cardinality(R)) = Cardinality(R)
  BY <1>1, FS_Interval
<1>7. q \in Surjection(1..Cardinality(R), R)
  BY <1>1, <1>5, <1>6, FS_Injection
<1> QED
  BY <1>2, <1>7 DEF Surjection

\* One more delta.
LEMMA CopiesGrow ==
    ASSUME NEW s \in Sends, NEW n \in Nat
    PROVE  Append(Copies(s, n), s) = Copies(s, n + 1)
<1>1. Copies(s, n) \in [1..n -> Sends]
  BY DEF Copies
<1>2. Copies(s, n) \in Seq(Sends) /\ Len(Copies(s, n)) = n
  BY <1>1, SequenceOf
<1>3. /\ Append(Copies(s, n), s) \in Seq(Sends)
      /\ Len(Append(Copies(s, n), s)) = n + 1
      /\ \A i \in 1..(n + 1) : Append(Copies(s, n), s)[i] = s
  BY <1>2 DEF Copies
<1>4. Copies(s, n + 1) \in [1..(n + 1) -> Sends]
  BY DEF Copies
<1>5. /\ Copies(s, n + 1) \in Seq(Sends) /\ Len(Copies(s, n + 1)) = n + 1
      /\ \A i \in 1..(n + 1) : Copies(s, n + 1)[i] = s
  BY <1>4, SequenceOf DEF Copies
<1> QED
  BY <1>3, <1>5, SeqEqual

LEMMA WholeStays ==
    ASSUME Moves
    PROVE  \A b \in Bubbles : Whole(b, stage, said) => Whole(b, stage', said')
BY DEF Moves, Whole, Bubbles

\* A conversation that was deleted does not come back.
LEMMA DeletedStays ==
    ASSUME TypeInv, ServerInv, [Next]_vars
    PROVE  /\ existed \subseteq existed'
           /\ existed \ convs \subseteq existed' \ convs'
<1>1. ASSUME NEW s \in Sends, Commit(s)
      PROVE  /\ existed \subseteq existed'
             /\ existed \ convs \subseteq existed' \ convs'
  <2>1. stage[s] \in Holding
    BY <1>1 DEF Commit, Holding
  <2> QED
    BY <1>1, <2>1 DEF Commit, ServerInv, HolderInv
<1>2. ASSUME NEW s \in Sends, SaveOutput(s)
      PROVE  UNCHANGED <<convs, existed>>
  BY <1>2 DEF SaveOutput
<1>3. ASSUME NEW d \in Deletes, DeleteRows(d)
      PROVE  existed' = existed /\ convs' \subseteq convs
  BY <1>3 DEF DeleteRows, dbVars
<1> QED
  BY <1>1, <1>2, <1>3, Frames DEF DbSteps, dbVars

LEMMA ReplyStep ==
    ASSUME TypeInv, ServerInv, ReplyInv, [Next]_vars
    PROVE  ReplyInv'
<1>1. /\ DbType /\ GenType /\ LoadType /\ Moves
      /\ \A b \in Bubbles : Whole(b, stage, said) => Whole(b, stage', said')
  BY TypeParts, GeneratorsMove, WholeStays DEF TypeInv
<1> DEFINE Fine(k) ==
             /\ \/ LastAnswer(load'[k].got) # 0
                \/ load'[k].got = <<>> /\ load'[k].conv \in existed' \ convs'
             /\ \A i \in DOMAIN load'[k].got :
                 /\ load'[k].got[i].stored
                 /\ Whole(load'[k].got[i], stage', said')
                 /\ home'[load'[k].got[i].of] = load'[k].conv
<1>2. ASSUME NEW k \in Loads, load'[k] = load[k], load[k].phase = "read"
      PROVE  Fine(k)
  <2>1. load[k].got \in Seq(Bubbles)
    BY <1>1 DEF LoadType, LoadRecords
  <2>2. \A i \in DOMAIN load[k].got : load[k].got[i] \in Bubbles
    BY <2>1, LenProperties, ElementOfSeq
  <2>3. \A i \in DOMAIN load[k].got :
          /\ load[k].got[i].stored /\ Whole(load[k].got[i], stage, said)
          /\ home[load[k].got[i].of] = load[k].conv
    BY <1>2 DEF ReplyInv
  <2>4. \A i \in DOMAIN load[k].got : home'[load[k].got[i].of] = load[k].conv
    BY <1>1, <2>2, <2>3 DEF Whole, Moves, Bubbles
  <2> QED
    BY <1>1, <1>2, <2>2, <2>3, <2>4, DeletedStays DEF ReplyInv
<1>3. ASSUME NEW l \in Loads, ReadLoad(l), load'[l].phase = "read" PROVE Fine(l)
  <2> DEFINE c == load[l].conv
             R == RowsOf(c)
  <2>1. load[l] \in LoadRecords
    BY <1>1 DEF LoadType
  <2>2. c \in existed /\ R \in SUBSET Rows
    BY <1>1, <1>3 DEF ReadLoad, RowsOf, DbType, ReplyInv
  <2>3. PICK q \in InOrder(R) :
          load' = [load EXCEPT ![l].phase = "read", ![l].got =
                     [i \in DOMAIN q |->
                        [of |-> q[i][1], role |-> q[i][2], stored |-> TRUE,
                         text |-> Content(q[i])]]]
    BY <1>3 DEF ReadLoad
  <2> DEFINE got == [i \in DOMAIN q |->
                       [of |-> q[i][1], role |-> q[i][2], stored |-> TRUE,
                        text |-> Content(q[i])]]
  <2>4. got \in Seq(Bubbles)
    BY <1>1, <2>2, GotType
  <2>5. DOMAIN got = DOMAIN q /\ \A i \in DOMAIN q : q[i] \in R
    BY <2>2, OrderedRows
  <2>6. \A i \in DOMAIN got :
          /\ got[i].stored /\ Whole(got[i], stage, said) /\ home[got[i].of] = c
          /\ stage[got[i].of] = "done" /\ got[i].of \in Sends
    <3> SUFFICES ASSUME NEW i \in DOMAIN q
                 PROVE  /\ got[i].stored /\ Whole(got[i], stage, said)
                        /\ home[got[i].of] = c
                        /\ stage[got[i].of] = "done" /\ got[i].of \in Sends
      BY <2>5
    <3>1. q[i] \in rows /\ home[q[i][1]] = c /\ q[i] \in Rows
      BY <2>2, <2>5 DEF RowsOf
    <3>2. stage[q[i][1]] = "done" /\ q[i][1] \in Sends
      BY <3>1 DEF ServerInv, DoneInv, Rows
    <3>3. got[i].text = Copies(q[i][1], IF q[i][2] = "user" THEN 1 ELSE said[q[i][1]])
      BY DEF Content, Copies
    <3> QED
      BY <3>1, <3>2, <3>3 DEF Whole
  <2>7. c \in convs => LastAnswer(got) # 0
    <3> HAVE c \in convs
    <3>1. PICK s \in Sends : <<s, "assistant">> \in rows /\ home[s] = c
      BY DEF ServerInv, ExchangeIsWhole
    <3>2. <<s, "assistant">> \in R
      BY <3>1 DEF RowsOf
    <3>3. PICK i \in DOMAIN q : q[i] = <<s, "assistant">>
      BY <2>2, <3>2, EveryRowIsRead
    <3>4. got[i].role = "assistant"
      BY <3>3
    <3> QED
      BY <2>4, <2>5, <3>4, LastAnswerIsLast
  <2>8. c \notin convs => got = <<>>
    <3> HAVE c \notin convs
    <3>1. R = {}
      BY DEF RowsOf, ServerInv, NoOrphans
    <3>2. DOMAIN q = {}
      BY <2>2, <2>5, <3>1
    <3> QED
      BY <2>4, <2>5, <3>2
  <2> HIDE DEF got
  <2>9. load'[l].got = got /\ load'[l].conv = c /\ UNCHANGED <<genVars, dbVars>>
    BY <1>1, <1>3, <2>1, <2>3 DEF LoadType, LoadRecords, ReadLoad, got
  <2> QED
    BY <2>2, <2>6, <2>7, <2>8, <2>9 DEF genVars, dbVars
<1>4. ASSUME NEW l \in Loads, ReadLoad(l), NEW k \in Loads \ {l}
      PROVE  load'[k] = load[k]
  BY <1>1, <1>4 DEF ReadLoad, LoadType
<1>5. \/ \E l \in Loads : ReadLoad(l)
      \/ \A k \in Loads : load'[k] = load[k] \/ load'[k].phase # "read"
  <2>1. ASSUME NEW c \in Convs, Select(c), NEW k \in Loads
        PROVE  load'[k] = load[k] \/ load'[k].phase # "read"
    BY <1>1, <2>1 DEF Select, LoadType, Asked, NoLoad
  <2>2. ASSUME NEW l \in Loads, FindLoad(l) \/ ShowLoad(l) \/ DropLoad(l),
               NEW k \in Loads
        PROVE  load'[k] = load[k] \/ load'[k].phase # "read"
    BY <1>1, <2>2 DEF FindLoad, ShowLoad, DropLoad, LoadType, LoadRecords, NoLoad
  <2>3. ASSUME NEW reloaded \in BOOLEAN, Remount(reloaded), NEW k \in Loads
        PROVE  load'[k] = load[k] \/ load'[k].phase # "read"
    BY <1>1, <2>3 DEF Remount, LoadType, Asked, NoLoad
  <2> QED
    BY <2>1, <2>2, <2>3, Frames DEF LoadSteps
<1>6. \A k \in Loads : load'[k].phase = "read" => Fine(k)
  BY <1>2, <1>3, <1>4, <1>5
<1>7. \A k \in Loads : load'[k].phase = "found" =>
        load'[k] = load[k] \/ load'[k].conv \in convs
  <2>1. ASSUME NEW c \in Convs, Select(c), NEW k \in Loads
        PROVE  load'[k] = load[k] \/ load'[k].phase # "found"
    BY <1>1, <2>1 DEF Select, LoadType, Asked, NoLoad
  <2>2. ASSUME NEW l \in Loads, ReadLoad(l) \/ ShowLoad(l) \/ DropLoad(l),
               NEW k \in Loads
        PROVE  load'[k] = load[k] \/ load'[k].phase # "found"
    BY <1>1, <2>2 DEF ReadLoad, ShowLoad, DropLoad, LoadType, LoadRecords, NoLoad
  <2>3. ASSUME NEW reloaded \in BOOLEAN, Remount(reloaded), NEW k \in Loads
        PROVE  load'[k] = load[k] \/ load'[k].phase # "found"
    BY <1>1, <2>3 DEF Remount, LoadType, Asked, NoLoad
  <2>4. ASSUME NEW l \in Loads, FindLoad(l), NEW k \in Loads,
               load'[k].phase = "found"
        PROVE  load'[k] = load[k] \/ load'[k].conv \in convs
    BY <1>1, <2>4 DEF FindLoad, LoadType, LoadRecords
  <2> QED
    BY <2>1, <2>2, <2>3, <2>4, Frames DEF LoadSteps
<1>8. \A k \in Loads : load'[k].phase = "found" => load'[k].conv \in existed'
  BY <1>1, <1>7, DeletedStays DEF ReplyInv, DbType
<1> QED
  BY <1>6, <1>8 DEF ReplyInv

\* What a question adds to the screen.
SentBubbles(s) ==
    << [of |-> s, role |-> "user", stored |-> FALSE, text |-> <<s>>],
       [of |-> s, role |-> "assistant", stored |-> FALSE, text |-> <<>>] >>

LEMMA ElementsAreBubbles ==
    ASSUME NEW m \in Seq(Bubbles)
    PROVE  \A i \in DOMAIN m : m[i] \in Bubbles
BY LenProperties, ElementOfSeq

LEMMA SentAtTheEnd ==
    ASSUME NEW s \in Sends, msgs \in Seq(Bubbles), msgs' = msgs \o SentBubbles(s)
    PROVE  /\ msgs' \in Seq(Bubbles) /\ Len(msgs) \in Nat
           /\ DOMAIN msgs = 1..Len(msgs) /\ DOMAIN msgs' = 1..(Len(msgs) + 2)
           /\ \A i \in DOMAIN msgs : msgs'[i] = msgs[i]
           /\ msgs'[Len(msgs) + 1] = SentBubbles(s)[1]
           /\ msgs'[Len(msgs) + 2] = SentBubbles(s)[2]
<1>1. SentBubbles(s)[1] \in Bubbles /\ SentBubbles(s)[2] \in Bubbles
  BY NoticeType DEF SentBubbles, Bubbles, Roles
<1>2. SentBubbles(s) \in Seq(Bubbles) /\ Len(SentBubbles(s)) = 2
  BY <1>1 DEF SentBubbles
<1> DEFINE both == msgs \o SentBubbles(s)
<1>3. /\ both \in Seq(Bubbles) /\ Len(both) = Len(msgs) + Len(SentBubbles(s))
      /\ \A i \in 1..(Len(msgs) + Len(SentBubbles(s))) :
           both[i] = IF i <= Len(msgs) THEN msgs[i] ELSE SentBubbles(s)[i - Len(msgs)]
  BY <1>2, ConcatProperties
<1> HIDE DEF both
<1>4. Len(msgs) \in Nat /\ DOMAIN msgs = 1..Len(msgs)
  BY LenProperties
<1>5. DOMAIN both = 1..(Len(msgs) + 2)
  BY <1>2, <1>3, LenProperties
<1>6. msgs' = both
  BY DEF both
<1> QED
  BY <1>2, <1>3, <1>4, <1>5, <1>6

LEMMA BubbleStep ==
    ASSUME TypeInv, ReadInv, SilentInv, BubbleInv, ReplyInv, [Next]_vars
    PROVE  BubbleInv'
<1>0. /\ GenType /\ ViewType /\ ReadType /\ LoadType /\ Moves
      /\ \A s \in Sends : s # Nobody /\ Copies(s, 0) = <<>>
  BY TypeParts, GeneratorsMove, SendsAreSomebody DEF TypeInv, Copies
<1>1. \A b \in Bubbles : Whole(b, stage, said) => Whole(b, stage', said')
  BY <1>0, WholeStays
<1>2. \A i \in DOMAIN msgs : msgs[i] \in Bubbles /\ msgs[i].of \in Sends
  BY <1>0, ElementsAreBubbles DEF ViewType, Bubbles
<1>3. \A i \in DOMAIN msgs : stage'[msgs[i].of] # "idle"
  BY <1>0, <1>2 DEF BubbleInv, Moves
<1>4. ASSUME NEW s \in Sends, Send(s) PROVE BubbleInv'
  <2>1. msgs' = msgs \o SentBubbles(s)
    BY <1>4 DEF Send, SentBubbles
  <2>2. /\ msgs \in Seq(Bubbles) /\ Len(msgs) \in Nat
        /\ DOMAIN msgs = 1..Len(msgs) /\ DOMAIN msgs' = 1..(Len(msgs) + 2)
        /\ \A i \in DOMAIN msgs : msgs'[i] = msgs[i]
        /\ msgs'[Len(msgs) + 1] = SentBubbles(s)[1]
        /\ msgs'[Len(msgs) + 2] = SentBubbles(s)[2]
    BY <1>0, <2>1, SentAtTheEnd DEF ViewType
  <2>3. /\ stage[s] = "idle" /\ stage'[s] = "posted" /\ reading' = s
        /\ heard' = heard /\ told' = told /\ heard[s] = 0 /\ told[s] = {}
        /\ reading = Nobody
    BY <1>0, <1>4 DEF Send, CanSend, ReadInv, GenType, ReadType
  <2>4. ASSUME NEW i \in DOMAIN msgs
        PROVE  /\ Whole(msgs'[i], stage', said') /\ stage'[msgs'[i].of] # "idle"
               /\ ~IsPlaceholder(msgs'[i], s)
               /\ /\ IsPlaceholder(msgs'[i], msgs'[i].of)
                  /\ "done" \notin told'[msgs'[i].of]
                  => msgs'[i].text \in {<<>>, Notice}
    BY <1>0, <1>1, <1>2, <1>3, <2>2, <2>3 DEF BubbleInv, IsPlaceholder
  <2>5. LET b == SentBubbles(s)[1]
        IN  /\ Whole(b, stage', said') /\ stage'[b.of] # "idle" /\ b.of = s
            /\ ~IsPlaceholder(b, s)
    BY <2>3 DEF SentBubbles, Whole, IsPlaceholder
  <2>6. LET b == SentBubbles(s)[2]
        IN  /\ Whole(b, stage', said') /\ stage'[b.of] # "idle" /\ b.of = s
            /\ b.text = Copies(s, 0)
    BY <2>3 DEF SentBubbles, Whole, Copies
  <2>7. \A i \in DOMAIN msgs' : \/ i \in DOMAIN msgs
                                \/ i = Len(msgs) + 1 \/ i = Len(msgs) + 2
    BY <2>2
  <2> QED
    BY <2>2, <2>3, <2>4, <2>5, <2>6, <2>7 DEF BubbleInv
<1>5. ASSUME NEW s \in Sends, HearText(s) PROVE BubbleInv'
  <2>1. /\ heard[s] \in Nat /\ heard'[s] = heard[s] + 1
        /\ UNCHANGED <<stage, said, told, reading>> /\ reading = s
        /\ DOMAIN msgs' = DOMAIN msgs /\ "error" \notin told[s]
    BY <1>0, <1>5, ChatAssumption DEF HearText, genVars, ReadType, GenType, SilentInv
  <2>2. ASSUME NEW i \in DOMAIN msgs, IsPlaceholder(msgs[i], s)
        PROVE  /\ ~msgs'[i].stored /\ msgs'[i].of = s
               /\ msgs'[i].text = Copies(s, heard[s] + 1)
    <3>1. msgs'[i] = [msgs[i] EXCEPT !.text = Append(@, s)]
      BY <1>5, <2>2 DEF HearText
    <3>2. msgs[i].text = Copies(s, heard[s])
      BY <2>1, <2>2 DEF BubbleInv
    <3> QED
      BY <1>2, <2>1, <2>2, <3>1, <3>2, CopiesGrow DEF Bubbles, IsPlaceholder
  <2>3. \A i \in DOMAIN msgs : ~IsPlaceholder(msgs[i], s) => msgs'[i] = msgs[i]
    BY <1>5 DEF HearText
  <2> QED
    BY <1>2, <2>1, <2>2, <2>3 DEF BubbleInv, Whole, IsPlaceholder
<1>6. ASSUME NEW s \in Sends, HearSources(s) PROVE BubbleInv'
  <2>1. /\ UNCHANGED <<msgs, stage, said, reading, heard>>
        /\ reading = s
        /\ ("error" \in told'[s]) <=> ("error" \in told[s])
        /\ ("done" \in told'[s]) <=> ("done" \in told[s])
        /\ \A u \in Sends \ {s} : told'[u] = told[u]
    BY <1>0, <1>6 DEF HearSources, genVars, ReadType
  <2> QED
    BY <1>2, <2>1 DEF BubbleInv
<1>7. ASSUME NEW s \in Sends, HearDone(s) PROVE BubbleInv'
  <2>1. /\ UNCHANGED <<stage, said, reading, heard>> /\ reading = s
        /\ stage[s] = "done" /\ heard[s] = said[s] /\ "error" \notin told[s]
        /\ DOMAIN msgs' = DOMAIN msgs
        /\ \A u \in Sends \ {s} : told'[u] = told[u]
    BY <1>0, <1>7 DEF HearDone, Caught, genVars, ReadInv
  <2>2. ASSUME NEW i \in DOMAIN msgs, IsPlaceholder(msgs[i], s)
        PROVE  /\ Whole(msgs'[i], stage, said) /\ msgs'[i].stored
               /\ msgs'[i].of = msgs[i].of
    <3>1. msgs'[i] = [msgs[i] EXCEPT !.stored = TRUE]
      BY <1>7, <2>2 DEF HearDone
    <3>2. msgs[i].text = Copies(s, heard[s])
      BY <2>1, <2>2 DEF BubbleInv
    <3> QED
      BY <1>2, <2>1, <2>2, <3>1, <3>2 DEF Bubbles, IsPlaceholder, Whole
  <2>3. \A i \in DOMAIN msgs : ~IsPlaceholder(msgs[i], s) => msgs'[i] = msgs[i]
    BY <1>7 DEF HearDone
  <2>4. \A i \in DOMAIN msgs' : ~IsPlaceholder(msgs'[i], s)
    BY <2>1, <2>2, <2>3 DEF IsPlaceholder
  <2>5. ASSUME NEW i \in DOMAIN msgs
        PROVE  /\ Whole(msgs'[i], stage, said) /\ stage[msgs'[i].of] # "idle"
               /\ /\ IsPlaceholder(msgs'[i], msgs'[i].of)
                  /\ msgs'[i].of # s /\ "done" \notin told'[msgs'[i].of]
                  => msgs'[i].text \in {<<>>, Notice}
    <3>1. CASE IsPlaceholder(msgs[i], s)
      BY <2>2, <3>1 DEF BubbleInv, IsPlaceholder
    <3>2. CASE ~IsPlaceholder(msgs[i], s)
      BY <1>2, <2>1, <2>3, <3>2 DEF BubbleInv
    <3> QED
      BY <3>1, <3>2
  <2> QED
    BY <2>1, <2>4, <2>5 DEF BubbleInv
<1>8. ASSUME NEW s \in Sends, HearError(s) \/ Break(s) PROVE BubbleInv'
  <2>1. /\ UNCHANGED <<stage, said>> /\ DOMAIN msgs' = DOMAIN msgs /\ reading = s
        /\ reading' = Nobody \/ (reading' = s /\ "error" \in told'[s])
        /\ \A u \in Sends : ("done" \in told'[u]) <=> ("done" \in told[u])
    BY <1>0, <1>8 DEF HearError, Break, genVars, ReadType
  <2>2. \A i \in DOMAIN msgs : IsPlaceholder(msgs[i], s) =>
          msgs'[i].of = s /\ ~msgs'[i].stored /\ msgs'[i].text = Notice
    BY <1>2, <1>8 DEF HearError, Break, Bubbles, IsPlaceholder
  <2>3. \A i \in DOMAIN msgs : ~IsPlaceholder(msgs[i], s) => msgs'[i] = msgs[i]
    BY <1>8 DEF HearError, Break
  <2>4. ASSUME NEW i \in DOMAIN msgs
        PROVE  /\ Whole(msgs'[i], stage', said') /\ stage'[msgs'[i].of] # "idle"
               /\ IsPlaceholder(msgs'[i], s) => msgs'[i].text = Notice
               /\ msgs'[i].of \in Sends
               /\ /\ IsPlaceholder(msgs'[i], msgs'[i].of)
                  /\ "done" \notin told'[msgs'[i].of]
                  => msgs'[i].text \in {<<>>, Notice}
    <3>1. CASE IsPlaceholder(msgs[i], s)
      BY <1>2, <2>1, <2>2, <3>1 DEF BubbleInv, Whole, IsPlaceholder
    <3>2. CASE ~IsPlaceholder(msgs[i], s)
      BY <1>2, <2>1, <2>3, <3>2 DEF BubbleInv, IsPlaceholder
    <3> QED
      BY <3>1, <3>2
  <2> QED
    BY <1>0, <2>1, <2>4 DEF BubbleInv, IsPlaceholder
<1>9. ASSUME NEW s \in Sends, HearEnd(s) PROVE BubbleInv'
  <2>1. /\ UNCHANGED <<stage, said, msgs, told>> /\ reading' = Nobody /\ reading = s
        /\ heard[s] = said[s] /\ stage[s] \in Ended
        /\ stage[s] # "refused" => stage[s] \in told[s]
    BY <1>9 DEF HearEnd, genVars, Caught
  <2>2. \A i \in DOMAIN msgs : msgs[i].of # Nobody
    BY <1>0, <1>2
  <2>3. ASSUME NEW i \in DOMAIN msgs, IsPlaceholder(msgs[i], s), "done" \notin told[s]
        PROVE  msgs[i].text \in {<<>>, Notice}
    <3>1. CASE stage[s] = "error"
      BY <2>1, <2>3, <3>1 DEF BubbleInv
    <3>2. CASE stage[s] = "refused"
      <4>1. "error" \notin told[s] /\ heard[s] = 0
        BY <2>1, <3>2 DEF ReadInv, SilentInv
      <4> QED
        BY <1>0, <2>1, <2>3, <4>1 DEF BubbleInv
    <3> QED
      BY <2>1, <2>3, <3>1, <3>2 DEF Ended
  <2> QED
    BY <2>1, <2>2, <2>3 DEF BubbleInv, IsPlaceholder
<1>10. ASSUME NEW l \in Loads, ShowLoad(l) PROVE BubbleInv'
  <2>1. UNCHANGED <<stage, said>> /\ msgs' = load[l].got /\ load[l].phase = "read"
    BY <1>10 DEF ShowLoad, genVars
  <2> QED
    BY <2>1 DEF BubbleInv, ReplyInv, IsPlaceholder, Whole
<1>11. CASE msgs' = <<>>
  BY <1>11 DEF BubbleInv
<1>12. CASE UNCHANGED <<msgs, readVars>>
  BY <1>0, <1>1, <1>2, <1>3, <1>12 DEF BubbleInv, readVars
<1>13. \/ ReadSteps
       \/ \E l \in Loads : ShowLoad(l)
       \/ msgs' = <<>>
       \/ UNCHANGED <<msgs, readVars>>
  BY Frames DEF ViewSteps, ReadSteps, HearDelete, NewChat, viewVars, readVars
<1>14. \A reloaded \in BOOLEAN : Remount(reloaded) => msgs' = <<>>
  BY DEF Remount
<1> QED
  BY <1>4, <1>5, <1>6, <1>7, <1>8, <1>9, <1>10, <1>11, <1>12, <1>13, <1>14
     DEF ReadSteps, Hear

------------------------------------------------------------------------------
(* The screen                                                              *)

\* Every bubble is of the conversation, but for new chats that lost their stream.
InView ==
    \A i \in DOMAIN msgs :
        \/ PlaceOf(msgs[i]) = conv
        \/ /\ aim[msgs[i].of] = NoConv /\ ~msgs[i].stored
           /\ "done" \notin told[msgs[i].of]

\* The screen of a conversation that was deleted under its load.
Emptied == msgs = <<>> /\ conv \in existed \ convs

LastOf(s) == LastAnswer(msgs) # 0 /\ msgs[LastAnswer(msgs)].of = s

\* While a body is read its bubbles are the last ones, and until its "done" the
\* conversation is the one it was sent to.
ShowInv ==
    disturbed \/
        /\ InView
        /\ reading # Nobody =>
             /\ LastOf(reading)
             /\ "done" \notin told[reading] => conv = aim[reading]
        /\ rail # Nobody => LastOf(rail) \/ Emptied

\* An empty screen has no last answer.
LEMMA EmptyHasNoAnswer == LastAnswer(<<>>) = 0
BY DEF LastAnswer

\* Which bubble is the last answer depends only on the roles.
LEMMA SameLastAnswer ==
    ASSUME DOMAIN msgs' = DOMAIN msgs,
           \A i \in DOMAIN msgs : /\ msgs'[i].role = msgs[i].role
                                  /\ msgs'[i].of = msgs[i].of,
           msgs \in Seq(Bubbles)
    PROVE  \A s : LastOf(s) => LastOf(s)'
<1>1. {i \in DOMAIN msgs' : msgs'[i].role = "assistant"}
        = {i \in DOMAIN msgs : msgs[i].role = "assistant"}
  OBVIOUS
<1> DEFINE Greatest(A) == CHOOSE i \in A : \A j \in A : j <= i
           Answers(m) == {i \in DOMAIN m : m[i].role = "assistant"}
<1>2. \A m : LastAnswer(m) = IF Answers(m) = {} THEN 0 ELSE Greatest(Answers(m))
  BY DEF LastAnswer
<1>3. LastAnswer(msgs) # 0 => LastAnswer(msgs) \in DOMAIN msgs
  BY LastAnswerIsLast
<1>4. Answers(msgs') = Answers(msgs)
  BY <1>1
<1> HIDE DEF Greatest, Answers
<1>5. LastAnswer(msgs') = LastAnswer(msgs)
  BY <1>2, <1>4
<1> QED
  BY <1>3, <1>5 DEF LastOf

\* A question and its placeholder come last.
LEMMA SentIsLast ==
    ASSUME NEW s \in Sends, msgs \in Seq(Bubbles), msgs' = msgs \o SentBubbles(s)
    PROVE  LastOf(s)'
<1>1. /\ msgs' \in Seq(Bubbles) /\ Len(msgs) \in Nat
      /\ DOMAIN msgs' = 1..(Len(msgs) + 2)
      /\ msgs'[Len(msgs) + 2] = SentBubbles(s)[2]
  BY SentAtTheEnd
<1>2. SentBubbles(s)[2].role = "assistant" /\ SentBubbles(s)[2].of = s
  BY DEF SentBubbles
<1> DEFINE n == Len(msgs) + 2
<1>3. n \in DOMAIN msgs' /\ msgs'[n].role = "assistant"
  BY <1>1, <1>2
<1> HIDE DEF n
<1>4. LastAnswer(msgs') # 0
  BY <1>1, <1>3, LastAnswerIsLast
<1>5. LastAnswer(msgs') \in DOMAIN msgs' /\ n <= LastAnswer(msgs')
  BY <1>1, <1>3, <1>4, LastAnswerIsLast
<1>6. LastAnswer(msgs') = n
  BY <1>1, <1>5 DEF n
<1> QED
  BY <1>1, <1>2, <1>4, <1>6 DEF LastOf, n

LEMMA ShowStep ==
    ASSUME TypeInv, ServerInv, ReadInv, AimInv, BubbleInv, ReplyInv, ShowInv,
           [Next]_vars
    PROVE  ShowInv'
<1>1. /\ GenType /\ ViewType /\ ReadType /\ BeginInv /\ Moves
      /\ \A s \in Sends : s # Nobody
  BY TypeParts, GeneratorsMove, SendsAreSomebody DEF TypeInv
<1>2. \A i \in DOMAIN msgs : msgs[i] \in Bubbles /\ msgs[i].of \in Sends
  BY <1>1, ElementsAreBubbles DEF ViewType, Bubbles
<1>3. \A i \in DOMAIN msgs :
        /\ aim'[msgs[i].of] = aim[msgs[i].of]
        /\ msgs[i].stored \/ "done" \in told[msgs[i].of] =>
             /\ home'[msgs[i].of] = home[msgs[i].of]
             /\ home[msgs[i].of] \in Convs
  BY <1>1, <1>2 DEF BubbleInv, Whole, Moves, BeginInv, ReadInv
<1>0. LastOf(reading) => ~Emptied
  BY EmptyHasNoAnswer DEF LastOf, Emptied
<1>4. ASSUME NEW s \in Sends, Send(s) PROVE ShowInv'
  <2>1. msgs' = msgs \o SentBubbles(s)
    BY <1>4 DEF Send, SentBubbles
  <2>2. /\ DOMAIN msgs = 1..Len(msgs) /\ DOMAIN msgs' = 1..(Len(msgs) + 2)
        /\ Len(msgs) \in Nat
        /\ \A i \in DOMAIN msgs : msgs'[i] = msgs[i]
        /\ msgs'[Len(msgs) + 1] = SentBubbles(s)[1]
        /\ msgs'[Len(msgs) + 2] = SentBubbles(s)[2]
    BY <1>1, <2>1, SentAtTheEnd DEF ViewType
  <2>3. LastOf(s)'
    BY <1>1, <2>1, SentIsLast DEF ViewType
  <2>4. /\ reading' = s /\ rail' = Nobody /\ aim'[s] = conv
        /\ UNCHANGED <<conv, home, disturbed, told>> /\ told[s] = {}
    BY <1>1, <1>4 DEF Send, GenType, ReadInv
  <2>5. InView => InView'
    <3>1. \A i \in DOMAIN msgs' : \/ i \in DOMAIN msgs
                                  \/ i = Len(msgs) + 1 \/ i = Len(msgs) + 2
      BY <2>2
    <3>2. \A k \in 1..2 : /\ ~SentBubbles(s)[k].stored
                          /\ SentBubbles(s)[k].of = s
      BY DEF SentBubbles
    <3>3. \A i \in DOMAIN msgs' \ DOMAIN msgs :
            ~msgs'[i].stored /\ msgs'[i].of = s
      BY <2>2, <3>1, <3>2
    <3> QED
      BY <1>3, <2>2, <2>4, <3>3 DEF InView, PlaceOf
  <2>6. LastAnswer(msgs') # 0 /\ msgs'[LastAnswer(msgs')].of = reading'
    BY <2>3, <2>4 DEF LastOf
  <2> QED
    BY <2>4, <2>5, <2>6 DEF ShowInv, LastOf
<1>5. ASSUME NEW s \in Sends, HearText(s) \/ HearError(s) \/ Break(s)
      PROVE  ShowInv'
  <2>1. /\ UNCHANGED <<conv, rail, disturbed, home, aim>> /\ reading # Nobody
        /\ reading' = Nobody \/ reading' = reading
        /\ \A u \in Sends : ("done" \in told'[u]) <=> ("done" \in told[u])
    BY <1>1, <1>5 DEF HearText, HearError, Break, genVars, ReadType
  <2>2. /\ DOMAIN msgs' = DOMAIN msgs
        /\ \A i \in DOMAIN msgs : /\ msgs'[i].of = msgs[i].of
                                  /\ msgs'[i].role = msgs[i].role
                                  /\ msgs'[i].stored = msgs[i].stored
    BY <1>2, <1>5 DEF HearText, HearError, Break, Bubbles
  <2>3. \A t : LastOf(t) => LastOf(t)'
    BY <1>1, <2>2, SameLastAnswer DEF ViewType
  <2>4. InView => InView'
    BY <1>2, <2>1, <2>2 DEF InView, PlaceOf
  <2>5. reading' # Nobody => ("done" \in told'[reading']) <=> ("done" \in told[reading])
    BY <1>1, <2>1 DEF ReadType
  <2> QED
    BY <1>0, <2>1, <2>3, <2>4, <2>5 DEF ShowInv, LastOf
<1>6. ASSUME NEW s \in Sends, HearSources(s) PROVE ShowInv'
  <2>1. /\ UNCHANGED <<msgs, conv, disturbed, reading, home, aim>> /\ rail' = s
        /\ reading = s
        /\ \A u \in Sends : ("done" \in told'[u]) <=> ("done" \in told[u])
    BY <1>1, <1>6 DEF HearSources, genVars, ReadType
  <2>2. InView => InView'
    BY <1>2, <2>1 DEF InView, PlaceOf
  <2> QED
    BY <1>1, <2>1, <2>2 DEF ShowInv, LastOf
<1>7. ASSUME NEW s \in Sends, HearDone(s) PROVE ShowInv'
  <2>1. /\ UNCHANGED <<rail, disturbed, reading, home, aim>> /\ reading = s
        /\ conv' = home[s] /\ "done" \notin told[s] /\ "done" \in told'[s]
        /\ stage[s] = "done" /\ \A u \in Sends \ {s} : told'[u] = told[u]
    BY <1>1, <1>7 DEF HearDone, genVars, ReadType
  <2>2. ASSUME NEW i \in DOMAIN msgs
        PROVE  /\ msgs'[i].of = msgs[i].of /\ msgs'[i].role = msgs[i].role
               /\ \/ msgs'[i].stored = msgs[i].stored
                  \/ msgs'[i].stored /\ msgs[i].of = s
    BY <1>2, <1>7 DEF HearDone, IsPlaceholder, Bubbles
  <2>3. DOMAIN msgs' = DOMAIN msgs
    BY <1>7 DEF HearDone
  <2>4. \A t : LastOf(t) => LastOf(t)'
    BY <1>1, <2>2, <2>3, SameLastAnswer DEF ViewType
  <2>5. ~disturbed => InView'
    <3> SUFFICES ASSUME ~disturbed, NEW i \in DOMAIN msgs
                 PROVE  \/ PlaceOf(msgs[i])' = home[s]
                        \/ /\ aim[msgs[i].of] = NoConv /\ ~msgs'[i].stored
                           /\ "done" \notin told'[msgs[i].of]
      BY <2>1, <2>2, <2>3 DEF InView
    <3>1. conv = aim[s] /\ InView
      BY <1>1, <2>1 DEF ShowInv
    <3>2. aim[s] # NoConv => home[s] = conv
      BY <2>1, <3>1 DEF AimInv
    <3>3. CASE msgs[i].of = s
      BY <2>1, <2>2, <3>3 DEF PlaceOf
    <3>4. CASE msgs[i].of # s
      <4>1. /\ msgs'[i].stored = msgs[i].stored /\ msgs'[i].of = msgs[i].of
            /\ told'[msgs[i].of] = told[msgs[i].of]
        BY <1>2, <2>1, <2>2, <3>4
      <4>2. msgs[i].stored \/ "done" \in told[msgs[i].of] =>
              home[msgs[i].of] # NoConv
        BY <1>3 DEF Convs, NoConv
      <4> QED
        BY <2>1, <3>1, <3>2, <4>1, <4>2 DEF InView, PlaceOf
    <3> QED
      BY <3>3, <3>4
  <2> QED
    BY <1>0, <1>1, <2>1, <2>4, <2>5 DEF ShowInv, LastOf
<1>8. ASSUME NEW s \in Sends, HearEnd(s) PROVE ShowInv'
  <2>1. /\ UNCHANGED <<msgs, conv, rail, disturbed, told, home, aim>>
        /\ reading' = Nobody /\ reading # Nobody
    BY <1>1, <1>8 DEF HearEnd, genVars
  <2> QED
    BY <1>0, <2>1 DEF ShowInv, InView, PlaceOf, LastOf
<1>9. ASSUME NEW l \in Loads, ShowLoad(l) PROVE ShowInv'
  <2>1. /\ msgs' = load[l].got /\ conv' = load[l].conv /\ disturbed' = streaming
        /\ rail' = IF LastAnswer(load[l].got) = 0 THEN rail
                   ELSE load[l].got[LastAnswer(load[l].got)].of
        /\ UNCHANGED <<home, reading, existed, convs>>
    BY <1>9 DEF ShowLoad, Disturb, genVars, readVars, dbVars
  <2>2. disturbed' \/ reading' = Nobody
    BY <1>1, <2>1 DEF ReadInv, ViewType
  <2>3. InView'
    BY <1>9, <2>1 DEF InView, PlaceOf, ReplyInv, ShowLoad
  <2>4. LastAnswer(load[l].got) # 0 \/ Emptied'
    BY <1>9, <2>1 DEF ReplyInv, ShowLoad, Emptied
  <2> QED
    BY <2>1, <2>2, <2>3, <2>4 DEF ShowInv, LastOf
<1>10. CASE /\ msgs' = <<>> /\ rail' = Nobody
            /\ disturbed' \/ reading' = Nobody
  BY <1>10 DEF ShowInv, InView
<1>11. CASE UNCHANGED <<viewVars, readVars>> /\ ~\E s \in Sends : Send(s)
  <2>1. reading # Nobody => aim'[reading] = aim[reading]
    BY <1>1 DEF ReadInv, ReadType, Moves
  <2>2. Emptied => Emptied'
    BY <1>11, DeletedStays DEF Emptied, viewVars
  <2>3. InView => InView'
    BY <1>3, <1>11 DEF viewVars, readVars, InView, PlaceOf
  <2> QED
    BY <1>11, <2>1, <2>2, <2>3 DEF viewVars, readVars, ShowInv, LastOf
<1>12. ASSUME NewChat \/ \E d \in Deletes : HearDelete(d),
              ~UNCHANGED <<viewVars, readVars>>
       PROVE  /\ msgs' = <<>> /\ rail' = Nobody
              /\ disturbed' \/ reading' = Nobody
  <2>1. /\ msgs' = <<>> /\ rail' = Nobody /\ disturbed' = streaming
        /\ reading' = reading
    BY <1>12 DEF NewChat, HearDelete, Disturb, viewVars, readVars
  <2> QED
    BY <1>1, <2>1 DEF ReadInv, ViewType
<1>13. \A reloaded \in BOOLEAN : Remount(reloaded) =>
         msgs' = <<>> /\ rail' = Nobody /\ reading' = Nobody
  BY DEF Remount
<1>14. \/ ReadSteps
       \/ \E l \in Loads : ShowLoad(l)
       \/ NewChat \/ \E d \in Deletes : HearDelete(d)
       \/ UNCHANGED <<viewVars, readVars>>
  BY Frames DEF ViewSteps, ReadSteps
<1> QED
  BY <1>4, <1>5, <1>6, <1>7, <1>8, <1>9, <1>10, <1>11, <1>12, <1>13, <1>14
     DEF ReadSteps, Hear

------------------------------------------------------------------------------
(* Theorems                                                                *)

ScreenInv ==
    /\ TypeInv /\ ServerInv
    /\ ReadInv /\ SilentInv /\ AimInv /\ BubbleInv /\ ReplyInv /\ ShowInv

LEMMA ScreenInit == Init => ScreenInv
<1> SUFFICES ASSUME Init PROVE ScreenInv
  OBVIOUS
<1>1. TypeInv /\ ServerInv
  BY TypeInit, ServerInit
<1>2. ReadInv /\ SilentInv /\ AimInv
  BY DEF Init, ReadInv, SilentInv, AimInv, Holding
<1>3. BubbleInv /\ ReplyInv /\ ShowInv
  BY DEF Init, BubbleInv, ReplyInv, ShowInv, InView, NoLoad
<1> QED
  BY <1>1, <1>2, <1>3 DEF ScreenInv

LEMMA ScreenStep == ScreenInv /\ [Next]_vars => ScreenInv'
BY TypeStep, ServerStep, ReadStep, SilentStep, AimStep, BubbleStep, ReplyStep, ShowStep
   DEF ScreenInv

LEMMA ScreenAlways == Spec => []ScreenInv
BY ScreenInit, ScreenStep, PTL DEF Spec

\* A bubble with the server's identity shows that stored message, and all of it.
THEOREM StoredBubblesAreTrue == Spec => []ShownStoredIsTrue
<1>1. ScreenInv => ShownStoredIsTrue
  <2> SUFFICES ASSUME ScreenInv, NEW i \in DOMAIN msgs, msgs[i].stored
               PROVE  /\ \/ <<msgs[i].of, msgs[i].role>> \in rows
                         \/ home[msgs[i].of] \in existed \ convs
                      /\ msgs[i].text = Content(<<msgs[i].of, msgs[i].role>>)
    BY DEF ShownStoredIsTrue
  <2>1. msgs[i] \in Bubbles
    BY TypeParts, ElementsAreBubbles DEF ScreenInv, TypeInv, ViewType
  <2>2. msgs[i].of \in Sends /\ msgs[i].role \in Roles
    BY <2>1 DEF Bubbles
  <2>3. Whole(msgs[i], stage, said)
    BY DEF ScreenInv, BubbleInv
  <2>4. stage[msgs[i].of] = "done"
    BY <2>3 DEF Whole
  <2>5. \/ <<msgs[i].of, msgs[i].role>> \in rows
        \/ home[msgs[i].of] \in existed \ convs
    BY <2>2, <2>4 DEF ScreenInv, ServerInv, DoneInv
  <2>6. msgs[i].text = Content(<<msgs[i].of, msgs[i].role>>)
    BY <2>3 DEF Whole, Content, Copies
  <2> QED
    BY <2>5, <2>6
<1> QED
  BY ScreenAlways, <1>1, PTL

\* Unless the view was changed under a running answer, what the screen shows is of
\* the conversation the next question goes to, up to questions that began a new
\* chat and lost their stream.
THEOREM QuestionsGoWhereTheyShow == Spec => []ViewIsCurrent
<1>1. ScreenInv => ViewIsCurrent
  <2> SUFFICES ASSUME ScreenInv, ~disturbed, NEW i \in DOMAIN msgs,
                      PlaceOf(msgs[i]) # conv
               PROVE  Unplaced(msgs[i])
    BY DEF ViewIsCurrent
  <2>1. /\ aim[msgs[i].of] = NoConv /\ ~msgs[i].stored
        /\ "done" \notin told[msgs[i].of]
    BY DEF ScreenInv, ShowInv, InView
  <2>2. msgs[i].of \in Sends /\ msgs[i].of # Nobody
    BY TypeParts, ElementsAreBubbles, SendsAreSomebody
       DEF ScreenInv, TypeInv, ViewType, Bubbles
  <2>3. msgs[i].of # reading
    BY <2>1, <2>2 DEF ScreenInv, ShowInv, PlaceOf
  <2> QED
    BY <2>1, <2>3 DEF ScreenInv, BubbleInv, IsPlaceholder, Unplaced
<1> QED
  BY ScreenAlways, <1>1, PTL

\* Unless the view was changed under a running answer, the right rail lists the
\* sources of the last answer on the screen, or the screen is empty because its
\* conversation was deleted under the load.
THEOREM RailShowsTheLastAnswer == Spec => []RailIsOfLastAnswer
<1>1. ScreenInv => RailIsOfLastAnswer
  BY DEF ScreenInv, ShowInv, LastOf, Emptied, RailIsOfLastAnswer, Screen
<1> QED
  BY ScreenAlways, <1>1, PTL
==============================================================================
